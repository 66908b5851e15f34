------------------------------ MODULE MCCoinExit ------------------------------
(* The environments TLC checks CoinExit in.                                *)
EXTENDS CoinExit

Env(ws, n, lot, weak) ==
  [own |-> 0, lot |-> lot, buys |-> n, crashes |-> 0, outages |-> 0,
   monitor |-> ws, weak |-> weak]

\* The runner alone, orders filled in pieces.
Pieces == Env(FALSE, 2, 2, {"partial"})
\* The runner alone, everything late; BUYs early.
Slow == Env(FALSE, 2, 1, {"lock_expiry", "slow_engine"})
Early == Env(FALSE, 2, 1, {"early_rebuy"})
\* Both sellers, all in time.
Both == Env(TRUE, 2, 1, {})
\* Both sellers, a kill, a failing request, buy_pending too short.
Faults == [Env(TRUE, 1, 1, {"pending_expiry"}) EXCEPT !.crashes = 1, !.outages = 1]

\* The owner holds a coin of the kind claw trades.
Owner == [Env(FALSE, 1, 1, {}) EXCEPT !.own = 1]

AllEnvs == {Pieces, Slow, Early, Both, Faults, Owner}
=============================================================================
