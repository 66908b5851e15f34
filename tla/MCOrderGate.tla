----------------------------- MODULE MCOrderGate -----------------------------
(* The environments TLC checks OrderGate in.                               *)
EXTENDS OrderGate

OneSym == <<"A", "A", "A">>
Apart == <<"A", "B", "A">>

Env(rs, syms, n, m, ws) ==
  [runners |-> rs, signals |-> {1, 2}, symOf |-> syms, held |-> {}, maxPos |-> 2,
   dailyCap |-> 5, attempts |-> 1, pushes |-> n, orders |-> m, moves |-> 0,
   switches |-> 0, crashes |-> 0, weak |-> ws]

\* Two runners at once, a kill, replies lost; every signal for one symbol.
Two == [Env({"r1", "r2"}, OneSym, 2, 2, {"slow_loop", "lost_reply", "unseen"})
          EXCEPT !.maxPos = 1, !.dailyCap = 2, !.crashes = 1]
\* The same with a cooldown that ends before its BUY does.
Brief == [Env({"r1", "r2"}, OneSym, 2, 2, Weakness \ {"reset"})
            EXCEPT !.maxPos = 1, !.dailyCap = 2]
\* Two runners at the daily cap, over midnight.
Capped == [Env({"r1", "r2"}, Apart, 2, 2, {"slow_loop", "unseen"})
             EXCEPT !.dailyCap = 1, !.switches = 1]
\* A BUY, an EXIT and a BUY of one symbol.
Repeat == [Env({"r1"}, OneSym, 3, 3, {"unseen", "booking"})
            EXCEPT !.signals = {1, 2, 3}, !.moves = 1]
\* Rule 2 at its limit.
Full == [Env({"r1"}, Apart, 2, 2, {}) EXCEPT !.maxPos = 1, !.moves = 1]
\* Pauses and resumes; a pause, and a loss on what is held at the start.
Resumed == [Env({"r1"}, Apart, 2, 2, {}) EXCEPT !.maxPos = 3, !.switches = 2]
Stopped == [Env({"r1"}, Apart, 2, 2, {"unseen"})
              EXCEPT !.held = {"C"}, !.maxPos = 3, !.moves = 1, !.switches = 1]
\* Orders that IBKR has executed or cancelled when it answers.
AtOnce == [Env({"r1"}, Apart, 2, 2, {"at_once", "unseen"}) EXCEPT !.maxPos = 1]
\* A signal pushed twice, two kills and a pause.
Killed == [Env({"r1", "r2"}, OneSym, 2, 1, {})
             EXCEPT !.signals = {1}, !.maxPos = 1, !.dailyCap = 2, !.switches = 1,
                    !.crashes = 2]

AllEnvs == {Two, Brief, Capped, Repeat, Full, Resumed, Stopped, AtOnce,
            Killed}

RetryEnvs == {[Env({"r1"}, Apart, 1, 2, {"lost_reply"}) EXCEPT !.attempts = 2]}
=============================================================================
