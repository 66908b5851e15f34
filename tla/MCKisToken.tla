------------------------------ MODULE MCKisToken ------------------------------
(* The environments TLC checks KisToken in; hours are scaled down.         *)
EXTENDS KisToken

Env(l, c, r, s) == [losses |-> l, crashes |-> c, revokes |-> r, slow |-> s]

\* A request for a token fails, its answer is lost, or Redis fails.
Lossy == Env(1, 0, 0, FALSE)
\* A kill, perhaps with a token at hand.
Killed == Env(0, 1, 0, FALSE)
\* KIS revokes every token.
Revoked == Env(0, 0, 1, FALSE)
\* The lock lapses while its holder asks.
Slow == Env(0, 0, 0, TRUE)

AllEnvs == {Lossy, Killed, Revoked, Slow}
=============================================================================
