---------------------------- MODULE MCSignalFeed ----------------------------
(* The environments TLC checks SignalFeed in.  One tick is as long as the  *)
(* Type A cooldown and five minutes of a verdict's age; the longer times   *)
(* keep their order.                                                       *)
EXTENDS SignalFeed

Quiet ==
  [modeA |-> "live", modeB |-> "off", alt |-> "off", reasons |-> {},
   exits |-> 0, ticks |-> 0, crashes |-> 0, fails |-> 0, pauses |-> 0,
   midnights |-> 0,
   replyLost |-> FALSE, bearish |-> FALSE]

\* Type A under every fault: kills, pushes that raise, taken or not, and counts
\* that do.
Faults == [Quiet EXCEPT !.ticks = 3, !.crashes = 1, !.fails = 1,
                        !.replyLost = TRUE, !.midnights = 1]
\* Exits of every kind meet Type A.
Exits == [Quiet EXCEPT !.ticks = 3, !.exits = 2, !.fails = 1,
            !.reasons = {"stop", "stagnant", "cancel"}]
\* Type B and its canary: stops and kills while Claude or Upbit is asked.
Trend == [Quiet EXCEPT !.modeA = "off", !.modeB = "live", !.alt = "live",
            !.ticks = 2, !.exits = 2, !.crashes = 1, !.midnights = 1,
            !.reasons = {"wsStop"}]
\* The same, and pushes that raise.
Unsent == [Quiet EXCEPT !.modeA = "off", !.modeB = "live", !.alt = "live",
             !.ticks = 3, !.crashes = 1, !.fails = 1, !.replyLost = TRUE]
\* Both families share the daily cap; a pause falls into the loop, also
\* where time passes.
Both == [Quiet EXCEPT !.modeB = "live",
            !.midnights = 1, !.pauses = 1]
Later == [Both EXCEPT !.modeB = "off", !.ticks = 1]
\* Candidates only, in a market that may turn bearish.
Shadow == [Quiet EXCEPT !.modeA = "shadow", !.modeB = "shadow",
            !.alt = "shadow", !.ticks = 1, !.exits = 1, !.bearish = TRUE,
            !.reasons = {"time"}]

AllEnvs == {Faults, Exits, Trend, Unsent, Both, Later, Shadow}
=============================================================================
