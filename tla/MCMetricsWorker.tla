--------------------------- MODULE MCMetricsWorker ---------------------------
(* Small instances of MetricsWorker: half-second ticks, one trader, rows in  *)
(* one hour or the next, one more trade per window than the limit of 1.      *)
EXTENDS MetricsWorker

CONSTANTS u1, s1, tL, tO, tS

Row(t, st, in, out, res, pnl, adh, em, revenge) ==
    [tradeId |-> t, userId |-> u1, sessionId |-> s1, status |-> st,
     entryAt |-> in, exitAt |-> out, outcome |-> res, pnl |-> pnl,
     adherence |-> adh, emotion |-> em, revengeFlag |-> revenge]

Losing    == Row(tL, "closed", 7101, NULL, "loss", -2, 1, "anxious", TRUE)
Late      == Row(tL, "closed", 7101, NULL, "win", 4, 5, "anxious", TRUE)
StillOpen == Row(tL, "open", 7101, NULL, NULL, NULL, NULL, "calm", FALSE)
Open      == Row(tO, "open", 7300, NULL, NULL, NULL, 2, "calm", FALSE)

SeedRow == Row(tS, "closed", 7000, 7100, "loss", -1, 3, "calm", FALSE)
MCSeed == [t \in {tS} |-> SeedRow]
MCSeedBuckets ==
    [k \in {<<u1, 0>>} |-> [trades |-> 1, wins |-> 0, losses |-> 1, pnl |-> -1,
                            revenge |-> 0, adherence |-> <<3, 1>>, tilt |-> NULL]]
MCSeedEmotions == [k \in {<<u1, "calm", 0>>} |-> [wins |-> 0, losses |-> 1]]

LateRows == {Late, StillOpen}
OpenRows == {Losing, Open}

=============================================================================
