--------------------------- MODULE MCSeedMigration ---------------------------
(* A small instance of SeedMigration: a file of four rows in one session and  *)
(* two hours, two of them entered at the same time, and one new trade.        *)
EXTENDS SeedMigration

CONSTANTS u1, s1

Row(t, st, in, res, pnl, adh, em) ==
    [tradeId |-> t, userId |-> u1, sessionId |-> s1, status |-> st, entryAt |-> in,
     outcome |-> res, pnl |-> pnl, adherence |-> adh, emotion |-> em, revengeFlag |-> em # "calm"]

MCCsv == {Row("t1", "closed", 7100, "loss", -2, 4, "calm"),
          Row("t2", "closed", 7150, "win", 3, NULL, "anxious"),
          Row("t3", "closed", 7150, "loss", -1, 2, "anxious"),
          Row("t4", "closed", 7300, "win", 5, 5, "calm")}

MCNew == {Row("t5", "closed", 7310, "win", 1, NULL, "calm")}

MCTries == [p \in Processes |-> 2]

==============================================================================
