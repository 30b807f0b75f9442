--------------------------- MODULE MCTradePipeline ---------------------------
(* A small instance of TradePipeline: half-second ticks, one trader, a losing *)
(* close in one hour and a flagged trade of the next.                         *)
EXTENDS TradePipeline, TLC

CONSTANTS r1, r2, u1, s1, sX, tA, tB

Body(t, s, st, exit, in, out, adh, em) ==
    [required |-> TRUE, storable |-> TRUE, tradeId |-> t, userId |-> u1, sessionId |-> s,
     direction |-> "long", quantity |-> 1, status |-> st,
     entryPrice |-> 10, exitPrice |-> exit, entryAt |-> in, exitAt |-> out,
     adherence |-> adh, emotion |-> em]

\* A loss closed at 3560.5 s, and an entry 89 s later, closed without an exit
\* price; the loss once more, in an unknown session, and the entry, still open.
Loss      == Body(tA, s1, "closed", 8, 7101, 7121, 4, "calm")
Edge      == Body(tB, s1, "closed", NULL, 7299, NULL, NULL, "fearful")
LossAgain == Body(tA, sX, "closed", 12, 7101, 7121, 4, "calm")
EdgeOpen  == Body(tB, s1, "open", NULL, 7299, NULL, NULL, NULL)

MCPayloads == {Loss, Edge, LossAgain, EdgeOpen}
NoSeed == [t \in {} |-> NULL]

Symmetric == Permutations(Reqs)

===============================================================================
