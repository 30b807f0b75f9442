---------------------------- MODULE MCTradeIngest ----------------------------
(* Small instances of TradeIngest: half-second ticks, one trader (and the   *)
(* subject of another token), and bodies chosen around one losing close.    *)
EXTENDS TradeIngest

CONSTANTS r1, r2, u1, u2, s1, sX, tA, tB, tC, tS

Body(t, s, st, exit, in, out, em) ==
    [required |-> TRUE, storable |-> TRUE, tradeId |-> t, userId |-> u1, sessionId |-> s,
     direction |-> "long", quantity |-> 1, status |-> st,
     entryPrice |-> 10, exitPrice |-> exit, entryAt |-> in, exitAt |-> out,
     adherence |-> NULL, emotion |-> em]

\* A loss closed at 110.5 s, kept in Redis as second 110.
Loss == Body(tA, s1, "closed", 8, 200, 221, NULL)
\* 89.5 s after the kept second.
Edge == Body(tB, s1, "open", NULL, 399, NULL, "anxious")
\* At the kept second, half a second before the close.
Early == Body(tC, s1, "open", NULL, 220, NULL, "fearful")
\* The same ids again, with other contents; one in an unknown session, one too
\* late for the window.
LossAgain == Body(tA, sX, "open", NULL, 500, NULL, "calm")
EdgeAgain == Body(tB, s1, "closed", 12, 420, 423, "fearful")
\* Invalid: no quantity.  Valid, but with a price too large for its column.
Invalid  == [Loss EXCEPT !.quantity = 0]
TooLarge == [Loss EXCEPT !.storable = FALSE]

\* The seed row.
SeedRow == BuildTrade(Body(tS, s1, "closed", 9, 40, 60, "anxious"), TRUE)

MCSeed == [t \in {tS} |-> SeedRow]
NoSeed == [t \in {} |-> NULL]

AllBodies     == {Loss, Edge, EdgeAgain, LossAgain, Invalid, TooLarge}
LossBodies    == {Loss, Edge, Early}
RefusedBodies == {Loss, TooLarge}

=============================================================================
