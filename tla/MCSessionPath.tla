---------------------------- MODULE MCSessionPath ----------------------------
(* A small instance of SessionPath: one session, its owner and another user,  *)
(* a message of three tokens, an open trade.                                 *)
EXTENDS SessionPath, TLC

CONSTANTS r1, r2, u1, u2, s1, sX, sBad, bad

Ask(route, header, session, mood, rating) ==
    [route |-> route, header |-> header, session |-> session,
     mood |-> mood, rating |-> rating]

Own(route, session) == Ask(route, u1, session, "calm", NULL)

MCInputs ==
    {Own("summary", s1), Own("summary", sX), Own("summary", sBad),
     Ask("summary", u2, s1, NULL, NULL),
     Ask("debrief", u1, s1, "calm", 5),     \* saved
     Ask("debrief", u1, s1, "calm", 0),     \* refused by the table
     Ask("debrief", u1, s1, NULL, 5),       \* not decoded, or no such mood
     Ask("debrief", u2, s1, "calm", 5),
     Own("coaching", s1), Ask("coaching", bad, s1, NULL, NULL),
     Ask("health", bad, NULL, NULL, NULL), Ask("unknown", bad, NULL, NULL, NULL)}

MCOwner == [s \in {s1} |-> u1]
MCMessage == <<"Great", "session", "review">>

Open == [tradeId |-> "t2", sessionId |-> s1, outcome |-> NULL]
MCTrades == {Open}

==============================================================================
