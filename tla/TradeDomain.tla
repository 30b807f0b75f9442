----------------------------- MODULE TradeDomain -----------------------------
(***************************************************************************)
(* The pure rules of internal/domain: validation, P&L, the revenge window, *)
(* and the conversions a trade goes through on its way to Redis.           *)
(*                                                                         *)
(* Time is counted in ticks, TicksPerSecond of them to the second, because *)
(* the code cuts instants down to whole seconds in two places (Unix() for  *)
(* the last-loss key, RFC3339 for the stream event) and the difference is  *)
(* visible.  Prices and quantities are integers.                           *)
(***************************************************************************)
EXTENDS Integers

CONSTANTS
    NULL,             \* an absent optional field (nil pointer, SQL NULL)
    TicksPerSecond    \* resolution of the instants clients submit

ASSUME TicksAssumption == TicksPerSecond \in Nat \ {0}

-----------------------------------------------------------------------------
Statuses   == {"open", "closed", "cancelled"}
Directions == {"long", "short"}
Emotions   == {"calm", "anxious", "greedy", "fearful", "neutral"}
Outcomes   == {"win", "loss"}

\* time.Time.Unix(): whole seconds, fraction dropped.
Unix(t) == t \div TicksPerSecond

\* time.Unix(s, 0): the instant at which second s begins.
FromUnix(s) == s * TicksPerSecond

\* Formatting as RFC3339 and parsing back keeps whole seconds only.
ToRFC3339(t) == FromUnix(Unix(t))

\* Truncating to the hour and to the day, of which only identity matters.
HourOf(t) == t \div (3600 * TicksPerSecond)
DateOf(t) == t \div (24 * 3600 * TicksPerSecond)

RevengeWindow == 90 * TicksPerSecond

\* The request checks: `required` stands for the fields that only have to be
\* there (ids, asset, entry time: not empty, not zero), a known asset class and
\* a rationale that is not too long.  Nothing asks whether an id is a UUID or an
\* amount fits its column: a body has `storable` for that, looked at by nobody
\* before PostgreSQL.  A closed trade needs neither an exit price nor an exit
\* time.
Validate(p) ==
    /\ p.required
    /\ p.direction \in Directions
    /\ p.entryPrice # 0
    /\ p.quantity # 0
    /\ p.status \in Statuses
    /\ p.adherence = NULL \/ p.adherence \in 1..5
    /\ p.emotion = NULL \/ p.emotion \in Emotions

PnL(p) ==
    IF p.direction = "long"
    THEN (p.exitPrice - p.entryPrice) * p.quantity
    ELSE (p.entryPrice - p.exitPrice) * p.quantity

\* Break-even counts as a loss.
Outcome(p) == IF PnL(p) > 0 THEN "win" ELSE "loss"

\* Mutant: && before ||, so that fearful alone is enough.
FearfulIsRevenge(prevExitAt, newEntryAt, emotion) ==
    \/ newEntryAt - prevExitAt < RevengeWindow /\ emotion = "anxious"
    \/ emotion = "fearful"

IsRevenge(prevExitAt, newEntryAt, emotion) ==
    LET gap == newEntryAt - prevExitAt
    IN  /\ gap < RevengeWindow
        /\ gap >= 0
        /\ emotion \in {"anxious", "fearful"}

\* The row built from a request: outcome and P&L only for a closed trade that
\* has an exit price.
BuildTrade(p, revenge) ==
    LET priced == p.status = "closed" /\ p.exitPrice # NULL
    IN  [tradeId     |-> p.tradeId,
         userId      |-> p.userId,
         sessionId   |-> p.sessionId,
         status      |-> p.status,
         entryAt     |-> p.entryAt,
         exitAt      |-> p.exitAt,
         outcome     |-> IF priced THEN Outcome(p) ELSE NULL,
         pnl         |-> IF priced THEN PnL(p) ELSE NULL,
         adherence   |-> p.adherence,
         emotion     |-> p.emotion,
         revengeFlag |-> revenge]

\* A losing close: the rows that arm the revenge window.
IsLosingClose(row) ==
    /\ row.status = "closed"
    /\ row.outcome = "loss"
    /\ row.exitAt # NULL

\* The stream event published for a row: the fields the worker reads.
EventOf(row) ==
    [tradeId     |-> row.tradeId,
     userId      |-> row.userId,
     sessionId   |-> row.sessionId,
     status      |-> row.status,
     entryAt     |-> ToRFC3339(row.entryAt),
     outcome     |-> row.outcome,
     pnl         |-> row.pnl,
     adherence   |-> row.adherence,
     emotion     |-> row.emotion,
     revengeFlag |-> row.revengeFlag]

=============================================================================
