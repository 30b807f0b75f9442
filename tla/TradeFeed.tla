------------------------------ MODULE TradeFeed ------------------------------
(***************************************************************************)
(* What the write path promises the rest of the system, seen from the      *)
(* trades table and the trades:events stream alone:                        *)
(*   - a trade id is stored at most once and its row never changes;        *)
(*   - the stream only grows, and every event describes a row that was     *)
(*     already stored when the event was appended.                         *)
(* It does not promise that a stored trade is ever published, nor that it  *)
(* is published only once.                                                 *)
(***************************************************************************)
EXTENDS TradeDomain, Sequences

CONSTANT SeedTrades   \* the rows loaded by the seed migration

VARIABLES
    trades,   \* the table: trade id -> row, defined on the stored ids
    stream    \* the Redis stream trades:events, oldest entry first

feedVars == <<trades, stream>>

Extend(f, k, v) == [x \in DOMAIN f \cup {k} |-> IF x = k THEN v ELSE f[x]]

FeedInit ==
    /\ trades = SeedTrades
    /\ stream = <<>>

FeedInsert(row) ==
    /\ row.tradeId \notin DOMAIN trades
    /\ trades' = Extend(trades, row.tradeId, row)
    /\ UNCHANGED stream

FeedPublish(t) ==
    /\ t \in DOMAIN trades
    /\ stream' = Append(stream, EventOf(trades[t]))
    /\ UNCHANGED trades

FeedNext ==
    \/ \E t \in DOMAIN trades' : FeedInsert(trades'[t])
    \/ \E t \in DOMAIN trades : FeedPublish(t)

FeedSpec == FeedInit /\ [][FeedNext]_feedVars

=============================================================================
