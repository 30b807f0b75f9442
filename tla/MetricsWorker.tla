---------------------------- MODULE MetricsWorker ----------------------------
(***************************************************************************)
(* The analytics worker (cmd/worker, internal/pipeline): the single        *)
(* consumer worker-1 of group nevup-analytics on trades:events, and the    *)
(* tables it maintains.  Its environment is the feed of TradeFeed, plus    *)
(* the API's own ZADD to the overtrading set.                              *)
(*                                                                         *)
(* Entry i of the stream is named by its position.  XREADGROUP with ">"    *)
(* hands out consecutive entries, so the batch in hand is at..cursor:      *)
(* cursor is the group's last delivered entry, at the one being processed. *)
(* Every statement of processMessage is a step of its own, since rows,     *)
(* events, signals and crashes can come between any two of them.           *)
(***************************************************************************)
EXTENDS TradeFeed, FiniteSets, Functions

CONSTANTS
    Rows,                  \* rows the API may store
    BatchSize,             \* 10 in the code
    RatingWindow,          \* 10
    MaxTradesPerWindow,    \* 10
    SeedBuckets, SeedEmotions,   \* the metrics loaded by the seed migration
    DbMayFail, RedisMayFail,
    MaxStops,              \* bound: signals and crashes of the worker
    MaxEvents              \* bound: stream length

ASSUME WorkerAssumption ==
    /\ {BatchSize, RatingWindow, MaxTradesPerWindow} \subseteq Nat \ {0}
    /\ MaxStops \in Nat

VARIABLES
    tradesTs,      \* Redis: user -> (trade id -> score)
    cursor,        \* last delivered entry of the group
    pel,           \* delivered and not acknowledged
    ws,            \* the worker process: "up", "stopping" (signalled), "down"
    at,            \* entry being processed; cursor + 1 when there is none
    step,          \* next statement of processMessage
    scratch,       \* value read by one statement and used by the next
    buckets,       \* behavioral_metrics: <<user, hour>> -> counters
    emotions,      \* emotion_win_rates: <<user, emotion, date>> -> counters
    overtrading,   \* overtrading_events, in order of insertion
    stops

tableVars == <<buckets, emotions, overtrading>>
groupVars == <<cursor, pel>>
localVars == <<ws, at, step, scratch>>
vars == <<trades, stream, tradesTs, cursor, pel, ws, at, step, scratch,
          buckets, emotions, overtrading, stops>>

Traders == {row.userId : row \in Rows} \cup {SeedTrades[t].userId : t \in DOMAIN SeedTrades}
EmptyMap == [x \in {} |-> 0]

Init ==
    /\ FeedInit
    /\ tradesTs = [u \in Traders |-> EmptyMap]
    /\ cursor = 0 /\ pel = {}
    /\ ws = "up" /\ at = 1 /\ step = "count" /\ scratch = NULL
    /\ buckets = SeedBuckets /\ emotions = SeedEmotions /\ overtrading = <<>>
    /\ stops = 0

-----------------------------------------------------------------------------
(* The environment: the API server *)

InsertRow(row) ==
    /\ FeedInsert(row)
    /\ UNCHANGED <<tradesTs, groupVars, localVars, tableVars, stops>>

PublishRow(t) ==
    /\ Len(stream) < MaxEvents
    /\ FeedPublish(t)
    /\ UNCHANGED <<tradesTs, groupVars, localVars, tableVars, stops>>

\* ZADD NX keeps the score a member already has.
AddNX(set, t, score) == IF t \in DOMAIN set THEN set ELSE Extend(set, t, score)

\* The handler adds the exact entry time of a row.
AddWindow(t) ==
    LET u == trades[t].userId
    IN  /\ tradesTs' = [tradesTs EXCEPT ![u] = AddNX(@, t, trades[t].entryAt)]
        /\ UNCHANGED <<feedVars, groupVars, localVars, tableVars, stops>>

-----------------------------------------------------------------------------
(* The tables *)

BucketKey(e)  == <<e.userId, HourOf(e.entryAt)>>
EmotionKey(e) == <<e.userId, e.emotion, DateOf(e.entryAt)>>

\* The rows the table may hold, and what the schema says of them: instants and
\* amounts are numbers, a rating is one of 1 to 5, and neither key of the two
\* tables is NULL.
StoredRows == Rows \cup {SeedTrades[t] : t \in DOMAIN SeedTrades}

ASSUME RowAssumption ==
    /\ IsFiniteSet(DOMAIN SeedTrades)
    /\ \A t \in DOMAIN SeedTrades : SeedTrades[t].tradeId = t
    /\ \A row \in StoredRows :
          /\ row.entryAt \in Int
          /\ row.pnl \in Int \cup {NULL}
          /\ row.adherence \in 1..5 \cup {NULL}
          /\ NULL \notin {BucketKey(EventOf(row)), EmotionKey(EventOf(row))}

Coalesce(x, y) == IF x # NULL THEN x ELSE y

NoBucket == [trades |-> 0, wins |-> 0, losses |-> 0, pnl |-> 0, revenge |-> 0,
             adherence |-> NULL, tilt |-> NULL]

IsBucket(b) ==
    /\ DOMAIN b = DOMAIN NoBucket
    /\ {b.trades, b.wins, b.losses, b.revenge} \subseteq Nat
    /\ b.pnl \in Int

\* A ratio is kept as <<numerator, denominator>>: an average of ratings, and a
\* share of something.
IsAverage(x) == x[2] \in Nat \ {0} /\ x[1] \in x[2]..(5 * x[2])
IsShare(x)   == x[2] \in Nat \ {0} /\ x[1] \in 0..x[2]

ASSUME SeedAssumption ==
    /\ \A k \in DOMAIN SeedBuckets :
          LET b == SeedBuckets[k]
          IN  /\ IsBucket(b)
              /\ b.adherence # NULL => IsAverage(b.adherence)
              /\ b.tilt # NULL => IsShare(b.tilt)
    /\ \A k \in DOMAIN SeedEmotions : SeedEmotions[k] \in [wins : Nat, losses : Nat]

\* Mutant: the P&L is replaced instead of added.
MergeReplacesPnl(b, inc) ==
    [trades    |-> b.trades + inc.trades,
     wins      |-> b.wins + inc.wins,
     losses    |-> b.losses + inc.losses,
     pnl       |-> inc.pnl,
     revenge   |-> b.revenge + inc.revenge,
     adherence |-> Coalesce(inc.adherence, b.adherence),
     tilt      |-> Coalesce(inc.tilt, b.tilt)]

Merge(b, inc) ==
    [trades    |-> b.trades + inc.trades,
     wins      |-> b.wins + inc.wins,
     losses    |-> b.losses + inc.losses,
     pnl       |-> b.pnl + inc.pnl,
     revenge   |-> b.revenge + inc.revenge,
     adherence |-> Coalesce(inc.adherence, b.adherence),
     tilt      |-> Coalesce(inc.tilt, b.tilt)]

Bucket(k) == IF k \in DOMAIN buckets THEN buckets[k] ELSE NoBucket
Emotion(k) == IF k \in DOMAIN emotions THEN emotions[k] ELSE [wins |-> 0, losses |-> 0]

\* INSERT ... ON CONFLICT DO UPDATE: counters add up, averages are replaced.
UpsertBucket(k, inc) == Extend(buckets, k, Merge(Bucket(k), inc))

Won(e) == IF e.outcome = "win" THEN 1 ELSE 0

\* Mutant: every fearful or anxious trade counts as revenge.
CountOfByEmotion(e) ==
    [NoBucket EXCEPT !.trades = 1,
                     !.wins = Won(e),
                     !.losses = 1 - Won(e),
                     !.pnl = IF e.pnl # NULL THEN e.pnl ELSE 0,
                     !.revenge = IF e.emotion \in {"anxious", "fearful"} THEN 1 ELSE 0]

\* Whatever is not a win is a loss, a closed trade without an outcome too.
CountOf(e) ==
    [NoBucket EXCEPT !.trades = 1,
                     !.wins = Won(e),
                     !.losses = 1 - Won(e),
                     !.pnl = IF e.pnl # NULL THEN e.pnl ELSE 0,
                     !.revenge = IF e.revengeFlag THEN 1 ELSE 0]

UpsertEmotion(e) ==
    LET k == EmotionKey(e)
        old == Emotion(k)
    IN  Extend(emotions, k, [wins   |-> old.wins + Won(e),
                             losses |-> old.losses + 1 - Won(e)])

-----------------------------------------------------------------------------
(* What the worker reads from the trades table *)

Rated(u) == {t \in DOMAIN trades : /\ trades[t].userId = u
                                   /\ trades[t].status = "closed"
                                   /\ trades[t].adherence # NULL}

\* ORDER BY exit_at DESC puts rows without an exit time first; the database
\* may order equal ones as it likes.
ClosedLater(s, t) ==
    /\ trades[t].exitAt # NULL
    /\ trades[s].exitAt = NULL \/ trades[s].exitAt > trades[t].exitAt

\* The sets of rows the LIMIT may leave; RollingAvg would cut to as many again.
LastRated(u) ==
    {S \in SUBSET Rated(u) :
        /\ Cardinality(S) = IF Cardinality(Rated(u)) < RatingWindow
                            THEN Cardinality(Rated(u)) ELSE RatingWindow
        /\ \A t \in S, s \in Rated(u) \ S : ~ClosedLater(s, t)}

RollingAvg(S) == <<SumFunction([t \in S |-> trades[t].adherence]), Cardinality(S)>>

\* The orders ORDER BY entry_at may give the rows of a session.
SessionOrders(s) ==
    LET S == {t \in DOMAIN trades : trades[t].sessionId = s}
        n == Cardinality(S)
    IN  {f \in Bijection(1..n, S) :
            \A i, j \in 1..n : i < j => trades[f[i]].entryAt <= trades[f[j]].entryAt}

\* Mutant: a session without rows to follow divides by zero.
SessionTiltUnguarded(order) ==
    LET After(outcomes) ==
            Cardinality({i \in DOMAIN order : i > 1 /\ trades[order[i - 1]].outcome \in outcomes})
    IN  <<After({"loss"}), After(Outcomes)>>

\* LAG(outcome): rows after a loss, among the rows after a row with an outcome.
SessionTilt(order) ==
    LET After(outcomes) ==
            Cardinality({i \in DOMAIN order : i > 1 /\ trades[order[i - 1]].outcome \in outcomes})
        total == After(Outcomes)
    IN  IF total = 0 THEN <<0, 1>> ELSE <<After({"loss"}), total>>

-----------------------------------------------------------------------------
(* The loop of Run *)

Idle == ws = "up" /\ at > cursor

\* A cancelled context fails every call.
DbOk         == ws = "up"
DbFailure    == DbMayFail \/ ws = "stopping"
RedisOk      == ws = "up"
RedisFailure == RedisMayFail \/ ws = "stopping"

\* Mutant: the batch is taken to be full.
DeliverFullBatch ==
    /\ cursor < Len(stream)
    /\ cursor' = cursor + BatchSize
    /\ pel' = pel \cup (cursor + 1)..cursor'

\* Up to BatchSize new entries; none blocks for 5 s and changes nothing.
Deliver ==
    /\ cursor < Len(stream)
    /\ cursor' = IF cursor + BatchSize < Len(stream) THEN cursor + BatchSize ELSE Len(stream)
    /\ pel' = pel \cup (cursor + 1)..cursor'

ReadGroup ==
    /\ Idle
    /\ Deliver
    /\ UNCHANGED <<feedVars, tradesTs, localVars, tableVars, stops>>

\* The entries are delivered but the reply is lost, to a network error or to
\* a signal during the blocking read, when Run returns: the next read, with
\* ">", asks for later ones.
ReadLost ==
    /\ ws # "down" /\ at > cursor
    /\ RedisFailure
    /\ Deliver
    /\ at' = cursor' + 1
    /\ ws' = IF ws = "stopping" THEN "down" ELSE ws
    /\ UNCHANGED <<feedVars, tradesTs, step, scratch, tableVars, stops>>

\* SIGTERM cancels the context: every later call fails, up to the end of the
\* batch, where the loop looks at the context and returns.
Signal ==
    /\ ws = "up"
    /\ stops < MaxStops
    /\ stops' = stops + 1
    /\ ws' = "stopping"
    /\ UNCHANGED <<feedVars, tradesTs, groupVars, at, step, scratch, tableVars>>

Exit ==
    /\ ws = "stopping" /\ at > cursor
    /\ ws' = "down"
    /\ UNCHANGED <<feedVars, tradesTs, groupVars, at, step, scratch, tableVars, stops>>

Crash ==
    /\ ws # "down"
    /\ stops < MaxStops
    /\ stops' = stops + 1
    /\ ws' = "down"
    /\ at' = cursor + 1 /\ step' = "count" /\ scratch' = NULL
    /\ UNCHANGED <<feedVars, tradesTs, groupVars, tableVars>>

\* Mutant: pending entries are read again, and processed as new ones.
StartFromPending ==
    /\ ws = "down"
    /\ ws' = "up"
    /\ at' = IF pel = {} THEN at ELSE CHOOSE i \in pel : \A j \in pel : i <= j
    /\ UNCHANGED <<feedVars, tradesTs, groupVars, step, scratch, tableVars, stops>>

\* A new process: the group exists already, and pending entries are not read.
\* One whose CreateGroup fails ends again, which is to stay down.
Start ==
    /\ ws = "down"
    /\ ws' = "up"
    /\ UNCHANGED <<feedVars, tradesTs, groupVars, at, step, scratch, tableVars, stops>>

-----------------------------------------------------------------------------
(* processMessage.  Each statement succeeds or fails; a failure is logged  *)
(* and the next statement runs.  A statement whose effect is kept and      *)
(* whose reply is lost leaves the same state as a success.                 *)

Msg == stream[at]

At(s) == ws # "down" /\ at <= cursor /\ step = s

Goto(s) == step' = s /\ UNCHANGED <<groupVars, ws, at, stops>>

AfterCount == IF Msg.adherence # NULL THEN "adhRead" ELSE "tiltRead"
AfterTilt  == IF Msg.emotion # NULL THEN "emotion" ELSE "zadd"

\* Only closed trades are processed.
Ignore ==
    /\ At("count")
    /\ Msg.status # "closed"
    /\ Goto("ack")
    /\ UNCHANGED <<feedVars, tradesTs, scratch, tableVars>>

Count ==
    /\ At("count")
    /\ Msg.status = "closed"
    /\ Goto(AfterCount)
    /\ \/ DbOk /\ buckets' = UpsertBucket(BucketKey(Msg), CountOf(Msg))
       \/ DbFailure /\ UNCHANGED buckets
    /\ UNCHANGED <<feedVars, tradesTs, scratch, emotions, overtrading>>

ReadRatings ==
    /\ At("adhRead")
    /\ \/ /\ DbOk
          /\ \E S \in LastRated(Msg.userId) :
                IF S # {} THEN scratch' = RollingAvg(S) /\ Goto("adhWrite")
                          ELSE UNCHANGED scratch /\ Goto("tiltRead")
       \/ DbFailure /\ UNCHANGED scratch /\ Goto("tiltRead")
    /\ UNCHANGED <<feedVars, tradesTs, tableVars>>

\* Mutant: the second upsert carries the counters of the first.
WriteAdherenceRecounts ==
    /\ At("adhWrite")
    /\ scratch' = NULL
    /\ Goto("tiltRead")
    /\ \/ /\ DbOk
          /\ buckets' = UpsertBucket(BucketKey(Msg), [CountOf(Msg) EXCEPT !.adherence = scratch])
       \/ DbFailure /\ UNCHANGED buckets
    /\ UNCHANGED <<feedVars, tradesTs, emotions, overtrading>>

WriteAdherence ==
    /\ At("adhWrite")
    /\ scratch' = NULL
    /\ Goto("tiltRead")
    /\ \/ DbOk /\ buckets' = UpsertBucket(BucketKey(Msg), [NoBucket EXCEPT !.adherence = scratch])
       \/ DbFailure /\ UNCHANGED buckets
    /\ UNCHANGED <<feedVars, tradesTs, emotions, overtrading>>

ReadTilt ==
    /\ At("tiltRead")
    /\ \/ /\ DbOk
          /\ \E order \in SessionOrders(Msg.sessionId) : scratch' = SessionTilt(order)
          /\ Goto("tiltWrite")
       \/ DbFailure /\ UNCHANGED scratch /\ Goto(AfterTilt)
    /\ UNCHANGED <<feedVars, tradesTs, tableVars>>

WriteTilt ==
    /\ At("tiltWrite")
    /\ scratch' = NULL
    /\ Goto(AfterTilt)
    /\ \/ DbOk /\ buckets' = UpsertBucket(BucketKey(Msg), [NoBucket EXCEPT !.tilt = scratch])
       \/ DbFailure /\ UNCHANGED buckets
    /\ UNCHANGED <<feedVars, tradesTs, emotions, overtrading>>

CountEmotion ==
    /\ At("emotion")
    /\ Goto("zadd")
    /\ \/ DbOk /\ emotions' = UpsertEmotion(Msg)
       \/ DbFailure /\ UNCHANGED emotions
    /\ UNCHANGED <<feedVars, tradesTs, scratch, buckets, overtrading>>

\* The overtrading check: three commands of one pipeline, which other
\* clients' commands may separate.
WindowStart == Msg.entryAt - 1800 * TicksPerSecond

WindowAdd ==
    /\ At("zadd") /\ RedisOk
    /\ tradesTs' = [tradesTs EXCEPT ![Msg.userId] = AddNX(@, Msg.tradeId, Msg.entryAt)]
    /\ Goto("ztrim")
    /\ UNCHANGED <<feedVars, scratch, tableVars>>

WindowTrim ==
    LET set == tradesTs[Msg.userId]
        kept == {t \in DOMAIN set : set[t] < 0 \/ set[t] > WindowStart}
    IN  /\ At("ztrim") /\ RedisOk
        /\ tradesTs' = [tradesTs EXCEPT ![Msg.userId] = Restrict(set, kept)]
        /\ Goto("zcount")
        /\ UNCHANGED <<feedVars, scratch, tableVars>>

WindowCount ==
    LET set == tradesTs[Msg.userId]
        count == Cardinality({t \in DOMAIN set : set[t] >= WindowStart})
    IN  /\ At("zcount") /\ RedisOk
        /\ IF count > MaxTradesPerWindow
           THEN scratch' = count /\ Goto("report")
           ELSE UNCHANGED scratch /\ Goto("ack")
        /\ UNCHANGED <<feedVars, tradesTs, tableVars>>

\* The pipeline reports an error, after any number of its commands.
WindowFails ==
    /\ At("zadd") \/ At("ztrim") \/ At("zcount")
    /\ RedisFailure
    /\ Goto("ack")
    /\ UNCHANGED <<feedVars, tradesTs, scratch, tableVars>>

\* Mutant: the window is said to start at the trade.
ReportFromNow ==
    /\ At("report")
    /\ scratch' = NULL
    /\ Goto("ack")
    /\ overtrading' = Append(overtrading, [userId |-> Msg.userId,
                                          windowStart |-> Msg.entryAt, count |-> scratch])
    /\ UNCHANGED <<feedVars, tradesTs, buckets, emotions>>

ReportOvertrading ==
    LET event == [userId |-> Msg.userId, windowStart |-> WindowStart, count |-> scratch]
    IN  /\ At("report")
        /\ scratch' = NULL
        /\ Goto("ack")
        /\ \/ DbOk /\ overtrading' = Append(overtrading, event)
           \/ DbFailure /\ UNCHANGED overtrading
        /\ UNCHANGED <<feedVars, tradesTs, buckets, emotions>>

\* Mutant: an entry that cannot be acknowledged is processed again.
AckRetried ==
    /\ At("ack")
    /\ step' = "count"
    /\ \/ RedisOk /\ at' = at + 1 /\ pel' = pel \ {at}
       \/ RedisFailure /\ UNCHANGED <<at, pel>>
    /\ UNCHANGED <<feedVars, tradesTs, cursor, ws, scratch, tableVars, stops>>

\* XACK, whatever became of the statements before it.
Ack ==
    /\ At("ack")
    /\ at' = at + 1 /\ step' = "count"
    /\ \/ RedisOk /\ pel' = pel \ {at}
       \/ RedisFailure /\ UNCHANGED pel
    /\ UNCHANGED <<feedVars, tradesTs, cursor, ws, scratch, tableVars, stops>>

-----------------------------------------------------------------------------
ProcessMessage ==
    \/ Ignore \/ Count
    \/ ReadRatings \/ WriteAdherence
    \/ ReadTilt \/ WriteTilt
    \/ CountEmotion
    \/ WindowAdd \/ WindowTrim \/ WindowCount \/ WindowFails
    \/ ReportOvertrading
    \/ Ack

Run == ReadGroup \/ ProcessMessage \/ Exit

Api ==
    \/ \E row \in Rows : InsertRow(row)
    \/ \E t \in DOMAIN trades : PublishRow(t) \/ AddWindow(t)

Work ==
    \/ Run \/ ReadLost
    \/ Signal \/ Crash \/ Start

Next == Api \/ Work

Spec == Init /\ [][Next]_vars

\* The loop of a running worker goes on: every call returns.  Nothing makes a
\* stopped worker start again.
FairSpec == Spec /\ WF_vars(Run)

\* The same, with an operator who starts a stopped worker again.
RestartSpec == FairSpec /\ WF_vars(Start)

-----------------------------------------------------------------------------
(* Properties *)

Steps == {"count", "adhRead", "adhWrite", "tiltRead", "tiltWrite", "emotion",
          "zadd", "ztrim", "zcount", "report", "ack"}

\* Shapes of the group's, the worker's and the tables' state (worker.go).
TypeOK ==
    /\ DOMAIN tradesTs = Traders
    /\ \A u \in Traders : DOMAIN tradesTs[u] \subseteq DOMAIN trades
    /\ cursor \in 0..Len(stream) /\ pel \subseteq 1..cursor
    /\ ws \in {"up", "stopping", "down"}
    /\ at \in 1..(cursor + 1) /\ step \in Steps
    /\ at > cursor \/ ws = "down" => step = "count"
    /\ \A k \in DOMAIN buckets : IsBucket(buckets[k])
    /\ \A k \in DOMAIN emotions : emotions[k] \in [wins : Nat, losses : Nat]
    /\ overtrading \in Seq([userId : Traders, windowStart : Int, count : Nat])
    /\ stops \in 0..MaxStops

\* Of the entries in I, those whose statements fall on a bucket, or on a row
\* of emotion_win_rates.
Hits(k, I) == {i \in I : stream[i].status = "closed" /\ BucketKey(stream[i]) = k}
Felt(I) == {i \in I : stream[i].status = "closed" /\ stream[i].emotion # NULL}
EmotionHits(k, I) == {i \in Felt(I) : EmotionKey(stream[i]) = k}

SeedCount(k) == IF k \in DOMAIN SeedBuckets THEN SeedBuckets[k].trades ELSE 0
SeedEmotionCount(k) ==
    IF k \in DOMAIN SeedEmotions THEN SeedEmotions[k].wins + SeedEmotions[k].losses ELSE 0

\* Across crashes, restarts, lost replies and failed acknowledgements, no
\* entry is counted twice: a bucket holds at most the seed's trades and one
\* for every delivered entry that falls on it; so do the emotion counters
\* (UpsertBucket and UpsertEmotionWinRate add, so a second delivery would show).
NoDoubleCount ==
    /\ \A k \in DOMAIN buckets :
          buckets[k].trades <= SeedCount(k) + Cardinality(Hits(k, 1..cursor))
    /\ \A k \in DOMAIN emotions :
          emotions[k].wins + emotions[k].losses
              <= SeedEmotionCount(k) + Cardinality(EmotionHits(k, 1..cursor))

\* With no failure and no stop, an idle worker has every delivered entry in
\* every counter, and nothing else (steps 1 and 4 of processMessage).
NoFailure == ~DbMayFail /\ ~RedisMayFail /\ stops = 0

SeedBucket(k) == IF k \in DOMAIN SeedBuckets THEN SeedBuckets[k] ELSE NoBucket

Profit(I) == SumFunction([i \in {j \in I : stream[j].pnl # NULL} |-> stream[i].pnl])

\* Every counter of a key holds the seed and the first n entries.
BucketExact(k, n) ==
    LET hits == Hits(k, 1..n)
        wins == {i \in hits : stream[i].outcome = "win"}
    IN  /\ Bucket(k).trades = SeedBucket(k).trades + Cardinality(hits)
        /\ Bucket(k).wins = SeedBucket(k).wins + Cardinality(wins)
        /\ Bucket(k).losses = SeedBucket(k).losses + Cardinality(hits \ wins)
        /\ Bucket(k).revenge =
              SeedBucket(k).revenge + Cardinality({i \in hits : stream[i].revengeFlag})
        /\ Bucket(k).pnl = SeedBucket(k).pnl + Profit(hits)

EmotionExact(k, n) ==
    Emotion(k).wins + Emotion(k).losses =
        SeedEmotionCount(k) + Cardinality(EmotionHits(k, 1..n))

BucketKeys  == DOMAIN buckets \cup {BucketKey(stream[i]) : i \in DOMAIN stream}
EmotionKeys == DOMAIN emotions \cup {EmotionKey(stream[i]) : i \in DOMAIN stream}

CountsExact ==
    NoFailure /\ Idle =>
        /\ \A k \in BucketKeys : BucketExact(k, cursor)
        /\ \A k \in EmotionKeys : EmotionExact(k, cursor)

\* A stored average is one of ratings of 1 to 5, never of none, and of at most
\* RatingWindow of them once the worker has replaced the seed's; a stored tilt
\* is a ratio between 0 and 1; though rows arrive between the read and the
\* write (RollingAvg, SessionTiltIndex, the LAG query).
RatiosInRange ==
    \A k \in DOMAIN buckets :
        LET b == buckets[k]
        IN  /\ b.adherence # NULL =>
                  /\ IsAverage(b.adherence)
                  /\ b.adherence[2] <= RatingWindow \/ b.adherence = SeedBucket(k).adherence
            /\ b.tilt # NULL => IsShare(b.tilt)

StoredSince(u, start) ==
    {t \in DOMAIN trades : trades[t].userId = u /\ trades[t].entryAt >= start}

\* An overtrading event is backed by the table: at least as many trades of
\* that user as it reports are stored with an entry time in the window or
\* after it, whatever mix of exact and whole-second scores the set holds.
OvertradingBacked ==
    \A i \in DOMAIN overtrading :
        overtrading[i].count <=
            Cardinality(StoredSince(overtrading[i].userId, overtrading[i].windowStart))

\* Entry i is not held up by the ones before it, whatever fails, as long as the
\* worker lives: it gets past the entry, though not always with success.
QueueMovesOn ==
    \A i \in 1..MaxEvents : i <= Len(stream) ~> at > i \/ ws # "up"

\* The key each entry falls under in either table, the entries either is done
\* with, and the counts.
BucketLog ==
    [i \in DOMAIN stream |->
        IF stream[i].status = "closed" THEN BucketKey(stream[i]) ELSE NULL]
EmotionLog ==
    [i \in DOMAIN stream |->
        IF stream[i].status = "closed" /\ stream[i].emotion # NULL
        THEN EmotionKey(stream[i]) ELSE NULL]

BucketFront  == IF step = "count" THEN at - 1 ELSE at
EmotionFront == IF step \in {"zadd", "ztrim", "zcount", "report", "ack"} THEN at ELSE at - 1

TradeCounts(table)   == [k \in DOMAIN table |-> table[k].trades]
EmotionCounts(table) == [k \in DOMAIN table |-> table[k].wins + table[k].losses]

\* The counters of either table are a ledger of the stream: entries are gone
\* through in order and each is counted once or never, whatever is lost,
\* signalled, crashed or started again in between.
BucketLedger ==
    INSTANCE WorkLedger WITH SeedCounts <- TradeCounts(SeedBuckets),
        log <- BucketLog, front <- BucketFront, counts <- TradeCounts(buckets)

EmotionLedger ==
    INSTANCE WorkLedger WITH SeedCounts <- EmotionCounts(SeedEmotions),
        log <- EmotionLog, front <- EmotionFront, counts <- EmotionCounts(emotions)

\* Each table of counters implements the ledger (Run, processMessage,
\* UpsertBucket, UpsertEmotionWinRate).
CountedInOrder == BucketLedger!Spec /\ EmotionLedger!Spec

-----------------------------------------------------------------------------
(* The inductive invariant *)

\* Rows are stored under their own id, and every entry describes a stored row.
RowsStored ==
    /\ IsFiniteSet(DOMAIN trades)
    /\ \A t \in DOMAIN trades : trades[t] \in StoredRows /\ trades[t].tradeId = t
    /\ stream \in Seq({EventOf(trades[t]) : t \in DOMAIN trades})

\* Past its first statement an entry is a closed trade; one with an emotion
\* where it is counted by emotion.
ClosedOnly ==
    /\ step \notin {"count", "ack"} => Msg.status = "closed"
    /\ step = "emotion" => Msg.emotion # NULL

\* A counter holds no more than the seed and the entries done with.
CountsBacked ==
    /\ \A k \in DOMAIN buckets :
          buckets[k].trades <= SeedCount(k) + Cardinality(Hits(k, 1..BucketFront))
    /\ \A k \in DOMAIN emotions :
          emotions[k].wins + emotions[k].losses
              <= SeedEmotionCount(k) + Cardinality(EmotionHits(k, 1..EmotionFront))

\* A member of a window set is a stored trade of its user, with its exact entry
\* time or one cut down; a count about to be reported is backed by the table.
WindowsBacked ==
    /\ \A u \in Traders : \A t \in DOMAIN tradesTs[u] :
          /\ t \in DOMAIN trades /\ trades[t].userId = u
          /\ tradesTs[u][t] \in Int /\ tradesTs[u][t] <= trades[t].entryAt
    /\ step = "report" =>
          scratch \in Nat /\ scratch <= Cardinality(StoredSince(Msg.userId, WindowStart))

\* A ratio just read is in range, so it may be written later.
RatiosRead ==
    /\ step = "adhWrite" => IsAverage(scratch) /\ scratch[2] <= RatingWindow
    /\ step = "tiltWrite" => IsShare(scratch)

\* As long as nothing fails, the counters hold what is done with, and no less.
CountsUpToDate ==
    /\ DOMAIN SeedBuckets \subseteq DOMAIN buckets
    /\ DOMAIN SeedEmotions \subseteq DOMAIN emotions
    /\ NoFailure =>
          /\ ws = "up"
          /\ \A k \in BucketKeys : BucketExact(k, BucketFront)
          /\ \A k \in EmotionKeys : EmotionExact(k, EmotionFront)

\* A revenge count beyond the seed's has a flagged entry behind it.
RevengeBacked ==
    \A k \in DOMAIN buckets :
        buckets[k].revenge > SeedBucket(k).revenge =>
            \E i \in Hits(k, DOMAIN stream) : stream[i].revengeFlag

\* What every step of the worker and of the API keeps, across failures, crashes
\* and restarts: MetricsWorkerProofs shows it for all constants.
WorkerInv ==
    /\ TypeOK
    /\ RowsStored /\ ClosedOnly /\ CountsBacked /\ WindowsBacked
    /\ OvertradingBacked
    /\ RatiosInRange /\ RatiosRead
    /\ CountsUpToDate
    /\ RevengeBacked

-----------------------------------------------------------------------------
(* What the documents promise and the code does not keep *)

\* "At-least-once delivery via consumer groups + XACK": every entry is delivered
\* and acknowledged in the end, though the worker crashes, when somebody starts
\* it again (ReadGroup asks for new entries only).
Acked(i) == i <= cursor /\ i \notin pel
EveryEntryAcked == \A i \in 1..MaxEvents : i <= Len(stream) ~> Acked(i)

=============================================================================
