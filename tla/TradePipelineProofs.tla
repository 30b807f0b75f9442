------------------------- MODULE TradePipelineProofs -------------------------
(***************************************************************************)
(* Theorems about TradePipeline: the API server is the environment the     *)
(* worker was specified against, what either program promises by itself    *)
(* holds of the two together, and what binds the counters to the requests, *)
(* for all requests, bodies, users and seeds, with or without failures and *)
(* stops.                                                                  *)
(*                                                                         *)
(* The proofs are put together from those of the two components:           *)
(* IngestProofs and WorkerProofs are their theorems, read with the         *)
(* pipeline's constants and variables, and what either module assumes of   *)
(* its constants is proved here from the assumptions of TradePipeline.     *)
(***************************************************************************)
EXTENDS TradePipeline, FiniteSetTheorems, SequenceTheorems, TLAPS

IngestProofs == INSTANCE TradeIngestProofs

WorkerProofs == INSTANCE MetricsWorkerProofs WITH
                    Rows <- Ingest!Rows,
                    MaxEvents <- MaxEvents + Cardinality(Reqs)

-----------------------------------------------------------------------------
(* The components and their proofs speak of the same things *)

LEMMA SameIngest ==
    /\ Ingest!Init <=> IngestProofs!Init
    /\ Ingest!vars = IngestProofs!vars
    /\ Ingest!Next <=> IngestProofs!Next
    /\ Ingest!IngestInv <=> IngestProofs!IngestInv
    <1>1. /\ Ingest!Init <=> IngestProofs!Init
          /\ Ingest!vars = IngestProofs!vars
          /\ Ingest!Next <=> IngestProofs!Next
      BY DEF Ingest!Statuses, IngestProofs!Statuses, Ingest!Directions, IngestProofs!Directions,
             Ingest!Emotions, IngestProofs!Emotions, Ingest!Unix, IngestProofs!Unix,
             Ingest!FromUnix, IngestProofs!FromUnix, Ingest!ToRFC3339, IngestProofs!ToRFC3339,
             Ingest!RevengeWindow, IngestProofs!RevengeWindow, Ingest!Validate,
             IngestProofs!Validate, Ingest!PnL, IngestProofs!PnL, Ingest!Outcome,
             IngestProofs!Outcome, Ingest!IsRevenge, IngestProofs!IsRevenge, Ingest!BuildTrade,
             IngestProofs!BuildTrade, Ingest!IsLosingClose, IngestProofs!IsLosingClose,
             Ingest!EventOf, IngestProofs!EventOf, Ingest!feedVars, IngestProofs!feedVars,
             Ingest!Extend, IngestProofs!Extend, Ingest!FeedInit, IngestProofs!FeedInit,
             Ingest!FeedInsert, IngestProofs!FeedInsert, Ingest!FeedPublish,
             IngestProofs!FeedPublish, Ingest!redisVars, IngestProofs!redisVars,
             Ingest!answerVars, IngestProofs!answerVars, Ingest!vars, IngestProofs!vars,
             Ingest!TradeIds, IngestProofs!TradeIds, Ingest!Accepted, IngestProofs!Accepted,
             Ingest!Orphan, IngestProofs!Orphan, Ingest!Insertable, IngestProofs!Insertable,
             Ingest!InFlight, IngestProofs!InFlight, Ingest!EmptyMap, IngestProofs!EmptyMap,
             Ingest!Init, IngestProofs!Init, Ingest!DbFailure, IngestProofs!DbFailure,
             Ingest!RedisFailure, IngestProofs!RedisFailure, Ingest!Fail, IngestProofs!Fail,
             Ingest!RejectInvalid, IngestProofs!RejectInvalid, Ingest!RejectForeign,
             IngestProofs!RejectForeign, Ingest!Accept, IngestProofs!Accept, Ingest!Receive,
             IngestProofs!Receive, Ingest!FlagFor, IngestProofs!FlagFor, Ingest!CheckRevenge,
             IngestProofs!CheckRevenge, Ingest!EffectsOf, IngestProofs!EffectsOf,
             Ingest!Proceed, IngestProofs!Proceed, Ingest!InsertTrade, IngestProofs!InsertTrade,
             Ingest!InsertConflict, IngestProofs!InsertConflict, Ingest!InsertFails,
             IngestProofs!InsertFails, Ingest!InsertReplyLost, IngestProofs!InsertReplyLost,
             Ingest!SelectTrade, IngestProofs!SelectTrade, Ingest!Respond, IngestProofs!Respond,
             Ingest!Get, IngestProofs!Get, Ingest!Over, IngestProofs!Over, Ingest!SetLastLoss,
             IngestProofs!SetLastLoss, Ingest!Publish, IngestProofs!Publish,
             Ingest!PublishRetried, IngestProofs!PublishRetried, Ingest!AddWindow,
             IngestProofs!AddWindow, Ingest!DropEffect, IngestProofs!DropEffect,
             Ingest!Disconnect, IngestProofs!Disconnect, Ingest!ExpireLastLoss,
             IngestProofs!ExpireLastLoss, Ingest!StopServer, IngestProofs!StopServer,
             Ingest!Handler, IngestProofs!Handler, Ingest!Background, IngestProofs!Background,
             Ingest!Next, IngestProofs!Next
    <1>2. Ingest!IngestInv <=> IngestProofs!IngestInv
      BY DEF Ingest!Unix, IngestProofs!Unix, Ingest!FromUnix, IngestProofs!FromUnix,
             Ingest!ToRFC3339, IngestProofs!ToRFC3339, Ingest!EventOf, IngestProofs!EventOf,
             Ingest!Validate, IngestProofs!Validate, Ingest!RevengeWindow,
             IngestProofs!RevengeWindow, Ingest!Directions, IngestProofs!Directions,
             Ingest!Statuses, IngestProofs!Statuses, Ingest!Emotions, IngestProofs!Emotions,
             Ingest!PnL, IngestProofs!PnL, Ingest!Outcome, IngestProofs!Outcome,
             Ingest!BuildTrade, IngestProofs!BuildTrade, Ingest!IsLosingClose,
             IngestProofs!IsLosingClose, Ingest!TradeIds, IngestProofs!TradeIds,
             Ingest!Accepted, IngestProofs!Accepted, Ingest!Orphan, IngestProofs!Orphan,
             Ingest!Insertable, IngestProofs!Insertable, Ingest!Rows, IngestProofs!Rows,
             Ingest!InFlight, IngestProofs!InFlight, Ingest!TypeOK, IngestProofs!TypeOK,
             Ingest!Justifies, IngestProofs!Justifies, Ingest!RevengeJustified,
             IngestProofs!RevengeJustified, Ingest!InputPosted, IngestProofs!InputPosted,
             Ingest!NothingYet, IngestProofs!NothingYet, Ingest!ResultStored,
             IngestProofs!ResultStored, Ingest!LossPending, IngestProofs!LossPending,
             Ingest!LossBacked, IngestProofs!LossBacked, Ingest!FlagJustified,
             IngestProofs!FlagJustified, Ingest!IngestInv, IngestProofs!IngestInv
    <1> QED BY <1>1, <1>2

LEMMA SameWorker ==
    /\ Worker!Init <=> WorkerProofs!Init
    /\ Worker!vars = WorkerProofs!vars
    /\ Worker!Next <=> WorkerProofs!Next
    /\ Worker!WorkerInv <=> WorkerProofs!WorkerInv
    /\ Worker!NoDoubleCount <=> WorkerProofs!NoDoubleCount
    /\ Worker!CountsExact <=> WorkerProofs!CountsExact
    BY DEF Worker!Outcomes, WorkerProofs!Outcomes, Worker!Unix, WorkerProofs!Unix,
           Worker!FromUnix, WorkerProofs!FromUnix, Worker!ToRFC3339, WorkerProofs!ToRFC3339,
           Worker!HourOf, WorkerProofs!HourOf, Worker!DateOf, WorkerProofs!DateOf,
           Worker!EventOf, WorkerProofs!EventOf, Worker!feedVars, WorkerProofs!feedVars,
           Worker!Extend, WorkerProofs!Extend, Worker!FeedInit, WorkerProofs!FeedInit,
           Worker!FeedInsert, WorkerProofs!FeedInsert, Worker!FeedPublish,
           WorkerProofs!FeedPublish, Worker!tableVars, WorkerProofs!tableVars, Worker!groupVars,
           WorkerProofs!groupVars, Worker!localVars, WorkerProofs!localVars, Worker!vars,
           WorkerProofs!vars, Worker!Traders, WorkerProofs!Traders, Worker!EmptyMap,
           WorkerProofs!EmptyMap, Worker!Init, WorkerProofs!Init, Worker!InsertRow,
           WorkerProofs!InsertRow, Worker!PublishRow, WorkerProofs!PublishRow, Worker!AddNX,
           WorkerProofs!AddNX, Worker!AddWindow, WorkerProofs!AddWindow, Worker!BucketKey,
           WorkerProofs!BucketKey, Worker!EmotionKey, WorkerProofs!EmotionKey,
           Worker!StoredRows, WorkerProofs!StoredRows, Worker!Coalesce, WorkerProofs!Coalesce,
           Worker!NoBucket, WorkerProofs!NoBucket, Worker!IsBucket, WorkerProofs!IsBucket,
           Worker!IsAverage, WorkerProofs!IsAverage, Worker!IsShare, WorkerProofs!IsShare,
           Worker!Merge, WorkerProofs!Merge, Worker!Bucket, WorkerProofs!Bucket, Worker!Emotion,
           WorkerProofs!Emotion, Worker!UpsertBucket, WorkerProofs!UpsertBucket, Worker!Won,
           WorkerProofs!Won, Worker!CountOf, WorkerProofs!CountOf, Worker!UpsertEmotion,
           WorkerProofs!UpsertEmotion, Worker!Rated, WorkerProofs!Rated, Worker!ClosedLater,
           WorkerProofs!ClosedLater, Worker!LastRated, WorkerProofs!LastRated,
           Worker!RollingAvg, WorkerProofs!RollingAvg, Worker!SessionOrders,
           WorkerProofs!SessionOrders, Worker!SessionTilt, WorkerProofs!SessionTilt,
           Worker!Idle, WorkerProofs!Idle, Worker!DbOk, WorkerProofs!DbOk, Worker!DbFailure,
           WorkerProofs!DbFailure, Worker!RedisOk, WorkerProofs!RedisOk, Worker!RedisFailure,
           WorkerProofs!RedisFailure, Worker!Deliver, WorkerProofs!Deliver, Worker!ReadGroup,
           WorkerProofs!ReadGroup, Worker!ReadLost, WorkerProofs!ReadLost, Worker!Signal,
           WorkerProofs!Signal, Worker!Exit, WorkerProofs!Exit, Worker!Crash,
           WorkerProofs!Crash, Worker!Start, WorkerProofs!Start, Worker!Msg, WorkerProofs!Msg,
           Worker!At, WorkerProofs!At, Worker!Goto, WorkerProofs!Goto, Worker!AfterCount,
           WorkerProofs!AfterCount, Worker!AfterTilt, WorkerProofs!AfterTilt, Worker!Ignore,
           WorkerProofs!Ignore, Worker!Count, WorkerProofs!Count, Worker!ReadRatings,
           WorkerProofs!ReadRatings, Worker!WriteAdherence, WorkerProofs!WriteAdherence,
           Worker!ReadTilt, WorkerProofs!ReadTilt, Worker!WriteTilt, WorkerProofs!WriteTilt,
           Worker!CountEmotion, WorkerProofs!CountEmotion, Worker!WindowStart,
           WorkerProofs!WindowStart, Worker!WindowAdd, WorkerProofs!WindowAdd,
           Worker!WindowTrim, WorkerProofs!WindowTrim, Worker!WindowCount,
           WorkerProofs!WindowCount, Worker!WindowFails, WorkerProofs!WindowFails,
           Worker!ReportOvertrading, WorkerProofs!ReportOvertrading, Worker!Ack,
           WorkerProofs!Ack, Worker!ProcessMessage, WorkerProofs!ProcessMessage, Worker!Run,
           WorkerProofs!Run, Worker!Api, WorkerProofs!Api, Worker!Work, WorkerProofs!Work,
           Worker!Next, WorkerProofs!Next, Worker!Steps, WorkerProofs!Steps, Worker!TypeOK,
           WorkerProofs!TypeOK, Worker!Hits, WorkerProofs!Hits, Worker!Felt, WorkerProofs!Felt,
           Worker!EmotionHits, WorkerProofs!EmotionHits, Worker!SeedCount,
           WorkerProofs!SeedCount, Worker!SeedEmotionCount, WorkerProofs!SeedEmotionCount,
           Worker!NoDoubleCount, WorkerProofs!NoDoubleCount, Worker!NoFailure,
           WorkerProofs!NoFailure, Worker!SeedBucket, WorkerProofs!SeedBucket, Worker!Profit,
           WorkerProofs!Profit, Worker!BucketExact, WorkerProofs!BucketExact,
           Worker!EmotionExact, WorkerProofs!EmotionExact, Worker!BucketKeys,
           WorkerProofs!BucketKeys, Worker!EmotionKeys, WorkerProofs!EmotionKeys,
           Worker!CountsExact, WorkerProofs!CountsExact, Worker!RatiosInRange,
           WorkerProofs!RatiosInRange, Worker!StoredSince, WorkerProofs!StoredSince,
           Worker!OvertradingBacked, WorkerProofs!OvertradingBacked, Worker!BucketFront,
           WorkerProofs!BucketFront, Worker!EmotionFront, WorkerProofs!EmotionFront,
           Worker!RowsStored, WorkerProofs!RowsStored, Worker!ClosedOnly,
           WorkerProofs!ClosedOnly, Worker!CountsBacked, WorkerProofs!CountsBacked,
           Worker!WindowsBacked, WorkerProofs!WindowsBacked, Worker!RatiosRead,
           WorkerProofs!RatiosRead, Worker!CountsUpToDate, WorkerProofs!CountsUpToDate,
           Worker!RevengeBacked, WorkerProofs!RevengeBacked, Worker!WorkerInv,
           WorkerProofs!WorkerInv, Worker!Cardinality, WorkerProofs!Cardinality,
           Worker!IsFiniteSet, WorkerProofs!IsFiniteSet, Worker!Bijection,
           WorkerProofs!Bijection, Worker!Injection, WorkerProofs!Injection, Worker!Surjection,
           WorkerProofs!Surjection, Worker!IsInjective, WorkerProofs!IsInjective,
           Worker!Restrict, WorkerProofs!Restrict, Worker!SumFunction, WorkerProofs!SumFunction,
           Worker!SumFunctionOnSet, WorkerProofs!SumFunctionOnSet, Worker!FoldFunctionOnSet,
           WorkerProofs!FoldFunctionOnSet, Worker!MapThenFoldSet, WorkerProofs!MapThenFoldSet

LEMMA SameAfter ==
    /\ Ingest!vars' = IngestProofs!vars'
    /\ Ingest!IngestInv' <=> IngestProofs!IngestInv'
    /\ Worker!vars' = WorkerProofs!vars'
    /\ Worker!WorkerInv' <=> WorkerProofs!WorkerInv'
    <1>1. (Ingest!vars = IngestProofs!vars)' /\ (Ingest!IngestInv <=> IngestProofs!IngestInv)'
      BY SameIngest, PTL
    <1>2. (Worker!vars = WorkerProofs!vars)' /\ (Worker!WorkerInv <=> WorkerProofs!WorkerInv)'
      BY SameWorker, PTL
    <1> QED BY <1>1, <1>2

\* The library's operators, and those of TradeDomain and TradeFeed.
LEMMA SameSets ==
    \A S : /\ Worker!Cardinality(S) = Cardinality(S) /\ WorkerProofs!Cardinality(S) = Cardinality(S)
           /\ Worker!IsFiniteSet(S) = IsFiniteSet(S) /\ WorkerProofs!IsFiniteSet(S) = IsFiniteSet(S)
    BY DEF Cardinality, Worker!Cardinality, WorkerProofs!Cardinality,
           IsFiniteSet, Worker!IsFiniteSet, WorkerProofs!IsFiniteSet

LEMMA SameEvents ==
    \A row : /\ Ingest!EventOf(row) = EventOf(row)
             /\ Worker!EventOf(row) = EventOf(row)
             /\ WorkerProofs!EventOf(row) = EventOf(row)
    BY DEF EventOf, ToRFC3339, FromUnix, Unix,
           Ingest!EventOf, Ingest!ToRFC3339, Ingest!FromUnix, Ingest!Unix,
           Worker!EventOf, Worker!ToRFC3339, Worker!FromUnix, Worker!Unix,
           WorkerProofs!EventOf, WorkerProofs!ToRFC3339, WorkerProofs!FromUnix, WorkerProofs!Unix

LEMMA SameMaps ==
    \A f, k, v : Ingest!Extend(f, k, v) = Worker!Extend(f, k, v)
    BY DEF Ingest!Extend, Worker!Extend

-----------------------------------------------------------------------------
(* What the components assume *)

\* A row has a known user, an instant, and amounts and a rating that are numbers.
LEMMA RowFields ==
    ASSUME NEW row \in Ingest!Rows
    PROVE  /\ row.userId \in Users
           /\ row.entryAt \in Int
           /\ row.pnl \in Int \cup {NULL}
           /\ row.adherence \in 1..5 \cup {NULL}
    <1>1. ASSUME NEW p \in Ingest!Accepted, NEW f \in BOOLEAN, row = Ingest!BuildTrade(p, f)
          PROVE  /\ row.userId \in Users
                 /\ row.entryAt \in Int
                 /\ row.pnl \in Int \cup {NULL}
                 /\ row.adherence \in 1..5 \cup {NULL}
      <2>1. p \in Payloads /\ p.adherence \in 1..5 \cup {NULL}
        BY DEF Ingest!Accepted, Ingest!Validate
      <2>2. /\ p.userId \in Users /\ p.entryAt \in Int /\ p.entryPrice \in Int
            /\ p.quantity \in Int /\ (p.exitPrice # NULL => p.exitPrice \in Int)
        BY <2>1, BodiesAssumption
      <2>3. p.exitPrice # NULL => Ingest!PnL(p) \in Int
        BY <2>2 DEF Ingest!PnL
      <2>4. /\ row.userId = p.userId /\ row.entryAt = p.entryAt
            /\ row.adherence = p.adherence
            /\ row.pnl = NULL \/ (p.exitPrice # NULL /\ row.pnl = Ingest!PnL(p))
        BY <1>1 DEF Ingest!BuildTrade
      <2> QED BY <2>1, <2>2, <2>3, <2>4
    <1>2. CASE \E t \in DOMAIN SeedTrades : row = SeedTrades[t]
      BY <1>2, SeedRowsAssumption
    <1> QED BY <1>1, <1>2 DEF Ingest!Rows

LEMMA IngestAssumptions ==
    /\ TicksPerSecond \in Nat \ {0}
    /\ \A p \in Payloads : /\ p.userId \in Users
                           /\ p.entryAt \in Int
                           /\ p.exitAt = NULL \/ p.exitAt \in Int
    /\ \A t \in DOMAIN SeedTrades :
          /\ SeedTrades[t].tradeId = t
          /\ SeedTrades[t].userId \in Users
          /\ SeedTrades[t].entryAt \in Int
          /\ SeedTrades[t].exitAt = NULL \/ SeedTrades[t].exitAt \in Int
    /\ MaxCrashes \in Nat
    <1>1. ASSUME NEW p \in Payloads
          PROVE  p.userId \in Users /\ p.entryAt \in Int /\ (p.exitAt = NULL \/ p.exitAt \in Int)
      BY BodiesAssumption
    <1>2. ASSUME NEW t \in DOMAIN SeedTrades
          PROVE  /\ SeedTrades[t].tradeId = t
                 /\ SeedTrades[t].userId \in Users
                 /\ SeedTrades[t].entryAt \in Int
                 /\ SeedTrades[t].exitAt = NULL \/ SeedTrades[t].exitAt \in Int
      BY SeedRowsAssumption
    <1> QED BY <1>1, <1>2, TicksAssumption, BoundsAssumption

LEMMA WorkerAssumptions ==
    /\ TicksPerSecond \in Nat \ {0}
    /\ {BatchSize, RatingWindow, MaxTradesPerWindow} \subseteq Nat \ {0}
    /\ MaxStops \in Nat
    /\ WorkerProofs!IsFiniteSet(DOMAIN SeedTrades)
    /\ \A t \in DOMAIN SeedTrades : SeedTrades[t].tradeId = t
    /\ \A row \in WorkerProofs!StoredRows :
          /\ row.entryAt \in Int
          /\ row.pnl \in Int \cup {NULL}
          /\ row.adherence \in 1..5 \cup {NULL}
          /\ NULL \notin {WorkerProofs!BucketKey(WorkerProofs!EventOf(row)),
                          WorkerProofs!EmotionKey(WorkerProofs!EventOf(row))}
    /\ \A k \in DOMAIN SeedBuckets :
          LET b == SeedBuckets[k]
          IN  /\ WorkerProofs!IsBucket(b)
              /\ b.adherence # NULL => WorkerProofs!IsAverage(b.adherence)
              /\ b.tilt # NULL => WorkerProofs!IsShare(b.tilt)
    /\ \A k \in DOMAIN SeedEmotions : SeedEmotions[k] \in [wins : Nat, losses : Nat]
    <1>1. WorkerProofs!StoredRows = Ingest!Rows
      BY DEF WorkerProofs!StoredRows, Ingest!Rows
    <1>2. ASSUME NEW row \in Ingest!Rows
          PROVE  NULL \notin {WorkerProofs!BucketKey(WorkerProofs!EventOf(row)),
                              WorkerProofs!EmotionKey(WorkerProofs!EventOf(row))}
      <2>1. /\ WorkerProofs!BucketKey(EventOf(row)) = Worker!BucketKey(EventOf(row))
            /\ WorkerProofs!EmotionKey(EventOf(row)) = Worker!EmotionKey(EventOf(row))
        BY DEF Worker!BucketKey, Worker!EmotionKey, Worker!HourOf, Worker!DateOf,
               WorkerProofs!BucketKey, WorkerProofs!EmotionKey,
               WorkerProofs!HourOf, WorkerProofs!DateOf
      <2> QED BY <2>1, SameEvents, NullAssumption
    <1>3. \A x : /\ WorkerProofs!IsBucket(x) <=> Worker!IsBucket(x)
                 /\ WorkerProofs!IsAverage(x) <=> Worker!IsAverage(x)
                 /\ WorkerProofs!IsShare(x) <=> Worker!IsShare(x)
      BY DEF Worker!IsBucket, Worker!IsAverage, Worker!IsShare, Worker!NoBucket,
             WorkerProofs!IsBucket, WorkerProofs!IsAverage, WorkerProofs!IsShare,
             WorkerProofs!NoBucket
    <1>4. WorkerProofs!IsFiniteSet(DOMAIN SeedTrades)
      BY SameSets, SeedRowsAssumption
    <1>5. \A t \in DOMAIN SeedTrades : SeedTrades[t].tradeId = t
      BY SeedRowsAssumption
    <1>6. /\ {BatchSize, RatingWindow, MaxTradesPerWindow} \subseteq Nat \ {0}
          /\ MaxStops \in Nat
      BY BoundsAssumption
    <1>7. \A row \in WorkerProofs!StoredRows :
             /\ row.entryAt \in Int
             /\ row.pnl \in Int \cup {NULL}
             /\ row.adherence \in 1..5 \cup {NULL}
             /\ NULL \notin {WorkerProofs!BucketKey(WorkerProofs!EventOf(row)),
                             WorkerProofs!EmotionKey(WorkerProofs!EventOf(row))}
      BY <1>1, <1>2, RowFields
    <1>8. /\ \A k \in DOMAIN SeedBuckets :
                LET b == SeedBuckets[k]
                IN  /\ WorkerProofs!IsBucket(b)
                    /\ b.adherence # NULL => WorkerProofs!IsAverage(b.adherence)
                    /\ b.tilt # NULL => WorkerProofs!IsShare(b.tilt)
          /\ \A k \in DOMAIN SeedEmotions : SeedEmotions[k] \in [wins : Nat, losses : Nat]
      BY <1>3, SeedMetricsAssumption
    <1> QED BY <1>4, <1>5, <1>6, <1>7, <1>8, TicksAssumption

\* What is proved of either component, in the words of TradePipeline.
LEMMA IngestKept ==
    /\ Ingest!Init => Ingest!IngestInv
    /\ Ingest!IngestInv /\ [Ingest!Next]_Ingest!vars => Ingest!IngestInv'
    <1>1. IngestProofs!Init => IngestProofs!IngestInv
      BY IngestAssumptions, IngestProofs!InitInv
    <1>2. IngestProofs!IngestInv /\ [IngestProofs!Next]_IngestProofs!vars => IngestProofs!IngestInv'
      BY IngestAssumptions, IngestProofs!InvStep
    <1> QED BY <1>1, <1>2, SameIngest, SameAfter

LEMMA WorkerKept ==
    /\ Worker!Init => Worker!WorkerInv
    /\ Worker!WorkerInv /\ [Worker!Next]_Worker!vars => Worker!WorkerInv'
    /\ Worker!WorkerInv => Worker!NoDoubleCount /\ Worker!CountsExact
    <1>1. WorkerProofs!Init => WorkerProofs!WorkerInv
      BY WorkerAssumptions, WorkerProofs!InitInv
    <1>2. WorkerProofs!WorkerInv /\ [WorkerProofs!Next]_WorkerProofs!vars => WorkerProofs!WorkerInv'
      BY WorkerAssumptions, WorkerProofs!InvStep
    <1>3. WorkerProofs!WorkerInv => WorkerProofs!NoDoubleCount /\ WorkerProofs!CountsExact
      BY WorkerAssumptions, WorkerProofs!InvCountsOnce, WorkerProofs!InvCountsExact
    <1> QED BY <1>1, <1>2, <1>3, SameWorker, SameAfter

-----------------------------------------------------------------------------
(* The two programs *)

\* The worker writes neither the table nor the stream.
LEMMA WorkKeepsFeed ==
    ASSUME WorkerStep
    PROVE  UNCHANGED <<trades, stream, apiVars>>
    <1>1. WorkerStep => UNCHANGED Worker!feedVars
      BY DEF WorkerStep, Worker!Work, Worker!Run, Worker!ProcessMessage, Worker!feedVars,
             Worker!ReadGroup, Worker!ReadLost, Worker!Signal, Worker!Exit, Worker!Crash,
             Worker!Start, Worker!Ignore, Worker!Count, Worker!ReadRatings,
             Worker!WriteAdherence, Worker!ReadTilt, Worker!WriteTilt, Worker!CountEmotion,
             Worker!WindowAdd, Worker!WindowTrim, Worker!WindowCount, Worker!WindowFails,
             Worker!ReportOvertrading, Worker!Ack
    <1> QED BY <1>1 DEF WorkerStep, Worker!feedVars

\* A step of the API's, as far as it shows in the table, the stream and the
\* sorted set.
LEMMA ApiSteps ==
    ASSUME ApiStep
    PROVE  \/ \E r \in Reqs : Ingest!InsertTrade(r) \/ Ingest!InsertReplyLost(r)
           \/ \E r \in Reqs : Ingest!Publish(r) \/ Ingest!PublishRetried(r)
           \/ \E r \in Reqs : Ingest!AddWindow(r)
           \/ UNCHANGED <<trades, stream, tradesTs>>
    BY DEF ApiStep, Ingest!Next, Ingest!Handler, Ingest!Background, Ingest!Receive, Ingest!Get,
           Ingest!CheckRevenge, Ingest!InsertConflict, Ingest!InsertFails, Ingest!SelectTrade,
           Ingest!Respond, Ingest!SetLastLoss, Ingest!DropEffect, Ingest!Disconnect,
           Ingest!ExpireLastLoss, Ingest!StopServer, Ingest!feedVars, Ingest!redisVars

\* What the write path's invariant says of the shared state and the handlers.
LEMMA Shared ==
    ASSUME Ingest!IngestInv
    PROVE  /\ \A t \in DOMAIN trades : trades[t] \in Ingest!Rows /\ trades[t].tradeId = t
           /\ stream \in Seq({EventOf(row) : row \in Ingest!Rows})
           /\ Len(stream) \in Nat /\ DOMAIN stream = 1..Len(stream)
           /\ pc \in [Reqs -> {"idle", "done", "crashed"} \cup Ingest!InFlight]
           /\ pending \in [Reqs -> SUBSET {"lastLoss", "xadd", "zadd"}]
           /\ DOMAIN input = Reqs /\ DOMAIN result = Reqs /\ flag \in [Reqs -> BOOLEAN]
    <1>1. {Ingest!EventOf(row) : row \in Ingest!Rows} = {EventOf(row) : row \in Ingest!Rows}
      BY SameEvents
    <1>2. stream \in Seq({EventOf(row) : row \in Ingest!Rows})
      BY <1>1 DEF Ingest!IngestInv, Ingest!TypeOK
    <1> QED BY <1>2, LenProperties DEF Ingest!IngestInv, Ingest!TypeOK

\* A handler that stores a row holds an accepted body.
LEMMA InsertStep ==
    ASSUME Ingest!IngestInv, NEW r \in Reqs, Ingest!InsertTrade(r) \/ Ingest!InsertReplyLost(r)
    PROVE  \E row \in Ingest!Rows :
               /\ row.tradeId \notin DOMAIN trades
               /\ trades' = Ingest!Extend(trades, row.tradeId, row)
               /\ UNCHANGED <<stream, tradesTs>>
    <1> DEFINE row == Ingest!BuildTrade(input[r], flag[r])
    <1>1. input[r] \in Ingest!Accepted /\ flag[r] \in BOOLEAN
      BY Shared DEF Ingest!InsertTrade, Ingest!InsertReplyLost, Ingest!InFlight,
                    Ingest!IngestInv, Ingest!InputPosted
    <1>2. row \in Ingest!Rows
      BY <1>1 DEF Ingest!Rows, Ingest!InsertTrade, Ingest!InsertReplyLost
    <1>3. Ingest!FeedInsert(row) /\ UNCHANGED tradesTs
      BY DEF Ingest!InsertTrade, Ingest!InsertReplyLost, Ingest!redisVars
    <1> QED BY <1>2, <1>3 DEF Ingest!FeedInsert

\* A background call works on a stored row, for an accepted body.
LEMMA CallStep ==
    ASSUME Ingest!IngestInv, NEW r \in Reqs, pending[r] # {}
    PROVE  /\ \E t \in DOMAIN trades : result[r] = trades[t] /\ trades[t].tradeId = t
           /\ result[r] \in Ingest!Rows /\ input[r] \in Payloads
           /\ pc[r] \in {"respond", "done", "crashed"}
    <1>1. pc[r] \in {"respond", "done", "crashed"}
      BY Shared DEF Ingest!IngestInv, Ingest!NothingYet, Ingest!InFlight
    <1>2. input[r].tradeId \in DOMAIN trades /\ result[r] = trades[input[r].tradeId]
      BY DEF Ingest!IngestInv, Ingest!ResultStored
    <1>3. input[r] \in Payloads
      BY DEF Ingest!IngestInv, Ingest!InputPosted, Ingest!Accepted
    <1> QED BY <1>1, <1>2, <1>3, Shared

\* An XADD, the first or one sent again, appends the event of that row.
LEMMA PublishStep ==
    ASSUME Ingest!IngestInv, NEW r \in Reqs, Ingest!Publish(r) \/ Ingest!PublishRetried(r)
    PROVE  /\ pending[r] # {}
           /\ stream' = Append(stream, EventOf(result[r]))
           /\ Len(stream') = Len(stream) + 1
           /\ \A i \in 1..Len(stream) : stream'[i] = stream[i]
           /\ stream'[Len(stream) + 1] = EventOf(result[r])
           /\ UNCHANGED <<trades, tradesTs>>
    <1>1. pending[r] # {}
      BY DEF Ingest!Publish, Ingest!PublishRetried, Ingest!Over
    <1>2. stream' = Append(stream, EventOf(result[r])) /\ UNCHANGED <<trades, tradesTs>>
      BY SameEvents DEF Ingest!Publish, Ingest!PublishRetried, Ingest!redisVars
    <1>3. EventOf(result[r]) \in {EventOf(row) : row \in Ingest!Rows}
      BY <1>1, CallStep
    <1> QED BY <1>1, <1>2, <1>3, Shared, AppendProperties

-----------------------------------------------------------------------------
(* The requests and the stream *)

Late == {"respond", "done", "crashed"}

\* A request that is late stays so, with its body and its row, and starts
\* nothing more.
LEMMA LateKept ==
    ASSUME Ingest!IngestInv, ApiStep, NEW q \in Reqs, pc[q] \in Late
    PROVE  /\ pc'[q] \in Late /\ pending'[q] \subseteq pending[q]
           /\ input'[q] = input[q] /\ result'[q] = result[q]
    <1> DEFINE Kept == /\ pc'[q] \in Late /\ pending'[q] \subseteq pending[q]
                       /\ input'[q] = input[q] /\ result'[q] = result[q]
    <1> USE DEF Late, Ingest!InFlight, Ingest!answerVars
    <1>0. /\ pc \in [Reqs -> {"idle", "done", "crashed"} \cup Ingest!InFlight]
          /\ pending \in [Reqs -> SUBSET {"lastLoss", "xadd", "zadd"}]
          /\ DOMAIN input = Reqs /\ DOMAIN result = Reqs
      BY Shared
    <1>1. ASSUME NEW r \in Reqs, Ingest!Receive(r) PROVE Kept
      BY <1>0, <1>1 DEF Ingest!Receive, Ingest!RejectInvalid, Ingest!RejectForeign, Ingest!Accept, Ingest!Fail
    <1>2. ASSUME NEW r \in Reqs, Ingest!Get(r) PROVE Kept
      <2>1. /\ pc[r] = "idle" /\ pc' = [pc EXCEPT ![r] = "done"] /\ pending' = pending
            /\ \A p \in Reqs \ {r} : input'[p] = input[p] /\ result'[p] = result[p]
        BY <1>0, <1>2 DEF Ingest!Get
      <2> QED BY <1>0, <2>1
    <1>3. ASSUME NEW r \in Reqs, Ingest!Handler(r) PROVE Kept
      BY <1>0, <1>3 DEF Ingest!Handler, Ingest!CheckRevenge, Ingest!InsertTrade, Ingest!InsertConflict,
              Ingest!InsertFails, Ingest!InsertReplyLost, Ingest!SelectTrade, Ingest!Respond,
              Ingest!Proceed, Ingest!Fail
    <1>4. ASSUME NEW r \in Reqs, Ingest!Background(r) \/ Ingest!PublishRetried(r) \/ Ingest!Disconnect(r)
          PROVE  Kept
      BY <1>0, <1>4 DEF Ingest!Background, Ingest!SetLastLoss, Ingest!Publish, Ingest!AddWindow,
                        Ingest!DropEffect, Ingest!Over, Ingest!PublishRetried, Ingest!Disconnect
    <1>5. ASSUME (\E u \in Users : Ingest!ExpireLastLoss(u)) \/ Ingest!StopServer
          PROVE  Kept
      BY <1>0, <1>5 DEF Ingest!ExpireLastLoss, Ingest!StopServer
    <1> QED BY <1>1, <1>2, <1>3, <1>4, <1>5 DEF ApiStep, Ingest!Next

\* What Posts says of a request after the step.
PostsAfter(k) ==
    {r \in Reqs : /\ input'[r] \in Payloads
                  /\ result'[r] # NULL
                  /\ result'[r].status = "closed"
                  /\ Worker!BucketKey(EventOf(result'[r])) = k}

LEMMA PublishedGrows ==
    ASSUME Ingest!IngestInv, ApiStep, NEW k
    PROVE  /\ Published \subseteq Published'
           /\ Published \cap Posts(k) \subseteq Published' \cap PostsAfter(k)
    BY LateKept DEF Published, Late, Posts, PostsAfter

\* The published requests, and those of them that fall on a bucket, are
\* finitely many.
LEMMA PublishedFinite ==
    ASSUME NEW S
    PROVE  /\ IsFiniteSet(Published \cap S) /\ Cardinality(Published \cap S) \in Nat
           /\ IsFiniteSet(Published' \cap S) /\ Cardinality(Published' \cap S) \in Nat
    <1>1. IsFiniteSet(Reqs) /\ Published \cap S \subseteq Reqs /\ Published' \cap S \subseteq Reqs
      BY BoundsAssumption DEF Published
    <1> QED BY <1>1, FS_Subset, FS_CardinalityType

\* An XADD puts its request behind it.
LEMMA PublishedOne ==
    ASSUME Ingest!IngestInv, ApiStep, NEW r \in Reqs, Ingest!Publish(r)
    PROVE  r \notin Published /\ r \in Published' /\ pc' = pc
    <1>1. "xadd" \in pending[r] /\ pending' = [pending EXCEPT ![r] = @ \ {"xadd"}] /\ pc' = pc
      BY DEF Ingest!Publish, Ingest!Over
    <1>2. pc[r] \in {"respond", "done", "crashed"}
      BY <1>1, CallStep
    <1>3. "xadd" \notin pending'[r]
      BY <1>1, Shared
    <1> QED BY <1>1, <1>2, <1>3 DEF Published

\* A set that gains an element grows by one.
LEMMA OneMore ==
    ASSUME NEW S, NEW T, IsFiniteSet(T), S \subseteq T, NEW x \in T, x \notin S
    PROVE  Cardinality(S) + 1 <= Cardinality(T)
    <1>1. IsFiniteSet(S) /\ Cardinality(S) \in Nat /\ Cardinality(T) \in Nat
      BY FS_Subset, FS_CardinalityType
    <1>2. S \cup {x} \subseteq T
      OBVIOUS
    <1>3. IsFiniteSet(S \cup {x}) /\ Cardinality(S \cup {x}) = Cardinality(S) + 1
      BY <1>1, FS_AddElement
    <1>4. Cardinality(S \cup {x}) <= Cardinality(T)
      BY <1>2, FS_Subset
    <1> QED BY <1>1, <1>3, <1>4

\* Every other step leaves the stream alone.
LEMMA StreamSteps ==
    ASSUME Ingest!IngestInv, ApiStep
    PROVE  \/ \E r \in Reqs : Ingest!Publish(r)
           \/ \E r \in Reqs : Ingest!PublishRetried(r)
           \/ stream' = stream
    <1>1. ASSUME NEW r \in Reqs, Ingest!InsertTrade(r) \/ Ingest!InsertReplyLost(r) \/ Ingest!AddWindow(r)
          PROVE  stream' = stream
      BY <1>1 DEF Ingest!InsertTrade, Ingest!InsertReplyLost, Ingest!AddWindow, Ingest!FeedInsert,
                  Ingest!feedVars
    <1> QED BY <1>1, ApiSteps

\* An XADD counts its request, or a retry kept to the bound.
LEMMA StreamBoundedStep ==
    ASSUME Ingest!IngestInv, StreamBounded, ApiStep
    PROVE  StreamBounded'
    <1> DEFINE m == Cardinality(Published)  n == Cardinality(Published')
    <1>1. /\ m \in Nat /\ n \in Nat /\ IsFiniteSet(Published')
          /\ Published \subseteq Published'
      <2>1. /\ IsFiniteSet(Published \cap Reqs) /\ Cardinality(Published \cap Reqs) \in Nat
            /\ IsFiniteSet(Published' \cap Reqs) /\ Cardinality(Published' \cap Reqs) \in Nat
        BY PublishedFinite
      <2>2. Published \cap Reqs = Published /\ Published' \cap Reqs = Published'
        BY DEF Published
      <2>3. Published \subseteq Published'
        BY PublishedGrows
      <2> QED BY <2>1, <2>2, <2>3
    <1>2. m <= n
      BY <1>1, FS_Subset
    <1>3. /\ Len(stream) \in Nat /\ Len(stream) <= MaxEvents + m /\ MaxEvents \in Nat
      BY Shared, BoundsAssumption DEF StreamBounded
    <1>4. ASSUME NEW r \in Reqs, Ingest!Publish(r) PROVE Len(stream') <= MaxEvents + n
      <2>1. m + 1 <= n
        BY <1>1, <1>4, PublishedOne, OneMore
      <2>2. Len(stream') = Len(stream) + 1
        BY <1>4, PublishStep
      <2> HIDE DEF m, n
      <2> QED BY <1>1, <1>3, <2>1, <2>2
    <1>5. ASSUME NEW r \in Reqs, Ingest!PublishRetried(r) PROVE Len(stream') <= MaxEvents + n
      <2>1. Len(stream') = Len(stream) + 1 /\ Len(stream) < MaxEvents
        BY <1>5, PublishStep DEF Ingest!PublishRetried
      <2> HIDE DEF m, n
      <2> QED BY <1>1, <1>3, <2>1
    <1>6. ASSUME stream' = stream PROVE Len(stream') <= MaxEvents + n
      <2> HIDE DEF m, n
      <2> QED BY <1>1, <1>2, <1>3, <1>6
    <1> QED BY <1>4, <1>5, <1>6, StreamSteps DEF StreamBounded

\* The entries of a bucket after the step.
EntriesAfter(k) ==
    {i \in 1..Len(stream') : stream'[i].status = "closed" /\ Worker!BucketKey(stream'[i]) = k}

\* A bucket that nothing has fallen on is within its posts too.
LEMMA EntriesOfAll ==
    ASSUME Ingest!IngestInv, EntriesFromPosts, ~RedisMayFail, NEW k
    PROVE  /\ Cardinality(Worker!Hits(k, DOMAIN stream)) <= Cardinality(Published \cap Posts(k))
           /\ IsFiniteSet(Worker!Hits(k, DOMAIN stream))
           /\ Cardinality(Worker!Hits(k, DOMAIN stream)) \in Nat
    <1> DEFINE H == Worker!Hits(k, DOMAIN stream)
    <1>1. IsFiniteSet(1..Len(stream)) /\ H \in SUBSET (1..Len(stream))
      BY Shared, FS_Interval DEF Worker!Hits
    <1>2. IsFiniteSet(H) /\ Cardinality(H) \in Nat
      <2> HIDE DEF H
      <2> QED BY <1>1, FS_Subset, FS_CardinalityType
    <1>3. ASSUME k \notin Worker!BucketKeys PROVE Cardinality(H) <= Cardinality(Published \cap Posts(k))
      <2>1. H = {}
        BY <1>3 DEF Worker!BucketKeys, Worker!Hits
      <2>2. Cardinality(H) = 0
        BY <2>1, FS_EmptySet
      <2>3. Cardinality(Published \cap Posts(k)) \in Nat
        BY PublishedFinite
      <2> HIDE DEF H
      <2> QED BY <2>2, <2>3
    <1> QED BY <1>2, <1>3 DEF EntriesFromPosts

\* Without retries an XADD adds one entry to the bucket of its request, and
\* its request to the posts of that bucket.
LEMMA EntriesFromPostsStep ==
    ASSUME Ingest!IngestInv, EntriesFromPosts, ApiStep
    PROVE  EntriesFromPosts'
    <1> SUFFICES ASSUME ~RedisMayFail, NEW k
                 PROVE  Cardinality(EntriesAfter(k)) <= Cardinality(Published' \cap PostsAfter(k))
      <2>1. stream' \in Seq({EventOf(row) : row \in Ingest!Rows})
        <3>1. Ingest!IngestInv'
          BY IngestKept DEF ApiStep
        <3>2. {Ingest!EventOf(row) : row \in Ingest!Rows} = {EventOf(row) : row \in Ingest!Rows}
          BY SameEvents
        <3> QED BY <3>1, <3>2 DEF Ingest!IngestInv, Ingest!TypeOK
      <2>2. DOMAIN stream' = 1..Len(stream')
        BY <2>1, LenProperties
      <2>3. ASSUME NEW k
            PROVE  /\ Worker!Hits(k, DOMAIN stream)' = EntriesAfter(k)
                   /\ Posts(k)' = PostsAfter(k)
        BY <2>2 DEF Worker!Hits, EntriesAfter, Posts, PostsAfter, Worker!BucketKey
      <2> QED BY <2>3 DEF EntriesFromPosts
    <1> DEFINE H == Worker!Hits(k, DOMAIN stream)  H1 == EntriesAfter(k)
               P == Published \cap Posts(k)  P1 == Published' \cap PostsAfter(k)
    <1>1. /\ Cardinality(H) <= Cardinality(P) /\ IsFiniteSet(H) /\ Cardinality(H) \in Nat
          /\ Cardinality(P) \in Nat /\ Cardinality(P1) \in Nat /\ IsFiniteSet(P1)
          /\ P \subseteq P1
      BY EntriesOfAll, PublishedFinite, PublishedGrows
    <1>2. Cardinality(P) <= Cardinality(P1)
      <2> HIDE DEF P, P1
      <2> QED BY <1>1, FS_Subset
    <1>3. ASSUME H1 = H PROVE Cardinality(H1) <= Cardinality(P1)
      <2> HIDE DEF P, P1, H, H1
      <2> QED BY <1>1, <1>2, <1>3
    <1>4. CASE stream' = stream
      <2>1. H1 = H
        BY <1>4, Shared DEF EntriesAfter, Worker!Hits
      <2> QED BY <1>3, <2>1
    <1>5. ASSUME NEW r \in Reqs, Ingest!Publish(r)
          PROVE  Cardinality(H1) <= Cardinality(P1)
      <2> DEFINE i == Len(stream) + 1  e == EventOf(result[r])
      <2>1. /\ Len(stream') = i /\ stream'[i] = e /\ Len(stream) \in Nat
            /\ \A j \in 1..Len(stream) : stream'[j] = stream[j]
            /\ pending[r] # {}
        BY <1>5, PublishStep, Shared
      <2>2. 1..i = (1..Len(stream)) \cup {i} /\ i \notin 1..Len(stream)
        BY <2>1
      <2>3. /\ H = {j \in 1..Len(stream) : stream'[j].status = "closed"
                                           /\ Worker!BucketKey(stream'[j]) = k}
            /\ i \notin H
        BY <2>1, <2>2, Shared DEF Worker!Hits
      <2>4. CASE ~(e.status = "closed" /\ Worker!BucketKey(e) = k)
        <3>1. H1 = H
          BY <2>1, <2>2, <2>3, <2>4 DEF EntriesAfter
        <3> QED BY <1>3, <3>1
      <2>5. CASE e.status = "closed" /\ Worker!BucketKey(e) = k
        <3>1. H1 = H \cup {i}
          BY <2>1, <2>2, <2>3, <2>5 DEF EntriesAfter
        <3>2. Cardinality(H1) = Cardinality(H) + 1
          <4> HIDE DEF H, H1, i
          <4> QED BY <1>1, <2>3, <3>1, FS_AddElement
        <3>3. r \in PostsAfter(k)
          <4>1. input' = input /\ result' = result
            BY <1>5 DEF Ingest!Publish, Ingest!Over, Ingest!answerVars
          <4>2. input[r] \in Payloads /\ result[r] # NULL
            BY <2>1, CallStep, NullAssumption
          <4>3. result[r].status = "closed"
            BY <2>5 DEF EventOf
          <4> QED BY <2>5, <4>1, <4>2, <4>3 DEF PostsAfter
        <3>4. r \in P1 /\ r \notin P
          BY <1>5, <3>3, PublishedOne
        <3>5. Cardinality(P) + 1 <= Cardinality(P1)
          <4> HIDE DEF P, P1
          <4> QED BY <1>1, <3>4, OneMore
        <3> HIDE DEF P, P1, H, H1
        <3> QED BY <1>1, <3>2, <3>5
      <2> QED BY <2>4, <2>5
    <1>6. ASSUME NEW r \in Reqs, Ingest!PublishRetried(r) PROVE FALSE
      BY <1>6 DEF Ingest!PublishRetried
    <1> QED BY <1>4, <1>5, <1>6, StreamSteps

-----------------------------------------------------------------------------
(* The API server as the worker's environment *)

\* An XADD leaves the stream within the bound the worker was specified with.
LEMMA RoomInStream ==
    ASSUME Ingest!IngestInv, StreamBounded, ApiStep, NEW r \in Reqs,
           Ingest!Publish(r) \/ Ingest!PublishRetried(r)
    PROVE  Len(stream) < MaxEvents + Cardinality(Reqs)
    <1> DEFINE l == Len(stream)  m == Cardinality(Published)  n == Cardinality(Reqs)
    <1>1. l \in Nat /\ MaxEvents \in Nat /\ l <= MaxEvents + m
      BY BoundsAssumption, Shared DEF StreamBounded
    <1>2. Published \subseteq Reqs /\ IsFiniteSet(Reqs) /\ n \in Nat
      BY BoundsAssumption, FS_CardinalityType DEF Published
    <1>3. IsFiniteSet(Published) /\ m \in Nat
      BY <1>2, FS_Subset, FS_CardinalityType
    <1>4. ASSUME Ingest!PublishRetried(r) PROVE l < MaxEvents + n
      <2>1. l < MaxEvents
        BY <1>4 DEF Ingest!PublishRetried
      <2> HIDE DEF l, m, n
      <2> QED BY <1>1, <1>2, <2>1
    <1>5. ASSUME Ingest!Publish(r) PROVE l < MaxEvents + n
      <2>1. r \notin Published
        BY <1>5, PublishedOne
      <2>2. m + 1 <= n
        BY <1>2, <2>1, OneMore
      <2> HIDE DEF l, m, n
      <2> QED BY <1>1, <1>2, <1>3, <2>2
    <1> QED BY <1>4, <1>5

\* Every step of the two programs is one the worker's specification allows.
LEMMA EnvironmentStep ==
    ASSUME Ingest!IngestInv, StreamBounded, [PipelineNext]_pipelineVars
    PROVE  [Worker!Next]_Worker!vars
    <1> USE DEF workerVars, Worker!groupVars, Worker!localVars, Worker!tableVars
    <1>1. ASSUME ApiStep, NEW r \in Reqs, Ingest!InsertTrade(r) \/ Ingest!InsertReplyLost(r)
          PROVE  Worker!Next
      <2>1. PICK row \in Ingest!Rows :
               /\ row.tradeId \notin DOMAIN trades
               /\ trades' = Ingest!Extend(trades, row.tradeId, row)
               /\ UNCHANGED <<stream, tradesTs>>
        BY <1>1, InsertStep
      <2>2. Worker!FeedInsert(row)
        BY <2>1, SameMaps DEF Worker!FeedInsert
      <2>3. Worker!InsertRow(row)
        BY <1>1, <2>1, <2>2 DEF ApiStep, Worker!InsertRow
      <2> QED BY <2>3 DEF Worker!Next, Worker!Api
    <1>2. ASSUME ApiStep, NEW r \in Reqs, Ingest!Publish(r) \/ Ingest!PublishRetried(r)
          PROVE  Worker!Next
      <2>1. PICK t \in DOMAIN trades : result[r] = trades[t]
        BY <1>2, PublishStep, CallStep
      <2>2. Worker!FeedPublish(t) /\ tradesTs' = tradesTs
        BY <1>2, <2>1, SameEvents, PublishStep DEF Worker!FeedPublish
      <2>3. Len(stream) < MaxEvents + Cardinality(Reqs)
        BY <1>2, RoomInStream
      <2>4. Worker!PublishRow(t)
        BY <1>2, <2>2, <2>3 DEF ApiStep, Worker!PublishRow
      <2> QED BY <2>1, <2>4 DEF Worker!Next, Worker!Api
    <1>3. ASSUME ApiStep, NEW r \in Reqs, Ingest!AddWindow(r)
          PROVE  Worker!Next
      <2>1. PICK t \in DOMAIN trades : result[r] = trades[t] /\ trades[t].tradeId = t
        BY <1>3, CallStep DEF Ingest!AddWindow, Ingest!Over
      <2>2. /\ tradesTs' = [tradesTs EXCEPT ![trades[t].userId] =
                               Worker!AddNX(@, t, trades[t].entryAt)]
            /\ UNCHANGED Worker!feedVars
        BY <1>3, <2>1, SameMaps
           DEF Ingest!AddWindow, Worker!AddNX, Ingest!feedVars, Worker!feedVars
      <2>3. Worker!AddWindow(t)
        BY <1>3, <2>2 DEF ApiStep, Worker!AddWindow
      <2> QED BY <2>1, <2>3 DEF Worker!Next, Worker!Api
    <1>4. CASE ApiStep /\ UNCHANGED <<trades, stream, tradesTs>>
      BY <1>4 DEF ApiStep, Worker!vars
    <1>5. CASE WorkerStep
      BY <1>5 DEF WorkerStep, Worker!Next
    <1>6. CASE UNCHANGED pipelineVars
      BY <1>6 DEF pipelineVars, Worker!vars
    <1>7. CASE ApiStep
      BY <1>1, <1>2, <1>3, <1>4, <1>7, ApiSteps
    <1> QED BY <1>5, <1>6, <1>7 DEF PipelineNext

-----------------------------------------------------------------------------
(* The invariant *)

\* The worker shares the overtrading set with the API, and leaves in it what
\* the API expects there.
LEMMA IngestSpared ==
    ASSUME Ingest!IngestInv, UNCHANGED <<trades, stream, apiVars>>, Worker!WorkerInv'
    PROVE  Ingest!IngestInv'
    <1> USE DEF apiVars
    <1>1. DOMAIN tradesTs' = Users /\ \A u \in Users : DOMAIN tradesTs'[u] \subseteq DOMAIN trades
      BY UsersAssumption DEF Worker!WorkerInv, Worker!TypeOK
    <1>2. DOMAIN trades \subseteq Ingest!TradeIds
      BY DEF Ingest!IngestInv, Ingest!TypeOK
    <1>3. Ingest!TypeOK'
      BY <1>1, <1>2 DEF Ingest!IngestInv, Ingest!TypeOK
    <1>4. /\ Ingest!InputPosted' /\ Ingest!NothingYet' /\ Ingest!ResultStored'
          /\ Ingest!LossPending' /\ Ingest!LossBacked' /\ Ingest!FlagJustified'
          /\ Ingest!RevengeJustified'
      BY DEF Ingest!IngestInv, Ingest!InputPosted, Ingest!NothingYet, Ingest!ResultStored,
             Ingest!LossPending, Ingest!LossBacked, Ingest!FlagJustified, Ingest!RevengeJustified
    <1> QED BY <1>3, <1>4 DEF Ingest!IngestInv

LEMMA PipelineInvInit ==
    ASSUME PipelineInit
    PROVE  PipelineInv
    <1>1. Ingest!IngestInv /\ Worker!WorkerInv
      BY IngestKept, WorkerKept DEF PipelineInit
    <1>2. stream = <<>>
      BY DEF PipelineInit, Ingest!Init, Ingest!FeedInit
    <1>3. StreamBounded
      <2>1. Published \cap Reqs = Published
        BY DEF Published
      <2>2. Cardinality(Published) \in Nat /\ MaxEvents \in Nat /\ Len(stream) = 0
        BY <1>2, <2>1, PublishedFinite, BoundsAssumption
      <2> QED BY <2>2 DEF StreamBounded
    <1>4. EntriesFromPosts
      <2>1. \A k : Worker!Hits(k, DOMAIN stream) = {}
        BY <1>2 DEF Worker!Hits
      <2>2. ASSUME NEW k
            PROVE  Cardinality(Worker!Hits(k, DOMAIN stream)) <= Cardinality(Published \cap Posts(k))
        <3> DEFINE h == Cardinality(Worker!Hits(k, DOMAIN stream))
                   m == Cardinality(Published \cap Posts(k))
        <3>1. h = 0
          BY <2>1, FS_EmptySet
        <3>2. m \in Nat
          BY PublishedFinite
        <3>3. h <= m
          <4> HIDE DEF h, m
          <4> QED BY <3>1, <3>2
        <3> QED BY <3>3
      <2> QED BY <2>2 DEF EntriesFromPosts
    <1> QED BY <1>1, <1>3, <1>4 DEF PipelineInv

LEMMA PipelineInvStep ==
    ASSUME PipelineInv, [PipelineNext]_pipelineVars
    PROVE  PipelineInv'
    <1>0. Ingest!IngestInv /\ Worker!WorkerInv /\ StreamBounded /\ EntriesFromPosts
      BY DEF PipelineInv
    <1>1. Worker!WorkerInv'
      BY <1>0, EnvironmentStep, WorkerKept
    <1>2. CASE ApiStep
      <2>1. Ingest!IngestInv'
        BY <1>0, <1>2, IngestKept DEF ApiStep
      <2> QED BY <1>0, <1>1, <1>2, <2>1, StreamBoundedStep, EntriesFromPostsStep DEF PipelineInv
    <1>3. ASSUME UNCHANGED <<trades, stream, apiVars>> PROVE PipelineInv'
      <2>1. Ingest!IngestInv'
        BY <1>0, <1>1, <1>3, IngestSpared
      <2>2. StreamBounded'
        BY <1>0, <1>3 DEF StreamBounded, Published, apiVars
      <2>3. EntriesFromPosts'
        <3>1. ASSUME NEW k
              PROVE  /\ Worker!Hits(k, DOMAIN stream)' = Worker!Hits(k, DOMAIN stream)
                     /\ (Published \cap Posts(k))' = Published \cap Posts(k)
          BY <1>3 DEF Worker!Hits, Worker!BucketKey, Published, Posts, apiVars
        <3>2. ~RedisMayFail => \A k : Cardinality(Worker!Hits(k, DOMAIN stream))
                                          <= Cardinality(Published \cap Posts(k))
          BY <1>0, EntriesOfAll
        <3> QED BY <3>1, <3>2 DEF EntriesFromPosts
      <2> QED BY <1>1, <2>1, <2>2, <2>3 DEF PipelineInv
    <1>4. CASE WorkerStep
      BY <1>3, <1>4, WorkKeepsFeed
    <1>5. CASE UNCHANGED pipelineVars
      BY <1>3, <1>5 DEF pipelineVars
    <1> QED BY <1>2, <1>4, <1>5 DEF PipelineNext

-----------------------------------------------------------------------------
(* The theorems *)

\* What each program keeps by itself it keeps next to the other, though they
\* share the table, the stream and the overtrading set; and every entry, the
\* retries of go-redis aside, is one request's (Upsert, streamTradeEvent, Run).
THEOREM PipelineInvAlways == PipelineSpec => []PipelineInv
    <1>1. PipelineInit => PipelineInv
      BY PipelineInvInit
    <1>2. PipelineInv /\ [PipelineNext]_pipelineVars => PipelineInv'
      BY PipelineInvStep
    <1> QED BY <1>1, <1>2, PTL DEF PipelineSpec

\* The API server and the worker together behave, for the worker, as its own
\* specification says: what is proved of MetricsWorker holds of the two
\* programs (handler/trade.go, worker.go).
THEOREM WorkerSpecAlways == PipelineSpec => WorkerSpec
    <1>1. PipelineInit => Worker!Init
      BY DEF PipelineInit
    <1>2. PipelineInv /\ [PipelineNext]_pipelineVars => [Worker!Next]_Worker!vars
      BY EnvironmentStep DEF PipelineInv
    <1> QED BY <1>1, <1>2, PipelineInvAlways, PTL DEF PipelineSpec, WorkerSpec, Worker!Spec

\* Without failures and stops of the worker, and whatever becomes of the
\* requests, an idle worker has every delivered event in every counter of its
\* key, and nothing else (processMessage).
THEOREM CountsExactAlways == PipelineSpec => []CountsExact
    <1>1. PipelineInv => CountsExact
      BY WorkerKept DEF PipelineInv, CountsExact
    <1> QED BY <1>1, PipelineInvAlways, PTL

\* No bucket counts more trades than the seed's and the POSTs that stored or
\* found a closed trade of its hour, however requests, crashes and restarts
\* interleave, unless go-redis sends an XADD again (trade.go, UpsertBucket).
THEOREM CountsWithinPostsAlways == PipelineSpec => []CountsWithinPosts
    <1>1. ASSUME PipelineInv PROVE CountsWithinPosts
      <2> SUFFICES ASSUME ~RedisMayFail, NEW k \in DOMAIN buckets
                   PROVE  buckets[k].trades <= Worker!SeedCount(k) + Cardinality(Posts(k))
        BY DEF CountsWithinPosts
      <2>0. Ingest!IngestInv /\ Worker!WorkerInv /\ EntriesFromPosts
        BY <1>1 DEF PipelineInv
      <2> DEFINE D == Worker!Hits(k, 1..cursor)  H == Worker!Hits(k, DOMAIN stream)
                 Q == Published \cap Posts(k)
      <2>1. buckets[k].trades <= Worker!SeedCount(k) + Cardinality(D)
        BY <2>0, WorkerKept, SameSets DEF Worker!NoDoubleCount
      <2>2. D \subseteq H
        <3>1. cursor \in 0..Len(stream) /\ DOMAIN stream = 1..Len(stream) /\ Len(stream) \in Nat
          BY <2>0, Shared DEF Worker!WorkerInv, Worker!TypeOK
        <3> QED BY <3>1 DEF Worker!Hits
      <2>3. Cardinality(H) <= Cardinality(Q) /\ IsFiniteSet(H) /\ Cardinality(H) \in Nat
        BY <2>0, EntriesOfAll
      <2>4. Cardinality(D) <= Cardinality(H) /\ Cardinality(D) \in Nat
        <3> HIDE DEF D, H
        <3> QED BY <2>2, <2>3, FS_Subset, FS_CardinalityType
      <2>5. /\ Cardinality(Q) <= Cardinality(Posts(k))
            /\ Cardinality(Q) \in Nat /\ Cardinality(Posts(k)) \in Nat
        <3>1. IsFiniteSet(Reqs) /\ Posts(k) \subseteq Reqs /\ Q \subseteq Posts(k)
          BY BoundsAssumption DEF Posts
        <3>2. IsFiniteSet(Posts(k))
          BY <3>1, FS_Subset
        <3> HIDE DEF Q
        <3> QED BY <3>1, <3>2, FS_Subset, FS_CardinalityType
      <2>6. buckets[k].trades \in Nat /\ Worker!SeedCount(k) \in Nat
        BY <2>0, SeedMetricsAssumption
           DEF Worker!WorkerInv, Worker!TypeOK, Worker!IsBucket, Worker!SeedCount
      <2> HIDE DEF D, H, Q
      <2> QED BY <2>1, <2>3, <2>4, <2>5, <2>6
    <1> QED BY <1>1, PipelineInvAlways, PTL

\* A revenge count beyond the seed's has a stored, flagged trade of that bucket
\* behind it, and the trade a stored losing close that justifies the flag,
\* whatever expired, was lost or was overwritten on the way (GetLastLoss,
\* IsRevenge, streamTradeEvent, UpsertBucket).
THEOREM RevengeCountBackedAlways == PipelineSpec => []RevengeCountBacked
    <1>1. ASSUME PipelineInv PROVE RevengeCountBacked
      <2> SUFFICES ASSUME NEW k \in DOMAIN buckets, buckets[k].revenge > SeedRevenge(k)
                   PROVE  \E t \in DOMAIN trades :
                             /\ trades[t].revengeFlag
                             /\ Worker!BucketKey(EventOf(trades[t])) = k
                             /\ t \notin DOMAIN SeedTrades =>
                                   \E s \in DOMAIN trades : Ingest!Justifies(trades[s], trades[t])
        BY DEF RevengeCountBacked
      <2>1. Ingest!IngestInv /\ Worker!RevengeBacked /\ Worker!RowsStored
        BY <1>1 DEF PipelineInv, Worker!WorkerInv
      <2>2. buckets[k].revenge > Worker!SeedBucket(k).revenge
        BY DEF SeedRevenge, Worker!SeedBucket, Worker!NoBucket
      <2>3. PICK i \in Worker!Hits(k, DOMAIN stream) : stream[i].revengeFlag
        BY <2>1, <2>2 DEF Worker!RevengeBacked
      <2>4. i \in 1..Len(stream) /\ Worker!BucketKey(stream[i]) = k
        BY <2>1, Shared DEF Worker!Hits
      <2>5. stream[i] \in {Worker!EventOf(trades[t]) : t \in DOMAIN trades}
        BY <2>1, <2>4, ElementOfSeq DEF Worker!RowsStored
      <2>6. PICK t \in DOMAIN trades : stream[i] = EventOf(trades[t])
        BY <2>5, SameEvents
      <2>7. trades[t].revengeFlag
        BY <2>3, <2>6 DEF EventOf
      <2>8. t \notin DOMAIN SeedTrades => \E s \in DOMAIN trades : Ingest!Justifies(trades[s], trades[t])
        BY <2>1, <2>7 DEF Ingest!IngestInv, Ingest!RevengeJustified
      <2> QED BY <2>4, <2>6, <2>7, <2>8
    <1> QED BY <1>1, PipelineInvAlways, PTL

\* What was proved of one program at a time holds of the two together: one
\* record per trade id, flags that are justified, entries counted once,
\* overtrading events backed by rows and ratios in range.
THEOREM PromisesKept ==
    PipelineSpec => [](/\ Ingest!OneRecord /\ Ingest!RevengeJustified
                       /\ Worker!NoDoubleCount /\ Worker!OvertradingBacked
                       /\ Worker!RatiosInRange)
    <1>1. PipelineInv => /\ Ingest!OneRecord /\ Ingest!RevengeJustified
                         /\ Worker!NoDoubleCount /\ Worker!OvertradingBacked
                         /\ Worker!RatiosInRange
      BY WorkerKept DEF PipelineInv, Worker!WorkerInv, Ingest!IngestInv, Ingest!OneRecord,
                        Ingest!ResultStored
    <1> QED BY <1>1, PipelineInvAlways, PTL

-----------------------------------------------------------------------------
(* The abstract specifications, which either instance of a component states *)

LEMMA SameLedgers ==
    /\ Worker!BucketLedger!Init <=> WorkerProofs!BucketLedger!Init
    /\ Worker!EmotionLedger!Init <=> WorkerProofs!EmotionLedger!Init
    /\ [Worker!BucketLedger!Next]_Worker!BucketLedger!ledgerVars
          <=> [WorkerProofs!BucketLedger!Next]_WorkerProofs!BucketLedger!ledgerVars
    /\ [Worker!EmotionLedger!Next]_Worker!EmotionLedger!ledgerVars
          <=> [WorkerProofs!EmotionLedger!Next]_WorkerProofs!EmotionLedger!ledgerVars
    BY DEF Worker!BucketLog, WorkerProofs!BucketLog, Worker!EmotionLog, WorkerProofs!EmotionLog,
           Worker!BucketFront, WorkerProofs!BucketFront, Worker!EmotionFront,
           WorkerProofs!EmotionFront, Worker!TradeCounts, WorkerProofs!TradeCounts,
           Worker!EmotionCounts, WorkerProofs!EmotionCounts, Worker!BucketKey,
           WorkerProofs!BucketKey, Worker!EmotionKey, WorkerProofs!EmotionKey, Worker!HourOf,
           WorkerProofs!HourOf, Worker!DateOf, WorkerProofs!DateOf,
           Worker!BucketLedger!ledgerVars, WorkerProofs!BucketLedger!ledgerVars,
           Worker!BucketLedger!Tally, WorkerProofs!BucketLedger!Tally, Worker!BucketLedger!Set,
           WorkerProofs!BucketLedger!Set, Worker!BucketLedger!Arrive,
           WorkerProofs!BucketLedger!Arrive, Worker!BucketLedger!Count,
           WorkerProofs!BucketLedger!Count, Worker!BucketLedger!Pass,
           WorkerProofs!BucketLedger!Pass, Worker!BucketLedger!Open,
           WorkerProofs!BucketLedger!Open, Worker!BucketLedger!Next,
           WorkerProofs!BucketLedger!Next, Worker!BucketLedger!Init,
           WorkerProofs!BucketLedger!Init, Worker!EmotionLedger!ledgerVars,
           WorkerProofs!EmotionLedger!ledgerVars, Worker!EmotionLedger!Tally,
           WorkerProofs!EmotionLedger!Tally, Worker!EmotionLedger!Set,
           WorkerProofs!EmotionLedger!Set, Worker!EmotionLedger!Arrive,
           WorkerProofs!EmotionLedger!Arrive, Worker!EmotionLedger!Count,
           WorkerProofs!EmotionLedger!Count, Worker!EmotionLedger!Pass,
           WorkerProofs!EmotionLedger!Pass, Worker!EmotionLedger!Open,
           WorkerProofs!EmotionLedger!Open, Worker!EmotionLedger!Next,
           WorkerProofs!EmotionLedger!Next, Worker!EmotionLedger!Init,
           WorkerProofs!EmotionLedger!Init

LEMMA SameFeed ==
    [Ingest!FeedNext]_Ingest!feedVars <=> [IngestProofs!FeedNext]_IngestProofs!feedVars
    BY DEF Ingest!feedVars, IngestProofs!feedVars, Ingest!FeedNext, IngestProofs!FeedNext,
           Ingest!FeedInsert, IngestProofs!FeedInsert, Ingest!FeedPublish,
           IngestProofs!FeedPublish, Ingest!Extend, IngestProofs!Extend,
           Ingest!EventOf, IngestProofs!EventOf, Ingest!ToRFC3339, IngestProofs!ToRFC3339,
           Ingest!FromUnix, IngestProofs!FromUnix, Ingest!Unix, IngestProofs!Unix

\* The two programs are the feed: rows are written once, and every event is of
\* a row stored before (Upsert, streamTradeEvent).
THEOREM FeedAlways == PipelineSpec => Ingest!Feed
    <1>1. PipelineInit => Ingest!FeedInit
      BY DEF PipelineInit, Ingest!Init
    <1>2. ASSUME PipelineInv, [PipelineNext]_pipelineVars PROVE [Ingest!FeedNext]_Ingest!feedVars
      <2>1. CASE ApiStep
        <3>1. [IngestProofs!Next]_IngestProofs!vars /\ IngestProofs!IngestInv
          BY <1>2, <2>1, SameIngest DEF ApiStep, PipelineInv
        <3> QED BY <3>1, IngestAssumptions, SameFeed, IngestProofs!FeedStep
      <2>2. CASE WorkerStep
        BY <2>2, WorkKeepsFeed DEF Ingest!feedVars
      <2>3. CASE UNCHANGED pipelineVars
        BY <2>3 DEF pipelineVars, Ingest!feedVars
      <2> QED BY <1>2, <2>1, <2>2, <2>3 DEF PipelineNext
    <1> QED BY <1>1, <1>2, PipelineInvAlways, PTL DEF PipelineSpec, Ingest!Feed, Ingest!FeedSpec

\* From POST to counter, both tables of counters are ledgers of the stream:
\* entries in order, each counted once or never (Run, UpsertBucket,
\* UpsertEmotionWinRate).
THEOREM LedgersAlways == PipelineSpec => Worker!CountedInOrder
    <1>1. PipelineInit => Worker!BucketLedger!Init /\ Worker!EmotionLedger!Init
      BY WorkerAssumptions, SameWorker, SameLedgers, WorkerProofs!LedgersInit DEF PipelineInit
    <1>2. ASSUME PipelineInv, [PipelineNext]_pipelineVars
          PROVE  /\ [Worker!BucketLedger!Next]_Worker!BucketLedger!ledgerVars
                 /\ [Worker!EmotionLedger!Next]_Worker!EmotionLedger!ledgerVars
      <2>1. Worker!WorkerInv /\ [Worker!Next]_Worker!vars
        BY <1>2, EnvironmentStep DEF PipelineInv
      <2>2. WorkerProofs!WorkerInv /\ [WorkerProofs!Next]_WorkerProofs!vars
        BY <2>1, SameWorker, SameAfter
      <2>3. /\ [WorkerProofs!BucketLedger!Next]_WorkerProofs!BucketLedger!ledgerVars
            /\ [WorkerProofs!EmotionLedger!Next]_WorkerProofs!EmotionLedger!ledgerVars
        BY <2>2, WorkerAssumptions, WorkerProofs!BucketLedgerStep, WorkerProofs!EmotionLedgerStep
      <2> QED BY <2>3, SameLedgers
    <1> QED BY <1>1, <1>2, PipelineInvAlways, PTL
            DEF PipelineSpec, Worker!CountedInOrder, Worker!BucketLedger!Spec, Worker!EmotionLedger!Spec

\* Nor does a POST of a stored id, with values that can be stored, end in a 500
\* next to the worker, while the database is up and the client waits (Upsert).
THEOREM RetryNeverFailsAlways == PipelineSpec => RetryNeverFails
    <1>1. ASSUME PipelineInv, [PipelineNext]_pipelineVars, NEW r \in Reqs,
                 Ingest!Duplicate(r), input[r].storable
          PROVE  code'[r] # 500
      <2>1. CASE ApiStep
        <3>1. [IngestProofs!Next]_IngestProofs!vars /\ IngestProofs!IngestInv
          BY <1>1, <2>1, SameIngest DEF ApiStep, PipelineInv
        <3>2. IngestProofs!Duplicate(r)
          BY <1>1 DEF Ingest!Duplicate, IngestProofs!Duplicate
        <3> QED BY <1>1, <3>1, <3>2, IngestAssumptions, IngestProofs!NoErrorStep
      <2>2. CASE UNCHANGED code
        BY <1>1, <2>2 DEF PipelineInv, Ingest!IngestInv, Ingest!NothingYet, Ingest!Duplicate
      <2>3. CASE WorkerStep
        BY <2>2, <2>3, WorkKeepsFeed DEF apiVars
      <2>4. CASE UNCHANGED pipelineVars
        BY <2>2, <2>4 DEF pipelineVars, apiVars
      <2> QED BY <1>1, <2>1, <2>3, <2>4 DEF PipelineNext
    <1>2. PipelineInv /\ [PipelineNext]_pipelineVars =>
            \A r \in Reqs : Ingest!Duplicate(r) /\ input[r].storable => code'[r] # 500
      BY <1>1
    <1> QED BY <1>2, PipelineInvAlways, PTL
            DEF PipelineSpec, RetryNeverFails, Ingest!RetryNeverFails

=============================================================================
