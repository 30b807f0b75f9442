---------------------------- MODULE TradePipeline ----------------------------
(***************************************************************************)
(* The API server and the analytics worker together, as deployed: two      *)
(* programs that share the trades table, the stream and the overtrading    *)
(* set, and nothing else.                                                  *)
(*                                                                         *)
(* Ingest and Worker are the two components; a step of one leaves what     *)
(* belongs to the other alone.  What MetricsWorker assumes of its          *)
(* environment becomes here something to check of TradeIngest.             *)
(***************************************************************************)
EXTENDS TradeDomain, Sequences, FiniteSets

CONSTANTS
    Reqs, Users, Accounts, Sessions, Payloads, SeedTrades, MaxCrashes,        \* the API's
    BatchSize, RatingWindow, MaxTradesPerWindow,
    SeedBuckets, SeedEmotions, MaxStops,                            \* the worker's
    DbMayFail, RedisMayFail, MaxEvents

VARIABLES
    trades, stream, tradesTs,                                       \* shared
    lastLoss, pc, input, flag, result, code, pending, cancelled, crashes,
    cursor, pel, ws, at, step, scratch, buckets, emotions, overtrading, stops

apiVars == <<lastLoss, pc, input, flag, result, code, pending, cancelled, crashes>>
workerVars == <<cursor, pel, ws, at, step, scratch, buckets, emotions, overtrading, stops>>

Ingest == INSTANCE TradeIngest

\* Each request publishes at most once more than the retries the bound allows.
Worker == INSTANCE MetricsWorker WITH
              Rows <- Ingest!Rows,
              MaxEvents <- MaxEvents + Cardinality(Reqs)

\* Every user has a body the API accepts and the table takes, or a row in the
\* seed.
ASSUME UsersAssumption == Users = Worker!Traders

ASSUME BoundsAssumption ==
    /\ IsFiniteSet(Reqs)
    /\ {MaxEvents, MaxCrashes, MaxStops} \subseteq Nat
    /\ {BatchSize, RatingWindow, MaxTradesPerWindow} \subseteq Nat \ {0}

\* Instants and amounts, of bodies and of the seed's rows, are numbers; the
\* schema keeps the ratings of the latter between 1 and 5.
ASSUME BodiesAssumption ==
    \A p \in Payloads :
        /\ p.userId \in Users
        /\ {p.entryAt, p.entryPrice, p.quantity} \subseteq Int
        /\ {p.exitAt, p.exitPrice} \subseteq Int \cup {NULL}

ASSUME SeedRowsAssumption ==
    /\ IsFiniteSet(DOMAIN SeedTrades)
    /\ \A t \in DOMAIN SeedTrades :
          LET row == SeedTrades[t]
          IN  /\ row.tradeId = t /\ row.userId \in Users
              /\ row.entryAt \in Int
              /\ {row.exitAt, row.pnl} \subseteq Int \cup {NULL}
              /\ row.adherence \in 1..5 \cup {NULL}

\* An absent value is none of the things that are looked up or counted.
ASSUME NullAssumption ==
    \A row \in Ingest!Rows :
        NULL \notin {row, Worker!BucketKey(EventOf(row)), Worker!EmotionKey(EventOf(row))}

ASSUME SeedMetricsAssumption ==
    /\ \A k \in DOMAIN SeedBuckets :
          LET b == SeedBuckets[k]
          IN  /\ Worker!IsBucket(b)
              /\ b.adherence # NULL => Worker!IsAverage(b.adherence)
              /\ b.tilt # NULL => Worker!IsShare(b.tilt)
    /\ \A k \in DOMAIN SeedEmotions : SeedEmotions[k] \in [wins : Nat, losses : Nat]

PipelineInit == Ingest!Init /\ Worker!Init

ApiStep == Ingest!Next /\ UNCHANGED workerVars

WorkerStep == Worker!Work /\ UNCHANGED apiVars

PipelineNext == ApiStep \/ WorkerStep

pipelineVars == <<trades, stream, tradesTs, apiVars, workerVars>>

PipelineSpec == PipelineInit /\ [][PipelineNext]_pipelineVars

-----------------------------------------------------------------------------
(* Properties *)

\* The API server is the environment the worker was specified against: it
\* inserts, publishes and adds to the window as MetricsWorker lets it, so what
\* holds of the worker holds of the two together (trade.go, worker.go).
WorkerSpec == Worker!Spec

\* A count in a bucket stands for a POST that stored or found a closed trade of
\* that hour: no entry of the stream, redelivered or read again, is counted
\* more often than its trade was posted (XADD, ReadGroup, UpsertBucket).
Posts(k) ==
    {r \in Reqs : /\ input[r] \in Payloads
                  /\ result[r] # NULL
                  /\ result[r].status = "closed"
                  /\ Worker!BucketKey(EventOf(result[r])) = k}

CountsWithinPosts ==
    ~RedisMayFail =>
        \A k \in DOMAIN buckets :
            buckets[k].trades <= Worker!SeedCount(k) + Cardinality(Posts(k))

\* From the last-loss key to the counters: a revenge count beyond the seed's
\* comes from a stored trade of that bucket whose flag a stored losing close
\* justifies (CheckRevenge, EventOf, CountOf).
SeedRevenge(k) == IF k \in DOMAIN SeedBuckets THEN SeedBuckets[k].revenge ELSE 0

RevengeCountBacked ==
    \A k \in DOMAIN buckets :
        buckets[k].revenge > SeedRevenge(k) =>
            \E t \in DOMAIN trades :
                /\ trades[t].revengeFlag
                /\ Worker!BucketKey(EventOf(trades[t])) = k
                /\ t \notin DOMAIN SeedTrades =>
                      \E s \in DOMAIN trades : Ingest!Justifies(trades[s], trades[t])

\* What TradeIngest promises a client that sends a trade once more, with the
\* worker beside it (see TradeIngest, Upsert).
RetryNeverFails == Ingest!RetryNeverFails

\* Without failures and stops, an idle worker has every delivered event in
\* every counter, and nothing else (see MetricsWorker).
CountsExact == Worker!CountsExact

-----------------------------------------------------------------------------
(* What the documents promise and the code does not keep *)

\* "Idempotent on tradeId": a trade adds at most one to its bucket, though it
\* is published once per POST (handler/trade.go:101-134).
CountedOncePerTrade ==
    \A k \in DOMAIN buckets :
        buckets[k].trades <= Worker!SeedCount(k) +
            Cardinality({t \in DOMAIN trades \ DOMAIN SeedTrades :
                            /\ trades[t].status = "closed"
                            /\ Worker!BucketKey(EventOf(trades[t])) = k})

-----------------------------------------------------------------------------
(* The inductive invariant *)

\* The requests that have their one XADD, retries aside, behind them ...
Published ==
    {r \in Reqs : pc[r] \in {"respond", "done", "crashed"} /\ "xadd" \notin pending[r]}

\* ... bound the stream, as far as go-redis retries are bounded ...
StreamBounded == Len(stream) <= MaxEvents + Cardinality(Published)

\* ... and, when it does not retry, the entries of each bucket.
EntriesFromPosts ==
    ~RedisMayFail =>
        \A k \in Worker!BucketKeys :
            Cardinality(Worker!Hits(k, DOMAIN stream)) <= Cardinality(Published \cap Posts(k))

\* What every step of the two programs keeps: what each keeps by itself, and
\* what binds the stream to the requests.  TradePipelineProofs shows it for all
\* constants (trade.go, worker.go).
PipelineInv ==
    /\ Ingest!IngestInv
    /\ Worker!WorkerInv
    /\ StreamBounded /\ EntriesFromPosts

=============================================================================
