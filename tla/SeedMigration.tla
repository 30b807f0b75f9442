---------------------------- MODULE SeedMigration ----------------------------
(***************************************************************************)
(* How the system comes up (docker-compose.yml, cmd/migrator, cmd/api,     *)
(* cmd/worker, store/db.go): the migrator brings the schema from version 0 *)
(* to 5, and the two services start once a run of it has succeeded.        *)
(*                                                                         *)
(* Migrations 1 to 4 are transactions.  Migration 5, the seed, is not: its *)
(* statements are steps of their own, any of which may fail or be the last *)
(* of its process, and the next run begins it again.  The staging table is *)
(* temporary, so it goes with the session.                                 *)
(***************************************************************************)
EXTENDS TradeDomain, Sequences, FiniteSets, FiniteSetsExt, Functions

CONSTANTS
    Csv,            \* the rows of nevup_seed_dataset.csv
    NewTrades,      \* rows clients may post once the API is up
    Tries,          \* process -> connection attempts before it gives up
    MaxFaults       \* bound: failed calls and lost processes

ASSUME RowsAssumption ==
    /\ \A t \in Csv \cup NewTrades : t.entryAt \in Int /\ t.status \in Statuses
    /\ IsFiniteSet(Csv) /\ Csv \cap NewTrades = {}
    /\ \A t, x \in Csv : t.tradeId = x.tradeId => t = x

ASSUME BoundsAssumption ==
    /\ MaxFaults \in Nat
    /\ \A p \in {"api", "worker", "migrator"} : Tries[p] \in Nat \ {0}

VARIABLES
    version,      \* goose: the newest version recorded
    users, sessions,   \* whether the rows are there
    trades,       \* the trades table, a set of rows
    buckets,      \* behavioral_metrics: <<user, hour>> -> row
    emotions,     \* emotion_win_rates: <<user, emotion, date>> -> row
    staging,      \* the staging table of the migrator's session, NULL without one
    step,         \* next statement of the seed
    proc,         \* process -> "down", "connect", "redis" or "up"
    tries,        \* process -> failed attempts to connect
    completed,    \* whether the migrator's last run succeeded
    counted,      \* history: new trades the worker has counted
    faults

tableVars == <<version, users, sessions, trades, buckets, emotions>>
procVars == <<proc, tries, completed>>
vars == <<tableVars, staging, step, procVars, counted, faults>>

Services == {"api", "worker"}
Processes == Services \cup {"migrator"}

Statements == <<"users", "sessions", "staging", "copy", "trades", "drop",
                "buckets", "emotions", "tilt", "version">>

EmptyMap == [x \in {} |-> 0]

Init ==
    /\ version = 0
    /\ users = FALSE /\ sessions = FALSE
    /\ trades = {} /\ buckets = EmptyMap /\ emotions = EmptyMap
    /\ staging = NULL
    /\ step = 1
    /\ proc = [p \in Processes |-> "down"]
    /\ tries = [p \in Processes |-> 0]
    /\ completed = FALSE
    /\ counted = {}
    /\ faults = 0

-----------------------------------------------------------------------------
(* The aggregates of the seed *)

BucketOf(t)  == <<t.userId, HourOf(t.entryAt)>>
EmotionOf(t) == <<t.userId, t.emotion, DateOf(t.entryAt)>>

Closed(T) == {t \in T : t.status = "closed"}
Felt(T)   == {t \in Closed(T) : t.emotion # NULL}

With(T, outcome) == Cardinality({t \in T : t.outcome = outcome})

\* Unlike the worker's, these counts take a trade without an outcome for
\* neither a win nor a loss.
Metrics(T) ==
    LET rated == {t \in T : t.adherence # NULL}
    IN  [trades    |-> Cardinality(T),
         wins      |-> With(T, "win"),
         losses    |-> With(T, "loss"),
         pnl       |-> MapThenSumSet(LAMBDA t : t.pnl, {t \in T : t.pnl # NULL}),
         adherence |-> IF rated = {} THEN NULL
                       ELSE <<MapThenSumSet(LAMBDA t : t.adherence, rated), Cardinality(rated)>>,
         revenge   |-> Cardinality({t \in T : t.revengeFlag})]

AggregateBuckets(T) ==
    [k \in {BucketOf(t) : t \in Closed(T)} |-> Metrics({t \in Closed(T) : BucketOf(t) = k})]

AggregateEmotions(T) ==
    [k \in {EmotionOf(t) : t \in Felt(T)} |->
        LET S == {t \in Felt(T) : EmotionOf(t) = k}
        IN  [wins |-> With(S, "win"), losses |-> With(S, "loss")]]

\* The orders ORDER BY entry_at may give the closed trades of a session.
Orders(T, s) ==
    LET S == {t \in Closed(T) : t.sessionId = s}
        n == Cardinality(S)
    IN  {f \in Bijection(1..n, S) : \A i, j \in 1..n : i < j => f[i].entryAt <= f[j].entryAt}

\* A user's rows after a row with an outcome, in an ordered session: LAG looks
\* at the session, GROUP BY session_id, user_id parts its users.
Followers(f, u) == {i \in DOMAIN f : i > 1 /\ f[i - 1].outcome # NULL /\ f[i].userId = u}

TiltOf(f, u) == <<Cardinality({i \in Followers(f, u) : f[i - 1].outcome = "loss"}),
                  Cardinality(Followers(f, u))>>

\* The tilts the UPDATE may give a bucket: of the user's sessions whose first
\* follower falls in it, any one.
Tilts(T, k) ==
    LET u == k[1]
    IN  {TiltOf(f, u) : f \in {f \in UNION {Orders(T, t.sessionId) : t \in T} :
            /\ Followers(f, u) # {}
            /\ HourOf(Min({f[i].entryAt : i \in Followers(f, u)})) = k[2]}}

-----------------------------------------------------------------------------
(* The migrator *)

Fault == faults < MaxFaults /\ faults' = faults + 1

\* The process ends, with its session and the staging table.
StopMigrator(ok) ==
    /\ proc' = [proc EXCEPT !["migrator"] = "down"]
    /\ completed' = ok
    /\ staging' = NULL
    /\ step' = 1
    /\ UNCHANGED tries

\* docker compose up.
StartMigrator ==
    /\ proc["migrator"] = "down"
    /\ ~completed
    /\ proc' = [proc EXCEPT !["migrator"] = "connect"]
    /\ tries' = [tries EXCEPT !["migrator"] = 0]
    /\ UNCHANGED <<tableVars, staging, step, completed, counted, faults>>

\* docker compose up, once more: goose finds the version recorded.
RestartMigrator ==
    /\ proc["migrator"] = "down"
    /\ completed
    /\ proc' = [proc EXCEPT !["migrator"] = "connect"]
    /\ tries' = [tries EXCEPT !["migrator"] = 0]
    /\ completed' = FALSE
    /\ UNCHANGED <<tableVars, staging, step, counted, faults>>

\* Migrations 1 to 4.
MigrateSchema ==
    /\ proc["migrator"] = "up" /\ version < 4
    /\ version' = version + 1
    /\ UNCHANGED <<users, sessions, trades, buckets, emotions, staging, step,
                   procVars, counted, faults>>

Seeding(statement) ==
    /\ proc["migrator"] = "up" /\ version = 4
    /\ Statements[step] = statement
    /\ step' = step + 1
    /\ UNCHANGED <<procVars, counted, faults>>

\* Mutant: no ON CONFLICT.
InsertUsersStrict ==
    /\ Seeding("users")
    /\ ~users
    /\ users' = TRUE
    /\ UNCHANGED <<version, sessions, trades, buckets, emotions, staging>>

\* ON CONFLICT DO NOTHING, as for the sessions and the trades.
InsertUsers ==
    /\ Seeding("users")
    /\ users' = TRUE
    /\ UNCHANGED <<version, sessions, trades, buckets, emotions, staging>>

InsertSessions ==
    /\ Seeding("sessions")
    /\ users
    /\ sessions' = TRUE
    /\ UNCHANGED <<version, users, trades, buckets, emotions, staging>>

CreateStaging ==
    /\ Seeding("staging")
    /\ staging = NULL
    /\ staging' = {}
    /\ UNCHANGED tableVars

CopyCsv ==
    /\ Seeding("copy")
    /\ staging' = staging \cup Csv
    /\ UNCHANGED tableVars

InsertTrades ==
    /\ Seeding("trades")
    /\ sessions
    /\ trades' = trades \cup {t \in staging : \A x \in trades : x.tradeId # t.tradeId}
    /\ UNCHANGED <<version, users, sessions, buckets, emotions, staging>>

DropStaging ==
    /\ Seeding("drop")
    /\ staging' = NULL
    /\ UNCHANGED tableVars

\* A bucket there already keeps its tilt.
Replace(k, row) ==
    [trades |-> row.trades, wins |-> row.wins, losses |-> row.losses, pnl |-> row.pnl,
     adherence |-> row.adherence, revenge |-> row.revenge,
     tilt |-> IF k \in DOMAIN buckets THEN buckets[k].tilt ELSE NULL]

\* Mutant: the counters add up, as the worker's upsert does.
UpsertBucketsAdds ==
    LET new == AggregateBuckets(trades)
    IN  /\ Seeding("buckets")
        /\ buckets' = [k \in DOMAIN buckets \cup DOMAIN new |->
                          IF k \in DOMAIN buckets
                          THEN [buckets[k] EXCEPT !.trades = @ + new[k].trades]
                          ELSE Replace(k, new[k])]
        /\ UNCHANGED <<version, users, sessions, trades, emotions, staging>>

\* ON CONFLICT DO UPDATE SET ... = EXCLUDED...
UpsertBuckets ==
    LET new == AggregateBuckets(trades)
    IN  /\ Seeding("buckets")
        /\ buckets' = [k \in DOMAIN buckets \cup DOMAIN new |->
                          IF k \in DOMAIN new THEN Replace(k, new[k]) ELSE buckets[k]]
        /\ UNCHANGED <<version, users, sessions, trades, emotions, staging>>

UpsertEmotions ==
    LET new == AggregateEmotions(trades)
    IN  /\ Seeding("emotions")
        /\ emotions' = [k \in DOMAIN emotions \cup DOMAIN new |->
                           IF k \in DOMAIN new THEN new[k] ELSE emotions[k]]
        /\ UNCHANGED <<version, users, sessions, trades, buckets, staging>>

UpdateTilt ==
    LET hit == {k \in DOMAIN buckets : Tilts(trades, k) # {}}
    IN  /\ Seeding("tilt")
        /\ \E tilt \in [hit -> UNION {Tilts(trades, k) : k \in hit}] :
              /\ \A k \in hit : tilt[k] \in Tilts(trades, k)
              /\ buckets' = [k \in DOMAIN buckets |->
                                IF k \in hit THEN [buckets[k] EXCEPT !.tilt = tilt[k]]
                                             ELSE buckets[k]]
        /\ UNCHANGED <<version, users, sessions, trades, emotions, staging>>

RecordVersion ==
    /\ Seeding("version")
    /\ version' = 5
    /\ UNCHANGED <<users, sessions, trades, buckets, emotions, staging>>

Finish ==
    /\ proc["migrator"] = "up" /\ version = 5
    /\ StopMigrator(TRUE)
    /\ UNCHANGED <<tableVars, counted, faults>>

\* Mutant: an ordinary table.
MigratorFailsKeepsStaging ==
    /\ proc["migrator"] = "up"
    /\ Fault
    /\ proc' = [proc EXCEPT !["migrator"] = "down"]
    /\ step' = 1
    /\ UNCHANGED <<tableVars, staging, tries, completed, counted>>

\* A statement fails, which ends the run, or the process or its session dies.
MigratorFails ==
    /\ proc["migrator"] = "up"
    /\ Fault
    /\ StopMigrator(FALSE)
    /\ UNCHANGED <<tableVars, counted>>

-----------------------------------------------------------------------------
(* The services *)

\* Mutant: condition: service_started.
StartServiceEarly(p) ==
    /\ proc[p] = "down"
    /\ proc["migrator"] # "down" \/ completed
    /\ proc' = [proc EXCEPT ![p] = "connect"]
    /\ tries' = [tries EXCEPT ![p] = 0]
    /\ UNCHANGED <<tableVars, staging, step, completed, counted, faults>>

\* depends_on: service_completed_successfully.
StartService(p) ==
    /\ proc[p] = "down"
    /\ completed
    /\ proc' = [proc EXCEPT ![p] = "connect"]
    /\ tries' = [tries EXCEPT ![p] = 0]
    /\ UNCHANGED <<tableVars, staging, step, completed, counted, faults>>

\* The ping of a new connection answers.
Connect(p) ==
    /\ proc[p] = "connect"
    /\ proc' = [proc EXCEPT ![p] = IF p = "migrator" THEN "up" ELSE "redis"]
    /\ UNCHANGED <<tableVars, staging, step, tries, completed, counted, faults>>

\* It does not: another attempt, after a pause, up to the last.
ConnectFails(p) ==
    /\ proc[p] = "connect"
    /\ Fault
    /\ tries' = [tries EXCEPT ![p] = @ + 1]
    /\ proc' = [proc EXCEPT ![p] = IF tries[p] + 1 < Tries[p] THEN "connect" ELSE "down"]
    /\ UNCHANGED <<tableVars, staging, step, completed, counted>>

\* Redis is pinged once, and the group created.
ConnectRedis(p) ==
    /\ proc[p] = "redis"
    /\ proc' = [proc EXCEPT ![p] = "up"]
    /\ UNCHANGED <<tableVars, staging, step, tries, completed, counted, faults>>

ServiceFails(p) ==
    /\ proc[p] \in {"redis", "up"}
    /\ Fault
    /\ proc' = [proc EXCEPT ![p] = "down"]
    /\ UNCHANGED <<tableVars, staging, step, tries, completed, counted>>

\* The API stores a row (TradeIngest) ...
StoreTrade(t) ==
    /\ proc["api"] = "up"
    /\ \A x \in trades : x.tradeId # t.tradeId
    /\ trades' = trades \cup {t}
    /\ UNCHANGED <<version, users, sessions, buckets, emotions, staging, step,
                   procVars, counted, faults>>

\* ... and the worker adds a closed one to its bucket (MetricsWorker).
CountTrade(t) ==
    LET k == BucketOf(t)
        one == [Metrics({t}) EXCEPT !.trades = 1]
    IN  /\ proc["worker"] = "up"
        /\ t \in Closed(trades) \ counted
        /\ buckets' = [x \in DOMAIN buckets \cup {k} |->
                          IF x # k THEN buckets[x]
                          ELSE IF k \in DOMAIN buckets
                               THEN [buckets[k] EXCEPT !.trades = @ + 1]
                               ELSE Replace(k, one)]
        /\ counted' = counted \cup {t}
        /\ UNCHANGED <<version, users, sessions, trades, emotions, staging, step,
                       procVars, faults>>

-----------------------------------------------------------------------------
Seed ==
    \/ InsertUsers \/ InsertSessions
    \/ CreateStaging \/ CopyCsv \/ InsertTrades \/ DropStaging
    \/ UpsertBuckets \/ UpsertEmotions \/ UpdateTilt
    \/ RecordVersion

Migrator == Connect("migrator") \/ MigrateSchema \/ Seed \/ Finish

Service(p) == StartService(p) \/ Connect(p) \/ ConnectRedis(p)

Next ==
    \/ StartMigrator \/ RestartMigrator
    \/ Migrator \/ MigratorFails
    \/ \E p \in Services : Service(p) \/ ServiceFails(p)
    \/ \E p \in Processes : ConnectFails(p)
    \/ \E t \in NewTrades : StoreTrade(t) \/ CountTrade(t)

Spec == Init /\ [][Next]_vars

\* The processes go on, and somebody runs docker compose up until the system
\* is up; failures end at some point (MaxFaults).
FairSpec ==
    /\ Spec
    /\ WF_vars(StartMigrator) /\ WF_vars(Migrator)
    /\ \A p \in Services : SF_vars(Service(p))

-----------------------------------------------------------------------------
(* Properties *)

\* Types, and that the staging table lives only in a session that is between
\* its creation and its end (005_seed.sql, cmd/migrator).
TypeOK ==
    /\ version \in 0..5
    /\ {users, sessions, completed} \subseteq BOOLEAN
    /\ trades \subseteq Csv \cup NewTrades
    /\ staging # NULL => proc["migrator"] = "up" /\ step \in 4..6 /\ staging \subseteq Csv
    /\ step \in 1..(Len(Statements) + 1)
    /\ proc \in [Processes -> {"down", "connect", "redis", "up"}]
    /\ \A p \in Processes : tries[p] \in 0..Tries[p]
    /\ counted \subseteq NewTrades
    /\ faults \in 0..MaxFaults

\* Once version 5 is recorded, and until the services add to it, the database
\* is what one undisturbed run over the file makes of it, however many runs
\* broke off after whichever statement (the seed's ON CONFLICT clauses).
SeedExact ==
    version = 5 /\ trades = Csv =>
        /\ users /\ sessions
        /\ LET new == AggregateBuckets(Csv)
           IN  /\ DOMAIN buckets = DOMAIN new
               /\ \A k \in DOMAIN new :
                     /\ \A field \in DOMAIN new[k] : buckets[k][field] = new[k][field]
                     /\ IF Tilts(Csv, k) = {} THEN buckets[k].tilt = NULL
                                              ELSE buckets[k].tilt \in Tilts(Csv, k)
        /\ emotions = AggregateEmotions(Csv)

\* No run of the seed takes away or doubles what the worker has counted: a
\* bucket always holds the file's trades and the counted ones, whenever the
\* migrator is run again (depends_on, the version row).
CountsKept ==
    counted # {} =>
        \A k \in DOMAIN buckets :
            buckets[k].trades = Cardinality({t \in Closed(Csv) : BucketOf(t) = k})
                                  + Cardinality({t \in counted : BucketOf(t) = k})

\* Whatever fails on the way, and however the seed broke off, the system can be
\* brought up: every run may begin the seed again (ON CONFLICT, TEMP TABLE,
\* the retries of NewPool and the migrator).
EventuallyServing == <>(\A p \in Services : proc[p] = "up")

-----------------------------------------------------------------------------
(* The inductive invariant behind SeedExact and CountsKept *)

InBucket(T, k) == {t \in T : BucketOf(t) = k}

\* A row of behavioral_metrics, and the fields the seed gives it.
SeedFields == {"trades", "wins", "losses", "pnl", "adherence", "revenge"}

BucketRows == \A k \in DOMAIN buckets : DOMAIN buckets[k] = SeedFields \cup {"tilt"}

BucketsSeeded ==
    LET new == AggregateBuckets(Csv)
    IN  /\ DOMAIN buckets = DOMAIN new
        /\ \A k \in DOMAIN new : \A field \in SeedFields : buckets[k][field] = new[k][field]

TiltsKnown == \A k \in DOMAIN buckets : buckets[k].tilt \in Tilts(Csv, k) \cup {NULL}

TiltsSeeded ==
    \A k \in DOMAIN buckets : Tilts(Csv, k) # {} => buckets[k].tilt \in Tilts(Csv, k)

\* Nothing but the seed writes before version 5 is recorded.
NotYetOpen ==
    /\ ~completed /\ \A p \in Services : proc[p] = "down"
    /\ counted = {} /\ trades \subseteq Csv
    /\ step \in 1..Len(Statements) /\ (version < 4 => step = 1)

\* What this run's statements, or those of runs that broke off, have left.
SoFar ==
    /\ (step > 1 => users) /\ (step > 2 => sessions)
    /\ (step = 4 => staging = {}) /\ (step = 5 => staging = Csv)
    /\ step > 5 => trades = Csv
    /\ DOMAIN buckets \subseteq DOMAIN AggregateBuckets(Csv) /\ TiltsKnown
    /\ step > 7 => BucketsSeeded
    /\ DOMAIN emotions \subseteq DOMAIN AggregateEmotions(Csv)
    /\ step > 8 => emotions = AggregateEmotions(Csv)
    /\ step > 9 => TiltsSeeded

\* What the services may add to the seed once it is recorded.
Added ==
    /\ users /\ sessions /\ Csv \subseteq trades
    /\ counted \subseteq trades /\ IsFiniteSet(counted)
    /\ DOMAIN AggregateBuckets(Csv) \subseteq DOMAIN buckets
    /\ \A t \in counted : BucketOf(t) \in DOMAIN buckets
    /\ \A k \in DOMAIN buckets :
          buckets[k].trades = Cardinality(InBucket(Closed(Csv), k))
                                + Cardinality(InBucket(counted, k))
    /\ counted = {} => BucketsSeeded /\ TiltsKnown /\ TiltsSeeded
    /\ emotions = AggregateEmotions(Csv)

\* What every step keeps: SeedMigrationProofs shows it for all constants.
SeedInv ==
    /\ TypeOK /\ BucketRows
    /\ DOMAIN proc = Processes /\ DOMAIN tries = Processes
    /\ \A p \in Processes : proc[p] = "connect" => tries[p] < Tries[p]
    /\ version < 5 => NotYetOpen /\ SoFar
    /\ version = 5 => Added

==============================================================================
