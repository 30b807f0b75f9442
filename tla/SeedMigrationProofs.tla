-------------------------- MODULE SeedMigrationProofs --------------------------
(***************************************************************************)
(* Theorems about SeedMigration, for all files, new trades, numbers of     *)
(* attempts and faults.                                                    *)
(***************************************************************************)
EXTENDS SeedMigration, FiniteSetTheorems, TLAPS

-----------------------------------------------------------------------------
(* Lemmas about the operators *)

LEMMA MetricsFields ==
    ASSUME NEW T
    PROVE  DOMAIN Metrics(T) = SeedFields /\ Metrics(T).trades = Cardinality(T)
    BY DEF Metrics, SeedFields

LEMMA ReplaceFields ==
    ASSUME NEW k, NEW row
    PROVE  /\ DOMAIN Replace(k, row) = SeedFields \cup {"tilt"}
           /\ \A field \in SeedFields : Replace(k, row)[field] = row[field]
           /\ Replace(k, row).tilt = IF k \in DOMAIN buckets THEN buckets[k].tilt ELSE NULL
    BY DEF Replace, SeedFields

\* A new bucket and a bucket of the seed hold as many trades as fall in them.
LEMMA BaseCounts ==
    LET new == AggregateBuckets(Csv)
    IN  /\ \A k \in DOMAIN new : new[k].trades = Cardinality(InBucket(Closed(Csv), k))
        /\ \A k : k \notin DOMAIN new => InBucket(Closed(Csv), k) = {}
    <1>1. \A k \in DOMAIN AggregateBuckets(Csv) :
             AggregateBuckets(Csv)[k] = Metrics(InBucket(Closed(Csv), k))
      BY DEF AggregateBuckets, InBucket
    <1>2. DOMAIN AggregateBuckets(Csv) = {BucketOf(t) : t \in Closed(Csv)}
      BY DEF AggregateBuckets
    <1> QED BY <1>1, <1>2, MetricsFields DEF InBucket

\* The file is finite, and so are its trades in a bucket.
LEMMA FilesFinite ==
    ASSUME NEW k
    PROVE  Cardinality(InBucket(Closed(Csv), k)) \in Nat
    <1>1. IsFiniteSet(InBucket(Closed(Csv), k))
      BY RowsAssumption, FS_Subset DEF RowsAssumption, InBucket, Closed
    <1> QED BY <1>1, FS_CardinalityType

\* The statements by number.
LEMMA StatementNumbers ==
    /\ Len(Statements) = 10
    /\ \A n \in 1..10 :
          /\ Statements[n] = "users" <=> n = 1
          /\ Statements[n] = "sessions" <=> n = 2
          /\ Statements[n] = "staging" <=> n = 3
          /\ Statements[n] = "copy" <=> n = 4
          /\ Statements[n] = "trades" <=> n = 5
          /\ Statements[n] = "drop" <=> n = 6
          /\ Statements[n] = "buckets" <=> n = 7
          /\ Statements[n] = "emotions" <=> n = 8
          /\ Statements[n] = "tilt" <=> n = 9
          /\ Statements[n] = "version" <=> n = 10
    <1>1. /\ Len(Statements) = 10
          /\ Statements[1] = "users" /\ Statements[2] = "sessions" /\ Statements[3] = "staging"
          /\ Statements[4] = "copy" /\ Statements[5] = "trades" /\ Statements[6] = "drop"
          /\ Statements[7] = "buckets" /\ Statements[8] = "emotions" /\ Statements[9] = "tilt"
          /\ Statements[10] = "version"
      BY DEF Statements
    <1>2. \A n \in 1..10 : n \in {1, 2, 3, 4, 5, 6, 7, 8, 9, 10}
      OBVIOUS
    <1> QED BY <1>1, <1>2

\* The rows the seed inserts are the ones missing, since ids are unique.
LEMMA AllInserted ==
    ASSUME NEW T, T \subseteq Csv
    PROVE  T \cup {t \in Csv : \A x \in T : x.tradeId # t.tradeId} = Csv
    BY RowsAssumption DEF RowsAssumption

-----------------------------------------------------------------------------
(* The processes *)

\* A statement of the seed is a step of an unfinished run.
LEMMA AtStatement ==
    ASSUME SeedInv, NEW s, Seeding(s)
    PROVE  /\ version = 4 /\ proc["migrator"] = "up"
           /\ step \in 1..10 /\ Statements[step] = s /\ step' = step + 1
           /\ UNCHANGED <<proc, tries, completed, counted, faults>>
           /\ NotYetOpen /\ SoFar
    BY StatementNumbers DEF SeedInv, NotYetOpen, Seeding, procVars

\* Processes, connection attempts and faults.
Running ==
    /\ completed \in BOOLEAN
    /\ proc \in [Processes -> {"down", "connect", "redis", "up"}]
    /\ DOMAIN tries = Processes
    /\ \A p \in Processes : tries[p] \in 0..Tries[p]
    /\ \A p \in Processes : proc[p] = "connect" => tries[p] < Tries[p]
    /\ faults \in 0..MaxFaults

LEMMA RunningStep ==
    ASSUME SeedInv, [Next]_vars
    PROVE  Running'
    <1> USE DEF Running, Processes, Services
    <1>0. Running
      BY DEF SeedInv, TypeOK
    <1>1. \A p \in Processes : Tries[p] \in Nat /\ 0 < Tries[p] /\ 0 \in 0..Tries[p]
      BY BoundsAssumption
    <1>2. Fault => faults' \in 0..MaxFaults
      BY <1>0, BoundsAssumption DEF Fault
    <1>3. ASSUME StartMigrator \/ RestartMigrator PROVE Running'
      <2>1. /\ proc' = [proc EXCEPT !["migrator"] = "connect"]
            /\ tries' = [tries EXCEPT !["migrator"] = 0] /\ faults' = faults
        BY <1>3 DEF StartMigrator, RestartMigrator
      <2>2. completed' \in BOOLEAN
        BY <1>0, <1>3 DEF StartMigrator, RestartMigrator
      <2> QED BY <1>0, <1>1, <2>1, <2>2
    <1>4. ASSUME MigrateSchema \/ Seed PROVE Running'
      BY <1>0, <1>4 DEF MigrateSchema, Seed, Seeding, InsertUsers, InsertSessions, CreateStaging,
              CopyCsv, InsertTrades, DropStaging, UpsertBuckets, UpsertEmotions, UpdateTilt,
              RecordVersion, procVars
    <1>5. ASSUME Finish PROVE Running'
      BY <1>0, <1>5 DEF Finish, StopMigrator
    <1>6. ASSUME MigratorFails PROVE Running'
      BY <1>0, <1>2, <1>6 DEF MigratorFails, StopMigrator
    <1>7. ASSUME NEW p \in Processes, Connect(p) PROVE Running'
      BY <1>0, <1>7 DEF Connect
    <1>8. ASSUME NEW p \in Processes, ConnectFails(p) PROVE Running'
      <2>1. tries[p] \in Nat /\ tries[p] < Tries[p] /\ Tries[p] \in Nat
        BY <1>0, <1>1, <1>8 DEF ConnectFails
      <2>2. tries[p] + 1 \in 0..Tries[p]
        BY <2>1
      <2>3. faults' \in 0..MaxFaults
        BY <1>2, <1>8 DEF ConnectFails
      <2> QED BY <1>0, <1>8, <2>2, <2>3 DEF ConnectFails
    <1>9. ASSUME NEW p \in Services, StartService(p) \/ ConnectRedis(p) PROVE Running'
      BY <1>0, <1>1, <1>9 DEF StartService, ConnectRedis
    <1>10. ASSUME NEW p \in Services, ServiceFails(p) PROVE Running'
      BY <1>0, <1>2, <1>10 DEF ServiceFails
    <1>11. ASSUME NEW t \in NewTrades, StoreTrade(t) \/ CountTrade(t) PROVE Running'
      BY <1>0, <1>11 DEF StoreTrade, CountTrade, procVars
    <1>12. CASE UNCHANGED vars
      BY <1>0, <1>12 DEF vars, procVars
    <1> QED BY <1>3, <1>4, <1>5, <1>6, <1>7, <1>8, <1>9, <1>10, <1>11, <1>12
         DEF Next, Migrator, Service

-----------------------------------------------------------------------------
(* The tables *)

StagingType ==
    staging # NULL => proc["migrator"] = "up" /\ step \in 4..6 /\ staging \subseteq Csv

\* The rest of the invariant.
Tables ==
    /\ version \in 0..5 /\ {users, sessions} \subseteq BOOLEAN
    /\ trades \subseteq Csv \cup NewTrades
    /\ step \in 1..(Len(Statements) + 1) /\ StagingType
    /\ counted \subseteq NewTrades
    /\ BucketRows
    /\ version < 5 => NotYetOpen /\ SoFar
    /\ version = 5 => Added

LEMMA TwoParts == SeedInv <=> Running /\ Tables
    BY DEF SeedInv, TypeOK, Running, Tables, StagingType

\* A statement before the last leaves a run in its middle.
LEMMA MiddleStep ==
    ASSUME SeedInv, NEW s, Seeding(s), s # "version",
           version' = version, {users, sessions}' \subseteq BOOLEAN, trades' \subseteq Csv,
           StagingType', BucketRows', SoFar'
    PROVE  Tables'
    <1>1. /\ version = 4 /\ step \in 1..9 /\ step' = step + 1
          /\ UNCHANGED <<proc, completed, counted>> /\ NotYetOpen
      BY AtStatement, StatementNumbers
    <1>2. NotYetOpen'
      BY <1>1, StatementNumbers DEF NotYetOpen
    <1>3. counted \subseteq NewTrades
      BY DEF SeedInv, TypeOK
    <1> QED BY <1>1, <1>2, <1>3, StatementNumbers DEF Tables

\* The statements before the trades, and DROP.
LEMMA LoadStep ==
    ASSUME SeedInv, InsertUsers \/ InsertSessions \/ CreateStaging \/ CopyCsv \/ DropStaging
    PROVE  Tables'
    <1>0. /\ {users, sessions} \subseteq BOOLEAN /\ trades \subseteq Csv \cup NewTrades
          /\ StagingType /\ BucketRows
      BY DEF SeedInv, TypeOK, StagingType
    <1>1. UNCHANGED <<version, trades, buckets, emotions>>
      BY DEF InsertUsers, InsertSessions, CreateStaging, CopyCsv, DropStaging, tableVars
    <1>2. BucketRows' /\ (TiltsKnown => TiltsKnown') /\ (TiltsSeeded => TiltsSeeded')
          /\ (BucketsSeeded => BucketsSeeded')
      BY <1>0, <1>1 DEF BucketRows, TiltsKnown, TiltsSeeded, BucketsSeeded
    <1>3. CASE InsertUsers
      <2>1. Seeding("users") /\ users' = TRUE /\ UNCHANGED <<sessions, staging>>
        BY <1>3 DEF InsertUsers
      <2>2. /\ step = 1 /\ step' = 2 /\ NotYetOpen /\ SoFar /\ UNCHANGED <<proc>>
        BY <2>1, AtStatement, StatementNumbers
      <2>3. SoFar' /\ StagingType'
        BY <1>0, <1>1, <1>2, <2>1, <2>2 DEF SoFar, StagingType
      <2> QED BY <1>0, <1>1, <1>2, <2>1, <2>2, <2>3, MiddleStep DEF NotYetOpen
    <1>4. CASE InsertSessions
      <2>1. Seeding("sessions") /\ sessions' = TRUE /\ UNCHANGED <<users, staging>>
        BY <1>4 DEF InsertSessions
      <2>2. /\ step = 2 /\ step' = 3 /\ NotYetOpen /\ SoFar /\ UNCHANGED <<proc>>
        BY <2>1, AtStatement, StatementNumbers
      <2>3. SoFar' /\ StagingType'
        BY <1>0, <1>1, <1>2, <2>1, <2>2 DEF SoFar, StagingType
      <2> QED BY <1>0, <1>1, <1>2, <2>1, <2>2, <2>3, MiddleStep DEF NotYetOpen
    <1>5. CASE CreateStaging
      <2>1. Seeding("staging") /\ staging' = {} /\ UNCHANGED <<users, sessions>>
        BY <1>5 DEF CreateStaging, tableVars
      <2>2. /\ step = 3 /\ step' = 4 /\ NotYetOpen /\ SoFar /\ UNCHANGED <<proc>>
            /\ proc["migrator"] = "up"
        BY <2>1, AtStatement, StatementNumbers
      <2>3. SoFar' /\ StagingType'
        BY <1>0, <1>1, <1>2, <2>1, <2>2 DEF SoFar, StagingType
      <2> QED BY <1>0, <1>1, <1>2, <2>1, <2>2, <2>3, MiddleStep DEF NotYetOpen
    <1>6. CASE CopyCsv
      <2>1. Seeding("copy") /\ staging' = staging \cup Csv /\ UNCHANGED <<users, sessions>>
        BY <1>6 DEF CopyCsv, tableVars
      <2>2. /\ step = 4 /\ step' = 5 /\ NotYetOpen /\ SoFar /\ UNCHANGED <<proc>>
            /\ proc["migrator"] = "up"
        BY <2>1, AtStatement, StatementNumbers
      <2>3. staging' = Csv
        BY <2>1, <2>2 DEF SoFar
      <2>4. SoFar' /\ StagingType'
        BY <1>0, <1>1, <1>2, <2>1, <2>2, <2>3 DEF SoFar, StagingType
      <2> QED BY <1>0, <1>1, <1>2, <2>1, <2>2, <2>4, MiddleStep DEF NotYetOpen
    <1>7. CASE DropStaging
      <2>1. Seeding("drop") /\ staging' = NULL /\ UNCHANGED <<users, sessions>>
        BY <1>7 DEF DropStaging, tableVars
      <2>2. /\ step = 6 /\ step' = 7 /\ NotYetOpen /\ SoFar /\ UNCHANGED <<proc>>
        BY <2>1, AtStatement, StatementNumbers
      <2>3. SoFar' /\ StagingType'
        BY <1>0, <1>1, <1>2, <2>1, <2>2 DEF SoFar, StagingType
      <2> QED BY <1>0, <1>1, <1>2, <2>1, <2>2, <2>3, MiddleStep DEF NotYetOpen
    <1> QED BY <1>3, <1>4, <1>5, <1>6, <1>7

LEMMA InsertTradesStep ==
    ASSUME SeedInv, InsertTrades
    PROVE  Tables'
    <1>0. {users, sessions} \subseteq BOOLEAN /\ StagingType /\ BucketRows
      BY DEF SeedInv, TypeOK, StagingType
    <1>1. /\ Seeding("trades")
          /\ trades' = trades \cup {t \in staging : \A x \in trades : x.tradeId # t.tradeId}
          /\ UNCHANGED <<version, users, sessions, buckets, emotions, staging>>
      BY DEF InsertTrades
    <1>2. /\ step = 5 /\ step' = 6 /\ NotYetOpen /\ SoFar /\ UNCHANGED <<proc>>
      BY <1>1, AtStatement, StatementNumbers
    <1>3. trades' = Csv
      BY <1>1, <1>2, AllInserted DEF NotYetOpen, SoFar
    <1>4. TiltsKnown' /\ BucketRows'
      BY <1>0, <1>1, <1>2 DEF SoFar, BucketRows, TiltsKnown
    <1>5. SoFar'
      BY <1>1, <1>2, <1>3, <1>4 DEF SoFar
    <1>6. StagingType'
      BY <1>0, <1>1, <1>2 DEF StagingType
    <1> QED BY <1>0, <1>1, <1>3, <1>4, <1>5, <1>6, MiddleStep

LEMMA UpsertBucketsStep ==
    ASSUME SeedInv, UpsertBuckets
    PROVE  Tables'
    <1> DEFINE new == AggregateBuckets(Csv)
    <1>0. {users, sessions} \subseteq BOOLEAN /\ StagingType /\ BucketRows
      BY DEF SeedInv, TypeOK, StagingType
    <1>1. /\ Seeding("buckets")
          /\ UNCHANGED <<version, users, sessions, trades, emotions, staging>>
      BY DEF UpsertBuckets
    <1>2. /\ step = 7 /\ step' = 8 /\ NotYetOpen /\ SoFar /\ UNCHANGED <<proc>>
      BY <1>1, AtStatement, StatementNumbers
    <1>3. /\ DOMAIN buckets' = DOMAIN new
          /\ \A k \in DOMAIN new : buckets'[k] = Replace(k, new[k])
      <2>1. trades = Csv /\ DOMAIN buckets \subseteq DOMAIN new
        BY <1>2 DEF SoFar
      <2> QED BY <2>1 DEF UpsertBuckets
    <1> HIDE DEF new
    <1>4. BucketRows'
      BY <1>3, ReplaceFields DEF BucketRows
    <1>5. \A k \in DOMAIN new : \A field \in SeedFields : buckets'[k][field] = new[k][field]
      BY <1>3, ReplaceFields
    <1>6. TiltsKnown'
      BY <1>2, <1>3, ReplaceFields DEF SoFar, TiltsKnown
    <1>7. BucketsSeeded'
      BY <1>3, <1>5 DEF BucketsSeeded, new
    <1>8. SoFar' /\ StagingType'
      BY <1>0, <1>1, <1>2, <1>3, <1>6, <1>7 DEF SoFar, StagingType, new
    <1> QED BY <1>0, <1>1, <1>2, <1>4, <1>8, MiddleStep DEF NotYetOpen

LEMMA UpsertEmotionsStep ==
    ASSUME SeedInv, UpsertEmotions
    PROVE  Tables'
    <1> DEFINE new == AggregateEmotions(Csv)
    <1>0. {users, sessions} \subseteq BOOLEAN /\ StagingType /\ BucketRows
      BY DEF SeedInv, TypeOK, StagingType
    <1>1. /\ Seeding("emotions")
          /\ UNCHANGED <<version, users, sessions, trades, buckets, staging>>
      BY DEF UpsertEmotions
    <1>2. /\ step = 8 /\ step' = 9 /\ NotYetOpen /\ SoFar /\ UNCHANGED <<proc>>
      BY <1>1, AtStatement, StatementNumbers
    <1>3. emotions' = new
      <2>1. trades = Csv /\ DOMAIN emotions \subseteq DOMAIN new
        BY <1>2 DEF SoFar
      <2>2. emotions' = [k \in DOMAIN new |-> new[k]]
        BY <2>1 DEF UpsertEmotions
      <2> QED BY <2>2 DEF AggregateEmotions
    <1>4. SoFar' /\ StagingType' /\ BucketRows'
      BY <1>0, <1>1, <1>2, <1>3 DEF SoFar, StagingType, BucketRows, TiltsKnown, BucketsSeeded
    <1> QED BY <1>0, <1>1, <1>2, <1>4, MiddleStep DEF NotYetOpen

LEMMA UpdateTiltStep ==
    ASSUME SeedInv, UpdateTilt
    PROVE  Tables'
    <1>0. {users, sessions} \subseteq BOOLEAN /\ StagingType /\ BucketRows
      BY DEF SeedInv, TypeOK, StagingType
    <1>1. /\ Seeding("tilt")
          /\ UNCHANGED <<version, users, sessions, trades, emotions, staging>>
      BY DEF UpdateTilt
    <1>2. /\ step = 9 /\ step' = 10 /\ NotYetOpen /\ SoFar /\ UNCHANGED <<proc>>
      BY <1>1, AtStatement, StatementNumbers
    <1>3. PICK tilt :
             /\ \A k \in DOMAIN buckets : Tilts(Csv, k) # {} => tilt[k] \in Tilts(Csv, k)
             /\ buckets' = [k \in DOMAIN buckets |->
                               IF Tilts(Csv, k) # {} THEN [buckets[k] EXCEPT !.tilt = tilt[k]]
                                                     ELSE buckets[k]]
      <2>1. trades = Csv
        BY <1>2 DEF SoFar
      <2> QED BY <2>1 DEF UpdateTilt
    <1>4. \A k \in DOMAIN buckets :
             /\ DOMAIN buckets'[k] = DOMAIN buckets[k]
             /\ \A field \in SeedFields : buckets'[k][field] = buckets[k][field]
             /\ Tilts(Csv, k) # {} => buckets'[k].tilt \in Tilts(Csv, k)
             /\ Tilts(Csv, k) = {} => buckets'[k].tilt = buckets[k].tilt
      BY <1>0, <1>3 DEF BucketRows, SeedFields
    <1>5. DOMAIN buckets' = DOMAIN buckets
      BY <1>3
    <1>6. BucketRows' /\ TiltsKnown' /\ TiltsSeeded'
      BY <1>0, <1>2, <1>4, <1>5 DEF BucketRows, TiltsKnown, TiltsSeeded, SoFar
    <1>7. BucketsSeeded'
      BY <1>2, <1>4, <1>5 DEF BucketsSeeded, SoFar
    <1>8. SoFar' /\ StagingType'
      BY <1>0, <1>1, <1>2, <1>5, <1>6, <1>7 DEF SoFar, StagingType
    <1> QED BY <1>0, <1>1, <1>2, <1>6, <1>8, MiddleStep DEF NotYetOpen

\* The last statement: the database is the seed's, and the services may start.
LEMMA RecordVersionStep ==
    ASSUME SeedInv, RecordVersion
    PROVE  Tables'
    <1>0. {users, sessions} \subseteq BOOLEAN /\ StagingType /\ BucketRows
      BY DEF SeedInv, TypeOK, StagingType
    <1>1. /\ Seeding("version") /\ version' = 5
          /\ UNCHANGED <<users, sessions, trades, buckets, emotions, staging>>
      BY DEF RecordVersion
    <1>2. /\ step = 10 /\ step' = 11 /\ NotYetOpen /\ SoFar /\ UNCHANGED <<proc, counted>>
      BY <1>1, AtStatement, StatementNumbers
    <1>3. trades = Csv /\ counted = {} /\ BucketsSeeded /\ TiltsKnown /\ TiltsSeeded
      BY <1>2 DEF NotYetOpen, SoFar
    <1>4. \A k \in DOMAIN buckets :
             buckets[k].trades = Cardinality(InBucket(Closed(Csv), k))
                                   + Cardinality(InBucket(counted, k))
      <2>1. \A k \in DOMAIN buckets : buckets[k].trades = AggregateBuckets(Csv)[k].trades
        BY <1>3 DEF BucketsSeeded, SeedFields
      <2>2. \A k \in DOMAIN buckets : buckets[k].trades = Cardinality(InBucket(Closed(Csv), k))
        BY <1>3, <2>1, BaseCounts DEF BucketsSeeded
      <2>3. \A k : Cardinality(InBucket(counted, k)) = 0
        BY <1>3, FS_EmptySet DEF InBucket
      <2>4. \A k : Cardinality(InBucket(Closed(Csv), k)) \in Nat
        BY FilesFinite
      <2> QED BY <2>2, <2>3, <2>4
    <1>5. BucketsSeeded' /\ TiltsKnown' /\ TiltsSeeded' /\ BucketRows'
      BY <1>0, <1>1, <1>3 DEF BucketsSeeded, TiltsKnown, TiltsSeeded, BucketRows
    <1>6. Added'
      <2>1. users /\ sessions /\ emotions = AggregateEmotions(Csv)
        BY <1>2 DEF SoFar
      <2>2. DOMAIN AggregateBuckets(Csv) \subseteq DOMAIN buckets
        BY <1>3 DEF BucketsSeeded
      <2>3. IsFiniteSet(counted) /\ counted \subseteq trades
        BY <1>3, FS_EmptySet
      <2> QED BY <1>1, <1>2, <1>3, <1>4, <1>5, <2>1, <2>2, <2>3 DEF Added
    <1>7. StagingType'
      BY <1>0, <1>1, <1>2 DEF StagingType
    <1>8. trades' \subseteq Csv \cup NewTrades /\ counted' \subseteq NewTrades
      BY <1>1, <1>2, <1>3
    <1> QED BY <1>0, <1>1, <1>2, <1>5, <1>6, <1>7, <1>8, StatementNumbers DEF Tables

LEMMA MigrateSchemaStep ==
    ASSUME SeedInv, MigrateSchema
    PROVE  Tables'
    <1>1. /\ version < 4 /\ version' = version + 1
          /\ UNCHANGED <<users, sessions, trades, buckets, emotions, staging, step, proc,
                         completed, counted>>
      BY DEF MigrateSchema, procVars
    <1>2. Tables /\ NotYetOpen /\ SoFar /\ version \in 0..3
      BY <1>1, TwoParts DEF Tables
    <1>3. version' \in 0..4
      BY <1>1, <1>2
    <1>4. StagingType' /\ BucketRows' /\ TiltsKnown'
      BY <1>1, <1>2 DEF Tables, SoFar, StagingType, BucketRows, TiltsKnown
    <1>5. NotYetOpen'
      BY <1>1, <1>2 DEF NotYetOpen
    <1>6. SoFar'
      <2>1. step = 1 /\ step' = 1
        BY <1>1, <1>2 DEF NotYetOpen
      <2> QED BY <1>1, <1>2, <1>4, <2>1 DEF SoFar
    <1> QED BY <1>1, <1>2, <1>3, <1>4, <1>5, <1>6 DEF Tables

\* The processes come and go without touching the tables.
LEMMA QuietStep ==
    ASSUME SeedInv, UNCHANGED <<tableVars, counted>>,
           (step' = step /\ staging' = staging) \/ (step' = 1 /\ staging' = NULL),
           staging' # NULL => proc'["migrator"] = "up",
           version < 5 => ~completed' /\ \A p \in Services : proc'[p] = "down"
    PROVE  Tables'
    <1>1. Tables
      BY TwoParts
    <1>2. UNCHANGED <<version, users, sessions, trades, buckets, emotions, counted>>
      BY DEF tableVars
    <1>3. StagingType'
      BY <1>1 DEF Tables, StagingType
    <1>4. /\ BucketRows' <=> BucketRows
          /\ TiltsKnown' <=> TiltsKnown
          /\ BucketsSeeded' <=> BucketsSeeded
          /\ TiltsSeeded' <=> TiltsSeeded
      BY <1>2 DEF BucketRows, TiltsKnown, BucketsSeeded, TiltsSeeded
    <1>5. version = 5 => Added'
      BY <1>1, <1>2, <1>4 DEF Tables, Added
    <1>6. ASSUME version < 5 PROVE NotYetOpen' /\ SoFar'
      <2>1. NotYetOpen /\ SoFar
        BY <1>1, <1>6 DEF Tables
      <2>2. NotYetOpen'
        BY <1>2, <1>6, <2>1, StatementNumbers DEF NotYetOpen
      <2>3. TiltsKnown' /\ (BucketsSeeded => BucketsSeeded') /\ (TiltsSeeded => TiltsSeeded')
        BY <1>4, <2>1 DEF SoFar
      <2>4. step \in 1..10 /\ {users, sessions} \subseteq BOOLEAN
        BY <1>1, <2>1, StatementNumbers DEF Tables, NotYetOpen
      <2>5. CASE step' = step /\ staging' = staging
        BY <1>2, <2>1, <2>2, <2>3, <2>4, <2>5 DEF SoFar
      <2>6. CASE step' = 1
        BY <1>2, <2>1, <2>2, <2>3, <2>4, <2>6 DEF SoFar
      <2> QED BY <2>5, <2>6
    <1>7. step' \in 1..(Len(Statements) + 1)
      BY <1>1, StatementNumbers DEF Tables
    <1> QED BY <1>1, <1>2, <1>3, <1>4, <1>5, <1>6, <1>7 DEF Tables

\* Every step of a process that touches no table.
LEMMA ProcessStep ==
    ASSUME SeedInv,
           \/ StartMigrator \/ RestartMigrator \/ Finish \/ MigratorFails \/ UNCHANGED vars
           \/ \E p \in Services : Service(p) \/ ServiceFails(p)
           \/ \E p \in Processes : Connect(p) \/ ConnectFails(p)
    PROVE  Tables'
    <1>0. /\ StagingType /\ DOMAIN proc = Processes
          /\ version < 5 => ~completed /\ \A p \in Services : proc[p] = "down"
      BY DEF SeedInv, TypeOK, StagingType, NotYetOpen
    <1>1. UNCHANGED <<tableVars, counted>>
      BY DEF StartMigrator, RestartMigrator, Finish, MigratorFails, vars, Service, ServiceFails,
             StartService, Connect, ConnectRedis, ConnectFails
    <1>2. CASE Finish \/ MigratorFails
      <2>1. /\ step' = 1 /\ staging' = NULL
            /\ proc' = [proc EXCEPT !["migrator"] = "down"]
            /\ version = 5 \/ ~completed'
        BY <1>2 DEF Finish, MigratorFails, StopMigrator
      <2>2. \A p \in Services : proc'[p] = proc[p]
        BY <1>0, <2>1 DEF Services, Processes
      <2> QED BY <1>0, <1>1, <2>1, <2>2, QuietStep
    <1>3. CASE StartMigrator \/ RestartMigrator
      <2>1. /\ UNCHANGED <<step, staging>> /\ proc["migrator"] = "down"
            /\ proc' = [proc EXCEPT !["migrator"] = "connect"]
            /\ completed' = completed \/ ~completed'
        BY <1>3 DEF StartMigrator, RestartMigrator
      <2>2. \A p \in Services : proc'[p] = proc[p]
        BY <1>0, <2>1 DEF Services, Processes
      <2>3. staging' = NULL
        BY <1>0, <2>1 DEF StagingType
      <2> QED BY <1>0, <1>1, <2>1, <2>2, <2>3, QuietStep
    <1>4. ASSUME NEW p \in Services, Service(p) \/ ServiceFails(p)
          PROVE  Tables'
      <2>1. /\ UNCHANGED <<step, staging, completed>> /\ (proc[p] # "down" \/ completed)
            /\ \E v : proc' = [proc EXCEPT ![p] = v]
        BY <1>4 DEF Service, ServiceFails, StartService, Connect, ConnectRedis
      <2>2. version = 5 \/ ~(version < 5)
        BY <1>0, <2>1
      <2>3. p # "migrator" /\ proc'["migrator"] = proc["migrator"]
        BY <1>0, <2>1 DEF Services, Processes
      <2>4. staging' # NULL => proc'["migrator"] = "up"
        BY <1>0, <2>1, <2>3 DEF StagingType
      <2> QED BY <1>1, <2>1, <2>2, <2>4, QuietStep
    <1>5. ASSUME NEW p \in Processes, Connect(p) \/ ConnectFails(p)
          PROVE  Tables'
      <2>1. /\ UNCHANGED <<step, staging, completed>> /\ proc[p] = "connect"
            /\ \E v : proc' = [proc EXCEPT ![p] = v]
        BY <1>5 DEF Connect, ConnectFails
      <2>2. version < 5 => ~completed' /\ \A x \in Services : proc'[x] = "down"
        BY <1>0, <2>1 DEF Services, Processes
      <2>3. staging' # NULL => proc'["migrator"] = "up"
        BY <1>0, <2>1 DEF StagingType, Processes
      <2> QED BY <1>1, <2>1, <2>2, <2>3, QuietStep
    <1>6. CASE UNCHANGED vars
      <2>1. UNCHANGED <<step, staging, completed, proc>>
        BY <1>6 DEF vars, procVars
      <2> QED BY <1>0, <1>1, <2>1, QuietStep DEF StagingType
    <1> QED BY <1>2, <1>3, <1>4, <1>5, <1>6

-----------------------------------------------------------------------------
(* The services *)

LEMMA StoreTradeStep ==
    ASSUME SeedInv, NEW t \in NewTrades, StoreTrade(t)
    PROVE  Tables'
    <1>1. /\ proc["api"] = "up" /\ trades' = trades \cup {t}
          /\ UNCHANGED <<version, users, sessions, buckets, emotions, staging, step, proc,
                         completed, counted>>
      BY DEF StoreTrade, procVars
    <1>2. Tables
      BY TwoParts
    <1>3. version = 5 /\ Added
      BY <1>1, <1>2 DEF Tables, NotYetOpen, Services
    <1>4. StagingType' /\ BucketRows'
      BY <1>1, <1>2 DEF Tables, StagingType, BucketRows
    <1>5. /\ BucketsSeeded => BucketsSeeded'
          /\ TiltsKnown => TiltsKnown'
          /\ TiltsSeeded => TiltsSeeded'
      BY <1>1 DEF BucketsSeeded, TiltsKnown, TiltsSeeded
    <1>6. Added'
      BY <1>1, <1>3, <1>5 DEF Added
    <1> QED BY <1>1, <1>2, <1>3, <1>4, <1>6 DEF Tables

LEMMA CountTradeStep ==
    ASSUME SeedInv, NEW t \in NewTrades, CountTrade(t)
    PROVE  Tables'
    <1> DEFINE k == BucketOf(t)
               one == [Metrics({t}) EXCEPT !.trades = 1]
               base(x) == Cardinality(InBucket(Closed(Csv), x))
    <1>1. /\ proc["worker"] = "up" /\ t \in trades /\ t \notin counted
          /\ counted' = counted \cup {t}
          /\ UNCHANGED <<version, users, sessions, trades, emotions, staging, step, proc,
                         completed>>
      BY DEF CountTrade, Closed, procVars
    <1>2. /\ DOMAIN buckets' = DOMAIN buckets \cup {k}
          /\ \A x \in DOMAIN buckets : x # k => buckets'[x] = buckets[x]
          /\ k \in DOMAIN buckets => buckets'[k] = [buckets[k] EXCEPT !.trades = @ + 1]
          /\ k \notin DOMAIN buckets => buckets'[k] = Replace(k, one)
      <2> HIDE DEF k, one
      <2>1. buckets' = [x \in DOMAIN buckets \cup {k} |->
                           IF x # k THEN buckets[x]
                           ELSE IF k \in DOMAIN buckets
                                THEN [buckets[k] EXCEPT !.trades = @ + 1]
                                ELSE Replace(k, one)]
        BY DEF CountTrade, k, one
      <2> QED BY <2>1
    <1>3. Tables
      BY TwoParts
    <1>4. version = 5 /\ Added
      BY <1>1, <1>3 DEF Tables, NotYetOpen, Services
    <1>5. DOMAIN one = SeedFields /\ one.trades = 1
      <2>1. DOMAIN Metrics({t}) = SeedFields /\ "trades" \in SeedFields
        BY MetricsFields DEF SeedFields
      <2>2. PICK row : row = Metrics({t})
        OBVIOUS
      <2>3. one = [row EXCEPT !.trades = 1] /\ DOMAIN row = SeedFields
        BY <2>1, <2>2
      <2> HIDE DEF one
      <2> QED BY <2>1, <2>3
    <1> HIDE DEF one
    <1>6. /\ DOMAIN Replace(k, one) = SeedFields \cup {"tilt"}
          /\ Replace(k, one).trades = 1
      BY <1>5, ReplaceFields DEF SeedFields
    <1>7. BucketRows'
      BY <1>2, <1>3, <1>6 DEF Tables, BucketRows
    <1>8. StagingType'
      BY <1>1, <1>3 DEF Tables, StagingType
    <1>9. IsFiniteSet(counted') /\ counted' # {}
      BY <1>1, <1>4, FS_AddElement DEF Added
    <1>10. \A x : /\ IsFiniteSet(InBucket(counted, x))
                  /\ Cardinality(InBucket(counted, x)) \in Nat
      BY <1>4, FS_Subset, FS_CardinalityType DEF Added, InBucket
    <1>11. \A x : x # k => InBucket(counted', x) = InBucket(counted, x)
      BY <1>1 DEF InBucket
    <1>12. Cardinality(InBucket(counted', k)) = Cardinality(InBucket(counted, k)) + 1
      <2>1. InBucket(counted', k) = InBucket(counted, k) \cup {t} /\ t \notin InBucket(counted, k)
        BY <1>1 DEF InBucket
      <2> QED BY <1>10, <2>1, FS_AddElement
    <1>13. \A x \in DOMAIN buckets' :
              buckets'[x].trades = base(x) + Cardinality(InBucket(counted', x))
      <2>1. \A x \in DOMAIN buckets :
               buckets[x].trades = base(x) + Cardinality(InBucket(counted, x))
        BY <1>4 DEF Added
      <2>2. ASSUME NEW x \in DOMAIN buckets', x # k
            PROVE  buckets'[x].trades = base(x) + Cardinality(InBucket(counted', x))
        BY <1>2, <1>11, <2>1, <2>2
      <2>3. CASE k \in DOMAIN buckets
        <3>1. buckets'[k].trades = buckets[k].trades + 1
          BY <1>2, <1>3, <2>3 DEF Tables, BucketRows, SeedFields
        <3>2. base(k) \in Nat
          BY FilesFinite
        <3>3. buckets'[k].trades = base(k) + Cardinality(InBucket(counted', k))
          BY <1>10, <1>12, <2>1, <2>3, <3>1, <3>2
        <3> QED BY <2>2, <3>3
      <2>4. CASE k \notin DOMAIN buckets
        <3>1. base(k) = 0
          BY <1>4, <2>4, BaseCounts, FS_EmptySet DEF Added
        <3>2. InBucket(counted, k) = {}
          BY <1>4, <2>4 DEF Added, InBucket
        <3>3. Cardinality(InBucket(counted', k)) = 1
          BY <1>10, <1>12, <3>2, FS_EmptySet
        <3> QED BY <1>2, <1>6, <2>2, <2>4, <3>1, <3>3
      <2> QED BY <2>3, <2>4
    <1>14. Added'
      BY <1>1, <1>2, <1>4, <1>9, <1>13 DEF Added
    <1> QED BY <1>1, <1>3, <1>4, <1>7, <1>8, <1>14 DEF Tables

-----------------------------------------------------------------------------
(* Invariance *)

LEMMA TablesStep ==
    ASSUME SeedInv, [Next]_vars
    PROVE  Tables'
    BY LoadStep, InsertTradesStep, UpsertBucketsStep, UpsertEmotionsStep, UpdateTiltStep,
       RecordVersionStep, MigrateSchemaStep, ProcessStep, StoreTradeStep, CountTradeStep
       DEF Next, Migrator, Seed, Processes

LEMMA SeedInit == Init => SeedInv
    <1> SUFFICES ASSUME Init PROVE SeedInv
      OBVIOUS
    <1>1. Running
      <2>1. \A p \in Processes : Tries[p] \in Nat /\ 0 < Tries[p] /\ 0 \in 0..Tries[p]
        BY BoundsAssumption DEF Processes, Services
      <2>2. 0 \in 0..MaxFaults
        BY BoundsAssumption
      <2>3. proc \in [Processes -> {"down", "connect", "redis", "up"}] /\ DOMAIN tries = Processes
        BY DEF Init
      <2> QED BY <2>1, <2>2, <2>3 DEF Init, Running
    <1>2. DOMAIN buckets = {} /\ DOMAIN emotions = {}
      BY DEF Init, EmptyMap
    <1>3. BucketRows /\ TiltsKnown
      BY <1>2 DEF BucketRows, TiltsKnown
    <1>4. NotYetOpen
      BY StatementNumbers DEF Init, NotYetOpen, Processes, Services
    <1>5. SoFar
      BY <1>2, <1>3 DEF Init, SoFar
    <1>6. Tables
      <2>1. /\ version = 0 /\ step = 1 /\ users = FALSE /\ sessions = FALSE
            /\ staging = NULL /\ trades = {} /\ counted = {}
        BY DEF Init
      <2>2. StagingType
        BY <2>1 DEF StagingType
      <2>3. /\ version \in 0..5 /\ version # 5
            /\ trades \subseteq Csv \cup NewTrades /\ counted \subseteq NewTrades
        BY <2>1
      <2>4. {users, sessions} \subseteq BOOLEAN
        BY <2>1, Zenon
      <2>5. step \in 1..(Len(Statements) + 1)
        BY <2>1, StatementNumbers
      <2> QED BY <1>3, <1>4, <1>5, <2>2, <2>3, <2>4, <2>5 DEF Tables
    <1> QED BY <1>1, <1>6, TwoParts

\* Whatever fails and whenever the migrator is run again, each run picks up what
\* the ones before left of migration 5, nothing else has written until version 5
\* is recorded, and from then on the seed is complete (005_seed.sql,
\* cmd/migrator, depends_on in docker-compose.yml).
THEOREM Inductive == Spec => []SeedInv
    <1>1. SeedInv /\ [Next]_vars => SeedInv'
      <2> SUFFICES ASSUME SeedInv, [Next]_vars PROVE SeedInv'
        OBVIOUS
      <2>1. Running' /\ Tables'
        BY RunningStep, TablesStep
      <2> QED BY <2>1 DEF SeedInv, TypeOK, Running, Tables, StagingType
    <1> QED BY SeedInit, <1>1, PTL DEF Spec

\* The staging table never outlives the session that made it, so that CREATE TEMP
\* TABLE cannot meet an old one (005_seed.sql), and every variable has its type.
THEOREM TypeCorrect == Spec => []TypeOK
    <1>1. SeedInv => TypeOK
      BY DEF SeedInv
    <1> QED BY Inductive, <1>1, PTL

\* The recorded seed is that of one undisturbed run, for every file and every
\* series of broken runs (the ON CONFLICT clauses of 005_seed.sql).
THEOREM SeedExactAlways == Spec => []SeedExact
    <1>1. SeedInv => SeedExact
      <2> SUFFICES ASSUME SeedInv, version = 5, trades = Csv PROVE SeedExact
        BY DEF SeedExact
      <2>1. Added /\ counted \subseteq NewTrades
        BY DEF SeedInv, TypeOK
      <2>2. counted = {}
        BY <2>1, RowsAssumption DEF Added, RowsAssumption
      <2>3. BucketsSeeded /\ TiltsKnown /\ TiltsSeeded
        BY <2>1, <2>2 DEF Added
      <2>4. \A k \in DOMAIN AggregateBuckets(Csv) : DOMAIN AggregateBuckets(Csv)[k] = SeedFields
        BY MetricsFields DEF AggregateBuckets
      <2>5. users /\ sessions /\ emotions = AggregateEmotions(Csv)
        BY <2>1 DEF Added
      <2> QED BY <2>3, <2>4, <2>5 DEF SeedExact, BucketsSeeded, TiltsKnown, TiltsSeeded
    <1> QED BY Inductive, <1>1, PTL

\* Running the migrator again, at any point and any number of times, neither
\* loses nor doubles a trade the worker has counted (the version row of goose,
\* service_completed_successfully).
THEOREM CountsKeptAlways == Spec => []CountsKept
    <1>1. SeedInv => CountsKept
      <2> SUFFICES ASSUME SeedInv, counted # {} PROVE CountsKept
        BY DEF CountsKept
      <2>1. version = 5
        BY DEF SeedInv, TypeOK, NotYetOpen
      <2>2. Added
        BY <2>1 DEF SeedInv
      <2> QED BY <2>2 DEF CountsKept, Added, InBucket
    <1> QED BY Inductive, <1>1, PTL

================================================================================
