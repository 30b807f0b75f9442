------------------------- MODULE MetricsWorkerProofs -------------------------
(***************************************************************************)
(* Theorems about MetricsWorker, for all rows, seeds, batch sizes and      *)
(* limits, with or without failures, signals and crashes.                  *)
(***************************************************************************)
EXTENDS MetricsWorker, SumTheorems, FiniteSetTheorems, SequenceTheorems, TLAPS

-----------------------------------------------------------------------------
(* Lemmas about the operators *)

\* What an event keeps of its row.
LEMMA EventFields ==
    ASSUME NEW row \in StoredRows
    PROVE  /\ EventOf(row).tradeId = row.tradeId
           /\ EventOf(row).userId = row.userId
           /\ EventOf(row).userId \in Traders
           /\ EventOf(row).entryAt \in Int
           /\ EventOf(row).entryAt <= row.entryAt
           /\ EventOf(row).pnl \in Int \cup {NULL}
           /\ BucketKey(EventOf(row)) # NULL
           /\ EmotionKey(EventOf(row)) # NULL
    <1>1. row.userId \in Traders
      BY DEF StoredRows, Traders
    <1>2. ToRFC3339(row.entryAt) \in Int /\ ToRFC3339(row.entryAt) <= row.entryAt
      BY RowAssumption, TicksAssumption DEF ToRFC3339, FromUnix, Unix
    <1> QED BY <1>1, <1>2, RowAssumption DEF EventOf

\* An entry of the stream is the event of a stored row.
LEMMA EntryFields ==
    ASSUME RowsStored, NEW i \in 1..Len(stream)
    PROVE  \E t \in DOMAIN trades :
               /\ stream[i] = EventOf(trades[t])
               /\ stream[i].tradeId = t
               /\ stream[i].userId = trades[t].userId
               /\ stream[i].userId \in Traders
               /\ stream[i].entryAt \in Int
               /\ stream[i].entryAt <= trades[t].entryAt
               /\ stream[i].pnl \in Int \cup {NULL}
               /\ BucketKey(stream[i]) # NULL
               /\ EmotionKey(stream[i]) # NULL
    <1>1. stream[i] \in {EventOf(trades[t]) : t \in DOMAIN trades}
      BY ElementOfSeq DEF RowsStored
    <1>2. PICK t \in DOMAIN trades : stream[i] = EventOf(trades[t])
      BY <1>1
    <1>3. trades[t] \in StoredRows /\ trades[t].tradeId = t
      BY DEF RowsStored
    <1> QED BY <1>2, <1>3, EventFields

\* An upsert leaves a bucket a bucket.
LEMMA MergeBucket ==
    ASSUME NEW b, NEW inc, IsBucket(b), IsBucket(inc)
    PROVE  /\ IsBucket(Merge(b, inc))
           /\ Merge(b, inc).trades = b.trades + inc.trades
    BY DEF IsBucket, Merge, NoBucket

\* The increments of the three upserts.
LEMMA Increments ==
    /\ IsBucket(NoBucket) /\ NoBucket.trades = 0
    /\ \A x : /\ IsBucket([NoBucket EXCEPT !.adherence = x])
              /\ [NoBucket EXCEPT !.adherence = x].trades = 0
              /\ IsBucket([NoBucket EXCEPT !.tilt = x])
              /\ [NoBucket EXCEPT !.tilt = x].trades = 0
    BY DEF IsBucket, NoBucket

LEMMA CountIncrement ==
    ASSUME NEW e, e.pnl \in Int \cup {NULL}
    PROVE  IsBucket(CountOf(e)) /\ CountOf(e).trades = 1
    <1>1. Won(e) \in {0, 1}
      BY DEF Won
    <1> QED BY <1>1 DEF IsBucket, CountOf, NoBucket

-----------------------------------------------------------------------------
(* The environment *)

\* Only the API's two actions touch the table and the stream.
LEMMA FeedSteps ==
    ASSUME [Next]_vars
    PROVE  \/ \E row \in Rows : InsertRow(row)
           \/ \E t \in DOMAIN trades : PublishRow(t)
           \/ UNCHANGED feedVars
    BY DEF Next, Api, Work, Run, ProcessMessage, vars, feedVars, AddWindow, ReadGroup, ReadLost,
           Signal, Exit, Crash, Start, Ignore, Count, ReadRatings, WriteAdherence, ReadTilt,
           WriteTilt, CountEmotion, WindowAdd, WindowTrim, WindowCount, WindowFails,
           ReportOvertrading, Ack

\* Rows stay, and the stream grows at its end.
LEMMA FeedGrows ==
    ASSUME RowsStored, [Next]_vars
    PROVE  /\ DOMAIN trades \subseteq DOMAIN trades'
           /\ \A t \in DOMAIN trades : trades'[t] = trades[t]
           /\ Len(stream) \in Nat /\ Len(stream') \in Nat /\ Len(stream') >= Len(stream)
           /\ \A i \in 1..Len(stream) : stream'[i] = stream[i]
    <1>1. stream \in Seq({EventOf(trades[t]) : t \in DOMAIN trades})
      BY DEF RowsStored
    <1>2. ASSUME NEW row \in Rows, InsertRow(row)
          PROVE  /\ DOMAIN trades \subseteq DOMAIN trades'
                 /\ \A t \in DOMAIN trades : trades'[t] = trades[t]
                 /\ stream' = stream
      BY <1>2 DEF InsertRow, FeedInsert, Extend
    <1>3. ASSUME NEW t \in DOMAIN trades, PublishRow(t)
          PROVE  /\ trades' = trades
                 /\ Len(stream') = Len(stream) + 1
                 /\ \A i \in 1..Len(stream) : stream'[i] = stream[i]
      <2>1. stream' = Append(stream, EventOf(trades[t])) /\ trades' = trades
        BY <1>3 DEF PublishRow, FeedPublish
      <2> QED BY <1>1, <2>1, AppendProperties
    <1>4. CASE UNCHANGED feedVars
      BY <1>1, <1>4, LenProperties DEF feedVars
    <1> QED BY <1>1, <1>2, <1>3, <1>4, FeedSteps, LenProperties

LEMMA RowsStoredStep ==
    ASSUME RowsStored, [Next]_vars
    PROVE  RowsStored'
    <1>1. ASSUME NEW row \in Rows, InsertRow(row) PROVE RowsStored'
      <2>1. /\ row.tradeId \notin DOMAIN trades
            /\ DOMAIN trades' = DOMAIN trades \cup {row.tradeId}
            /\ trades'[row.tradeId] = row
            /\ \A t \in DOMAIN trades : trades'[t] = trades[t]
            /\ stream' = stream
        BY <1>1 DEF InsertRow, FeedInsert, Extend
      <2>2. IsFiniteSet(DOMAIN trades')
        BY <2>1, FS_AddElement DEF RowsStored
      <2>3. \A t \in DOMAIN trades' : trades'[t] \in StoredRows /\ trades'[t].tradeId = t
        BY <2>1 DEF RowsStored, StoredRows
      <2>4. {EventOf(trades[t]) : t \in DOMAIN trades} \subseteq {EventOf(trades'[t]) : t \in DOMAIN trades'}
        BY <2>1
      <2>5. stream' \in Seq({EventOf(trades'[t]) : t \in DOMAIN trades'})
        BY <2>1, <2>4, SeqMonotonic DEF RowsStored
      <2> QED BY <2>2, <2>3, <2>5 DEF RowsStored
    <1>2. ASSUME NEW t \in DOMAIN trades, PublishRow(t) PROVE RowsStored'
      <2>1. stream' = Append(stream, EventOf(trades[t])) /\ trades' = trades
        BY <1>2 DEF PublishRow, FeedPublish
      <2>2. stream' \in Seq({EventOf(trades[s]) : s \in DOMAIN trades})
        BY <2>1, AppendProperties DEF RowsStored
      <2> QED BY <2>1, <2>2 DEF RowsStored
    <1>3. CASE UNCHANGED feedVars
      BY <1>3 DEF RowsStored, feedVars
    <1> QED BY <1>1, <1>2, <1>3, FeedSteps

-----------------------------------------------------------------------------
(* Type correctness *)

\* While an entry is in hand it is one of the stream.
LEMMA InHand ==
    ASSUME TypeOK, RowsStored, at <= cursor
    PROVE  at \in 1..Len(stream) /\ at \in 1..cursor
    BY LenProperties DEF TypeOK, RowsStored

\* An upsert of either table adds to one key and keeps the rest.
LEMMA UpsertBucketType ==
    ASSUME TypeOK, NEW k, NEW inc, IsBucket(inc), buckets' = UpsertBucket(k, inc)
    PROVE  /\ DOMAIN buckets' = DOMAIN buckets \cup {k}
           /\ \A j \in DOMAIN buckets' : IsBucket(buckets'[j])
           /\ \A j \in DOMAIN buckets \ {k} : buckets'[j] = buckets[j]
           /\ k \in DOMAIN buckets => buckets'[k].trades = buckets[k].trades + inc.trades
           /\ k \notin DOMAIN buckets => buckets'[k].trades = inc.trades
    <1>1. IsBucket(Bucket(k))
      BY Increments DEF TypeOK, Bucket
    <1>2. /\ IsBucket(Merge(Bucket(k), inc))
          /\ Merge(Bucket(k), inc).trades = Bucket(k).trades + inc.trades
      BY <1>1, MergeBucket
    <1>3. buckets' = [j \in DOMAIN buckets \cup {k} |->
                         IF j = k THEN Merge(Bucket(k), inc) ELSE buckets[j]]
      BY DEF UpsertBucket, Extend
    <1>4. inc.trades \in Nat
      BY DEF IsBucket
    <1>5. \A j \in DOMAIN buckets : IsBucket(buckets[j])
      BY DEF TypeOK
    <1> QED BY <1>2, <1>3, <1>4, <1>5, Increments DEF Bucket

LEMMA UpsertEmotionType ==
    ASSUME TypeOK, NEW e, emotions' = UpsertEmotion(e)
    PROVE  /\ DOMAIN emotions' = DOMAIN emotions \cup {EmotionKey(e)}
           /\ \A j \in DOMAIN emotions' : emotions'[j] \in [wins : Nat, losses : Nat]
           /\ \A j \in DOMAIN emotions \ {EmotionKey(e)} : emotions'[j] = emotions[j]
           /\ LET k == EmotionKey(e)
              IN  emotions'[k].wins + emotions'[k].losses =
                      Emotion(k).wins + Emotion(k).losses + 1
    <1> DEFINE k == EmotionKey(e)
               new == [wins |-> Emotion(k).wins + Won(e), losses |-> Emotion(k).losses + 1 - Won(e)]
    <1>1. Emotion(k) \in [wins : Nat, losses : Nat]
      BY DEF TypeOK, Emotion
    <1>2. Won(e) \in {0, 1}
      BY DEF Won
    <1>3. emotions' = [j \in DOMAIN emotions \cup {k} |-> IF j = k THEN new ELSE emotions[j]]
      BY DEF UpsertEmotion, Extend
    <1>4. new \in [wins : Nat, losses : Nat] /\ new.wins + new.losses = Emotion(k).wins + Emotion(k).losses + 1
      BY <1>1, <1>2
    <1> HIDE DEF new, k
    <1>5. /\ DOMAIN emotions' = DOMAIN emotions \cup {k}
          /\ emotions'[k] = new
          /\ \A j \in DOMAIN emotions \ {k} : emotions'[j] = emotions[j]
      BY <1>3
    <1>6. \A j \in DOMAIN emotions : emotions[j] \in [wins : Nat, losses : Nat]
      BY DEF TypeOK
    <1>7. \A j \in DOMAIN emotions' : emotions'[j] \in [wins : Nat, losses : Nat]
      BY <1>4, <1>5, <1>6
    <1> QED BY <1>4, <1>5, <1>7 DEF k

\* Where the group and the worker are: the part of TypeOK every action moves.
Position ==
    /\ cursor \in 0..Len(stream) /\ pel \subseteq 1..cursor
    /\ ws \in {"up", "stopping", "down"}
    /\ at \in 1..(cursor + 1) /\ step \in Steps
    /\ at > cursor \/ ws = "down" => step = "count"
    /\ stops \in 0..MaxStops

LEMMA PositionStep ==
    ASSUME TypeOK, RowsStored, [Next]_vars
    PROVE  Position'
    <1> USE DEF Position, groupVars, localVars, tableVars, feedVars
    <1>1. Position
      BY DEF TypeOK
    <1>2. Len(stream) \in Nat /\ Len(stream') \in Nat /\ Len(stream') >= Len(stream)
      BY FeedGrows
    <1>a. cursor \in 0..Len(stream')
      BY <1>1, <1>2
    <1>b. "count" \in Steps
      BY DEF Steps
    <1>3. CASE Api
      <2>1. UNCHANGED <<groupVars, localVars, stops>>
        BY <1>3 DEF Api, InsertRow, PublishRow, AddWindow
      <2> QED BY <1>1, <1>a, <2>1
    <1>4. ASSUME NEW s \in Steps, Goto(s), UNCHANGED feedVars, at <= cursor, ws # "down"
          PROVE  Position'
      BY <1>1, <1>4 DEF Goto
    <1>5. CASE Ignore \/ Count \/ CountEmotion \/ WindowAdd \/ WindowTrim \/ WindowFails \/ ReportOvertrading
      BY <1>4, <1>5 DEF Ignore, Count, CountEmotion, WindowAdd, WindowTrim, WindowFails,
                        ReportOvertrading, At, AfterCount, Steps
    <1>6. CASE ReadRatings \/ WriteAdherence \/ ReadTilt \/ WriteTilt \/ WindowCount
      BY <1>4, <1>6 DEF ReadRatings, WriteAdherence, ReadTilt, WriteTilt, WindowCount, At,
                        AfterTilt, Steps
    <1>7. CASE ReadGroup \/ ReadLost
      <2>1. UNCHANGED <<stream, step, stops>> /\ step = "count" /\ at = cursor + 1
        BY <1>1, <1>7 DEF ReadGroup, ReadLost, Idle
      <2>2. cursor' \in cursor..Len(stream') /\ pel' = pel \cup (cursor + 1)..cursor'
        BY <1>1, <1>2, <1>7, WorkerAssumption DEF ReadGroup, ReadLost, Deliver
      <2>3. pel' \subseteq 1..cursor'
        BY <1>1, <2>2
      <2>4. at' \in 1..(cursor' + 1) /\ ws' \in {"up", "stopping", "down"}
        BY <1>1, <1>2, <1>7, <2>1, <2>2 DEF ReadGroup, ReadLost
      <2>5. (at > cursor \/ ws = "down" => step = "count")' /\ step' \in Steps
        BY <1>b, <2>1
      <2>6. cursor' \in 0..Len(stream') /\ stops' \in 0..MaxStops
        BY <1>1, <1>2, <2>1, <2>2
      <2> QED BY <2>3, <2>4, <2>5, <2>6
    <1>8. CASE Signal \/ Exit \/ Crash \/ Start
      <2> USE <1>8 DEF Signal, Exit, Crash, Start
      <2>1. cursor' \in 0..Len(stream') /\ pel' \subseteq 1..cursor'
        BY <1>1
      <2>2. ws' \in {"up", "stopping", "down"} /\ at' \in 1..(cursor' + 1)
        BY <1>1
      <2>3. (at > cursor \/ ws = "down" => step = "count")' /\ step' \in Steps
        BY <1>1, <1>b
      <2>4. stops' \in 0..MaxStops
        BY <1>1, WorkerAssumption
      <2> QED BY <2>1, <2>2, <2>3, <2>4
    <1>9. CASE Ack
      <2>1. cursor' \in 0..Len(stream') /\ pel' \subseteq 1..cursor'
        BY <1>1, <1>9 DEF Ack, At
      <2>2. ws' \in {"up", "stopping", "down"} /\ at' \in 1..(cursor' + 1)
        BY <1>1, <1>9 DEF Ack, At
      <2>3. step' = "count" /\ stops' \in 0..MaxStops
        BY <1>1, <1>9 DEF Ack, At
      <2> QED BY <1>b, <2>1, <2>2, <2>3
    <1>10. CASE UNCHANGED vars
      BY <1>1, <1>10 DEF vars
    <1> QED BY <1>3, <1>5, <1>6, <1>7, <1>8, <1>9, <1>10 DEF Next, Work, Run, ProcessMessage

\* What the two tables of counters may become.
LEMMA BucketUpserts ==
    ASSUME [Next]_vars
    PROVE  \/ /\ Count
              /\ buckets' = UpsertBucket(BucketKey(Msg), CountOf(Msg))
           \/ /\ WriteAdherence
              /\ buckets' = UpsertBucket(BucketKey(Msg), [NoBucket EXCEPT !.adherence = scratch])
           \/ /\ WriteTilt
              /\ buckets' = UpsertBucket(BucketKey(Msg), [NoBucket EXCEPT !.tilt = scratch])
           \/ UNCHANGED buckets
    BY DEF Next, Api, Work, Run, ProcessMessage, vars, tableVars, InsertRow, PublishRow, AddWindow,
           ReadGroup, ReadLost, Signal, Exit, Crash, Start, Ignore, Count, ReadRatings, ReadTilt,
           WriteAdherence, WriteTilt, CountEmotion, WindowAdd, WindowTrim, WindowCount, WindowFails,
           ReportOvertrading, Ack

LEMMA BucketSteps ==
    ASSUME [Next]_vars
    PROVE  \/ /\ Count
              /\ buckets' = UpsertBucket(BucketKey(Msg), CountOf(Msg))
           \/ \E inc : /\ WriteAdherence \/ WriteTilt
                       /\ IsBucket(inc) /\ inc.trades = 0
                       /\ buckets' = UpsertBucket(BucketKey(Msg), inc)
           \/ UNCHANGED buckets
    BY BucketUpserts, Increments

LEMMA EmotionSteps ==
    ASSUME [Next]_vars
    PROVE  \/ CountEmotion /\ emotions' = UpsertEmotion(Msg)
           \/ UNCHANGED emotions
    BY DEF Next, Api, Work, Run, ProcessMessage, vars, tableVars, InsertRow, PublishRow, AddWindow,
           ReadGroup, ReadLost, Signal, Exit, Crash, Start, Ignore, Count, ReadRatings, ReadTilt,
           WriteAdherence, WriteTilt, CountEmotion, WindowAdd, WindowTrim, WindowCount,
           WindowFails, ReportOvertrading, Ack

\* The counters keep their type.
LEMMA TablesStep ==
    ASSUME TypeOK, RowsStored, [Next]_vars
    PROVE  /\ \A k \in DOMAIN buckets' : IsBucket(buckets'[k])
           /\ \A k \in DOMAIN emotions' : emotions'[k] \in [wins : Nat, losses : Nat]
    <1>1. ASSUME Count PROVE IsBucket(CountOf(Msg))
      BY <1>1, InHand, EntryFields, CountIncrement DEF Count, At, Msg
    <1>2. \A k \in DOMAIN buckets' : IsBucket(buckets'[k])
      BY <1>1, BucketSteps, UpsertBucketType DEF TypeOK
    <1>3. \A k \in DOMAIN emotions' : emotions'[k] \in [wins : Nat, losses : Nat]
      BY EmotionSteps, UpsertEmotionType DEF TypeOK
    <1> QED BY <1>2, <1>3

-----------------------------------------------------------------------------
(* The steps of an entry *)

\* The entry in hand stays the same while it is in hand.
LEMMA MsgKept ==
    ASSUME TypeOK, RowsStored, [Next]_vars, at <= cursor, at' = at
    PROVE  Msg' = Msg
    BY FeedGrows, InHand DEF Msg

\* Which step follows which.
LEMMA StepOrder ==
    ASSUME TypeOK, RowsStored, [Next]_vars, step' # step
    PROVE  \/ step' = "count"
           \/ /\ at <= cursor /\ at' = at
              /\ \/ step = "count" /\ step' = "ack" /\ Msg.status # "closed"
                 \/ step = "count" /\ step' = AfterCount /\ Msg.status = "closed"
                 \/ step = "adhRead" /\ step' \in {"adhWrite", "tiltRead"}
                 \/ step = "adhWrite" /\ step' = "tiltRead"
                 \/ step = "tiltRead" /\ step' \in {"tiltWrite", AfterTilt}
                 \/ step = "tiltWrite" /\ step' = AfterTilt
                 \/ step = "emotion" /\ step' = "zadd"
                 \/ step = "zadd" /\ step' \in {"ztrim", "ack"}
                 \/ step = "ztrim" /\ step' \in {"zcount", "ack"}
                 \/ step = "zcount" /\ step' = "ack"
                 \/ WindowCount /\ step = "zcount" /\ step' = "report"
                 \/ step = "report" /\ step' = "ack"
    <1> USE DEF Goto, At
    <1>1. CASE Api
      BY <1>1 DEF Api, InsertRow, PublishRow, AddWindow, localVars
    <1>2. CASE ReadGroup \/ ReadLost \/ Signal \/ Exit \/ Crash \/ Start
      BY <1>2 DEF ReadGroup, ReadLost, Signal, Exit, Crash, Start, localVars
    <1>3. CASE Ignore \/ Count
      BY <1>3 DEF Ignore, Count
    <1>4. CASE ReadRatings \/ WriteAdherence
      BY <1>4 DEF ReadRatings, WriteAdherence
    <1>5. CASE ReadTilt \/ WriteTilt
      BY <1>5 DEF ReadTilt, WriteTilt
    <1>6. CASE CountEmotion \/ WindowAdd \/ WindowTrim \/ WindowFails \/ ReportOvertrading
      BY <1>6 DEF CountEmotion, WindowAdd, WindowTrim, WindowFails, ReportOvertrading
    <1>7. CASE WindowCount
      BY <1>7 DEF WindowCount
    <1>8. CASE Ack
      BY <1>8 DEF Ack
    <1>9. CASE UNCHANGED vars
      BY <1>9 DEF vars
    <1> QED BY <1>1, <1>2, <1>3, <1>4, <1>5, <1>6, <1>7, <1>8, <1>9
         DEF Next, Work, Run, ProcessMessage

\* Only the step that is done with an entry turns to another.
LEMMA AtKept ==
    ASSUME TypeOK, [Next]_vars, step' # "count"
    PROVE  at <= cursor /\ at' = at
    <1> USE DEF Goto, At
    <1>1. CASE Api \/ Signal \/ Exit \/ Start
      BY <1>1 DEF Api, InsertRow, PublishRow, AddWindow, Signal, Exit, Start, localVars, TypeOK
    <1>2. CASE ReadGroup \/ ReadLost \/ Crash \/ Ack
      BY <1>2 DEF ReadGroup, ReadLost, Idle, Crash, Ack, localVars, TypeOK
    <1>3. CASE Ignore \/ Count \/ ReadRatings \/ WriteAdherence \/ ReadTilt \/ WriteTilt
      BY <1>3 DEF Ignore, Count, ReadRatings, WriteAdherence, ReadTilt, WriteTilt
    <1>4. CASE CountEmotion \/ WindowAdd \/ WindowTrim \/ WindowCount \/ WindowFails \/ ReportOvertrading
      BY <1>4 DEF CountEmotion, WindowAdd, WindowTrim, WindowCount, WindowFails, ReportOvertrading
    <1>5. CASE UNCHANGED vars
      BY <1>5 DEF vars, TypeOK
    <1> QED BY <1>1, <1>2, <1>3, <1>4, <1>5 DEF Next, Work, Run, ProcessMessage

LEMMA ClosedOnlyStep ==
    ASSUME TypeOK, RowsStored, ClosedOnly, [Next]_vars
    PROVE  ClosedOnly'
    <1> SUFFICES ASSUME step' # "count" PROVE ClosedOnly'
      BY DEF ClosedOnly
    <1>1. Msg' = Msg
      BY AtKept, MsgKept
    <1>2. step' # step => \/ step' = "ack"
                          \/ Msg.status = "closed" /\ (step' = "emotion" => Msg.emotion # NULL)
      BY StepOrder DEF ClosedOnly, AfterCount, AfterTilt
    <1> QED BY <1>1, <1>2 DEF ClosedOnly

-----------------------------------------------------------------------------
(* Counting *)

\* The worker never comes back to an entry, nor begins one again.
LEMMA AtMoves ==
    ASSUME TypeOK, RowsStored, [Next]_vars
    PROVE  /\ at' >= at
           /\ step' = "count" /\ step # "count" => at' > at
    <1> USE DEF Goto, At
    <1>1. at \in Nat /\ cursor \in Nat /\ at <= cursor + 1
      BY DEF TypeOK
    <1>2. step # "count" => at <= cursor
      BY DEF TypeOK
    <1>3. CASE Api \/ Signal \/ Exit \/ Start
      BY <1>1, <1>3 DEF Api, InsertRow, PublishRow, AddWindow, Signal, Exit, Start, localVars
    <1>4. CASE ReadGroup
      BY <1>1, <1>4 DEF ReadGroup, localVars
    <1>5. CASE ReadLost
      BY <1>1, <1>5, WorkerAssumption, LenProperties DEF ReadLost, Deliver, RowsStored
    <1>6. CASE Crash \/ Ack
      BY <1>1, <1>2, <1>6 DEF Crash, Ack
    <1>7. CASE Ignore \/ Count \/ ReadRatings \/ WriteAdherence \/ ReadTilt \/ WriteTilt
      BY <1>1, <1>7 DEF Ignore, Count, ReadRatings, WriteAdherence, ReadTilt, WriteTilt,
                        AfterCount, AfterTilt
    <1>8. CASE CountEmotion \/ WindowAdd \/ WindowTrim \/ WindowCount \/ WindowFails \/ ReportOvertrading
      BY <1>1, <1>8 DEF CountEmotion, WindowAdd, WindowTrim, WindowCount, WindowFails, ReportOvertrading
    <1>9. CASE UNCHANGED vars
      BY <1>1, <1>9 DEF vars
    <1> QED BY <1>3, <1>4, <1>5, <1>6, <1>7, <1>8, <1>9 DEF Next, Work, Run, ProcessMessage

\* Each table's front lies in the stream and never goes back.
LEMMA Fronts ==
    ASSUME TypeOK, RowsStored, [Next]_vars
    PROVE  /\ BucketFront \in 0..Len(stream) /\ BucketFront' \in 0..Len(stream')
           /\ BucketFront <= BucketFront'
           /\ EmotionFront \in 0..Len(stream) /\ EmotionFront' \in 0..Len(stream')
           /\ EmotionFront <= EmotionFront'
    <1>1. /\ at \in 1..(cursor + 1) /\ cursor \in 0..Len(stream) /\ Len(stream) \in Nat
          /\ step # "count" => at <= cursor
      BY LenProperties DEF TypeOK, RowsStored
    <1>2. /\ at' \in 1..(cursor' + 1) /\ cursor' \in 0..Len(stream') /\ Len(stream') \in Nat
          /\ step' # "count" => at' <= cursor'
      BY PositionStep, FeedGrows DEF Position
    <1>3. BucketFront \in 0..Len(stream) /\ EmotionFront \in 0..Len(stream)
      BY <1>1 DEF BucketFront, EmotionFront
    <1> DEFINE a == at'  c == cursor'  n == Len(stream')  s == step'
               Late == {"zadd", "ztrim", "zcount", "report", "ack"}
    <1>4. /\ a \in 1..(c + 1) /\ c \in 0..n /\ n \in Nat
          /\ s # "count" => a <= c
          /\ a >= at
          /\ s = "count" /\ step # "count" => a > at
      BY <1>2, AtMoves
    <1>5. /\ BucketFront' = IF s = "count" THEN a - 1 ELSE a
          /\ EmotionFront' = IF s \in Late THEN a ELSE a - 1
      BY DEF BucketFront, EmotionFront
    <1>6. a = at /\ step \in Late => s = "count" \/ s \in Late
      BY StepOrder DEF AfterCount
    <1>7. "count" \notin Late
      OBVIOUS
    <1> HIDE DEF a, c, n, s, Late
    <1>8. BucketFront' \in 0..n /\ EmotionFront' \in 0..n
      BY <1>4, <1>5, <1>7
    <1>9. BucketFront <= BucketFront'
      BY <1>1, <1>4, <1>5 DEF BucketFront
    <1>10. EmotionFront <= EmotionFront'
      <2>1. EmotionFront = IF step \in Late THEN at ELSE at - 1
        BY DEF EmotionFront, Late
      <2> QED BY <1>1, <1>4, <1>5, <1>6, <1>7, <2>1
    <1> QED BY <1>3, <1>8, <1>9, <1>10 DEF n

\* The entries of a key among the first n of the stream after the step.
HitsAfter(k, n) == {i \in 1..n : stream'[i].status = "closed" /\ BucketKey(stream'[i]) = k}
EmotionHitsAfter(k, n) ==
    {i \in 1..n : /\ stream'[i].status = "closed" /\ stream'[i].emotion # NULL
                  /\ EmotionKey(stream'[i]) = k}

LEMMA HitsPrimed ==
    ASSUME NEW k
    PROVE  /\ Hits(k, 1..BucketFront)' = HitsAfter(k, BucketFront')
           /\ EmotionHits(k, 1..EmotionFront)' = EmotionHitsAfter(k, EmotionFront')
    BY DEF Hits, EmotionHits, Felt, HitsAfter, EmotionHitsAfter, BucketKey, EmotionKey

\* Entries done with stay counted under their keys, and new ones only add.
LEMMA HitsGrow ==
    ASSUME RowsStored, [Next]_vars, NEW k, NEW m \in Nat, NEW n \in Nat,
           m <= n, m <= Len(stream)
    PROVE  /\ Cardinality(Hits(k, 1..m)) \in Nat
           /\ Cardinality(HitsAfter(k, n)) \in Nat
           /\ Cardinality(Hits(k, 1..m)) <= Cardinality(HitsAfter(k, n))
           /\ Cardinality(EmotionHits(k, 1..m)) \in Nat
           /\ Cardinality(EmotionHitsAfter(k, n)) \in Nat
           /\ Cardinality(EmotionHits(k, 1..m)) <= Cardinality(EmotionHitsAfter(k, n))
    <1>1. IsFiniteSet(1..n)
      BY FS_Interval
    <1>2. IsFiniteSet(HitsAfter(k, n)) /\ IsFiniteSet(EmotionHitsAfter(k, n))
      <2>1. HitsAfter(k, n) \in SUBSET (1..n) /\ EmotionHitsAfter(k, n) \in SUBSET (1..n)
        BY DEF HitsAfter, EmotionHitsAfter
      <2> QED BY <1>1, <2>1, FS_Subset
    <1>3. \A i \in 1..m : i \in 1..n /\ stream'[i] = stream[i]
      BY FeedGrows
    <1>4. Hits(k, 1..m) \in SUBSET HitsAfter(k, n)
      BY <1>3 DEF Hits, HitsAfter
    <1>5. EmotionHits(k, 1..m) \in SUBSET EmotionHitsAfter(k, n)
      BY <1>3 DEF EmotionHits, Felt, EmotionHitsAfter
    <1> QED BY <1>2, <1>4, <1>5, FS_Subset, FS_CardinalityType

\* The seed's counts are numbers.
LEMMA SeedCounts ==
    ASSUME NEW k
    PROVE  SeedCount(k) \in Nat /\ SeedEmotionCount(k) \in Nat
    BY SeedAssumption DEF SeedCount, SeedEmotionCount, IsBucket

\* Count is done with one more closed entry of its bucket, for that bucket.
LEMMA CountHits ==
    ASSUME TypeOK, RowsStored, [Next]_vars, Count
    PROVE  /\ BucketFront = at - 1 /\ BucketFront' = at
           /\ Cardinality(HitsAfter(BucketKey(Msg), at)) =
                 Cardinality(Hits(BucketKey(Msg), 1..(at - 1))) + 1
    <1>1. /\ at \in 1..Len(stream) /\ at \in Nat
          /\ step = "count" /\ step' = AfterCount /\ at' = at
          /\ Msg.status = "closed" /\ stream' = stream
      BY InHand DEF Count, At, Goto, feedVars
    <1>2. BucketFront = at - 1 /\ BucketFront' = at
      BY <1>1 DEF BucketFront, AfterCount
    <1> DEFINE k == BucketKey(Msg)
    <1>3. HitsAfter(k, at) = {i \in 1..at : stream[i].status = "closed" /\ BucketKey(stream[i]) = k}
      BY <1>1 DEF HitsAfter
    <1>4. Hits(k, 1..(at - 1)) = {i \in 1..(at - 1) : stream[i].status = "closed" /\ BucketKey(stream[i]) = k}
      BY DEF Hits
    <1>5. at \notin Hits(k, 1..(at - 1)) /\ IsFiniteSet(Hits(k, 1..(at - 1)))
      <2>1. at \notin 1..(at - 1) /\ IsFiniteSet(1..(at - 1))
        BY <1>1, FS_Interval
      <2>2. Hits(k, 1..(at - 1)) \in SUBSET (1..(at - 1))
        BY <1>4
      <2> QED BY <2>1, <2>2, FS_Subset
    <1>6. HitsAfter(k, at) = Hits(k, 1..(at - 1)) \cup {at}
      <2>1. stream[at].status = "closed" /\ BucketKey(stream[at]) = k
        BY <1>1 DEF Msg
      <2>2. 1..at = 1..(at - 1) \cup {at}
        BY <1>1
      <2> HIDE DEF k
      <2> QED BY <1>3, <1>4, <2>1, <2>2
    <1> QED BY <1>2, <1>5, <1>6, FS_AddElement

\* The same for CountEmotion.
LEMMA CountEmotionHits ==
    ASSUME TypeOK, RowsStored, ClosedOnly, [Next]_vars, CountEmotion
    PROVE  /\ EmotionFront = at - 1 /\ EmotionFront' = at
           /\ Cardinality(EmotionHitsAfter(EmotionKey(Msg), at)) =
                 Cardinality(EmotionHits(EmotionKey(Msg), 1..(at - 1))) + 1
    <1>1. /\ at \in 1..Len(stream) /\ at \in Nat
          /\ step = "emotion" /\ step' = "zadd" /\ at' = at
          /\ Msg.status = "closed" /\ Msg.emotion # NULL /\ stream' = stream
      BY InHand DEF CountEmotion, At, Goto, feedVars, ClosedOnly
    <1>2. EmotionFront = at - 1 /\ EmotionFront' = at
      BY <1>1 DEF EmotionFront
    <1> DEFINE k == EmotionKey(Msg)
               Of(i) == /\ stream[i].status = "closed" /\ stream[i].emotion # NULL
                        /\ EmotionKey(stream[i]) = k
    <1>3. EmotionHitsAfter(k, at) = {i \in 1..at : Of(i)}
      BY <1>1 DEF EmotionHitsAfter
    <1>4. EmotionHits(k, 1..(at - 1)) = {i \in 1..(at - 1) : Of(i)}
      BY DEF EmotionHits, Felt
    <1>5. at \notin EmotionHits(k, 1..(at - 1)) /\ IsFiniteSet(EmotionHits(k, 1..(at - 1)))
      <2>1. at \notin 1..(at - 1) /\ IsFiniteSet(1..(at - 1))
        BY <1>1, FS_Interval
      <2>2. EmotionHits(k, 1..(at - 1)) \in SUBSET (1..(at - 1))
        BY <1>4
      <2> QED BY <2>1, <2>2, FS_Subset
    <1>6. EmotionHitsAfter(k, at) = EmotionHits(k, 1..(at - 1)) \cup {at}
      <2>1. Of(at)
        BY <1>1 DEF Msg
      <2>2. 1..at = 1..(at - 1) \cup {at}
        BY <1>1
      <2> HIDE DEF Of
      <2> QED BY <1>3, <1>4, <2>1, <2>2
    <1> QED BY <1>2, <1>5, <1>6, FS_AddElement



\* One key of either table: what it had, and what the entries done with allow.
LEMMA Allowance ==
    ASSUME TypeOK, RowsStored, [Next]_vars, NEW k
    PROVE  /\ SeedCount(k) \in Nat /\ SeedEmotionCount(k) \in Nat
           /\ Cardinality(Hits(k, 1..BucketFront)) \in Nat
           /\ Cardinality(HitsAfter(k, BucketFront')) \in Nat
           /\ Cardinality(Hits(k, 1..BucketFront)) <= Cardinality(HitsAfter(k, BucketFront'))
           /\ Cardinality(EmotionHits(k, 1..EmotionFront)) \in Nat
           /\ Cardinality(EmotionHitsAfter(k, EmotionFront')) \in Nat
           /\ Cardinality(EmotionHits(k, 1..EmotionFront)) <= Cardinality(EmotionHitsAfter(k, EmotionFront'))
    <1> DEFINE m == BucketFront  n == BucketFront'
               em == EmotionFront  en == EmotionFront'
    <1>1. m \in Nat /\ n \in Nat /\ m <= n /\ m <= Len(stream)
      BY Fronts, FeedGrows
    <1>2. em \in Nat /\ en \in Nat /\ em <= en /\ em <= Len(stream)
      BY Fronts, FeedGrows
    <1> HIDE DEF m, n, em, en
    <1>3. /\ Cardinality(Hits(k, 1..m)) \in Nat
          /\ Cardinality(HitsAfter(k, n)) \in Nat
          /\ Cardinality(Hits(k, 1..m)) <= Cardinality(HitsAfter(k, n))
      BY <1>1, HitsGrow
    <1>4. /\ Cardinality(EmotionHits(k, 1..em)) \in Nat
          /\ Cardinality(EmotionHitsAfter(k, en)) \in Nat
          /\ Cardinality(EmotionHits(k, 1..em)) <= Cardinality(EmotionHitsAfter(k, en))
      BY <1>2, HitsGrow
    <1> QED BY <1>3, <1>4, SeedCounts DEF m, n, em, en

LEMMA CountsBackedStep ==
    ASSUME TypeOK, RowsStored, ClosedOnly, CountsBacked, [Next]_vars
    PROVE  CountsBacked'
    <1>1. ASSUME NEW k \in DOMAIN buckets'
          PROVE  buckets'[k].trades <= SeedCount(k) + Cardinality(HitsAfter(k, BucketFront'))
      <2> DEFINE new == buckets'[k].trades
                 done == Cardinality(Hits(k, 1..BucketFront))
                 then == Cardinality(HitsAfter(k, BucketFront'))
      <2>1. done \in Nat /\ then \in Nat /\ done <= then /\ SeedCount(k) \in Nat
        BY Allowance
      <2>2. k \in DOMAIN buckets => /\ buckets[k].trades <= SeedCount(k) + done
                                    /\ buckets[k].trades \in Nat
        BY DEF CountsBacked, TypeOK, IsBucket
      <2>3. \/ new = 0
            \/ k \in DOMAIN buckets /\ new = buckets[k].trades
            \/ /\ then = done + 1
               /\ new = 1 \/ (k \in DOMAIN buckets /\ new = buckets[k].trades + 1)
        <3>1. CASE Count /\ buckets' = UpsertBucket(BucketKey(Msg), CountOf(Msg))
          <4>1. IsBucket(CountOf(Msg)) /\ CountOf(Msg).trades = 1
            BY <3>1, InHand, EntryFields, CountIncrement DEF Count, At, Msg
          <4>2. k = BucketKey(Msg) => then = done + 1
            BY <3>1, CountHits
          <4>3. k # BucketKey(Msg) => k \in DOMAIN buckets /\ new = buckets[k].trades
            BY <3>1, <4>1, UpsertBucketType
          <4>4. k = BucketKey(Msg) => new = 1 \/ (k \in DOMAIN buckets /\ new = buckets[k].trades + 1)
            <5>1. k \in DOMAIN buckets /\ k = BucketKey(Msg) =>
                    new = buckets[k].trades + CountOf(Msg).trades
              BY <3>1, <4>1, UpsertBucketType
            <5>2. k \notin DOMAIN buckets /\ k = BucketKey(Msg) => new = CountOf(Msg).trades
              BY <3>1, <4>1, UpsertBucketType
            <5> QED BY <4>1, <5>1, <5>2
          <4> HIDE DEF new, done, then
          <4> QED BY <4>2, <4>3, <4>4
        <3>2. ASSUME NEW inc, IsBucket(inc), inc.trades = 0,
                     buckets' = UpsertBucket(BucketKey(Msg), inc)
              PROVE  new = 0 \/ (k \in DOMAIN buckets /\ new = buckets[k].trades)
          <4>1. k \in DOMAIN buckets \/ k = BucketKey(Msg)
            BY <3>2, UpsertBucketType
          <4>2. k \in DOMAIN buckets => new = buckets[k].trades
            <5>1. k \in DOMAIN buckets /\ k = BucketKey(Msg) => new = buckets[k].trades + inc.trades
              BY <3>2, UpsertBucketType
            <5>2. k \in DOMAIN buckets /\ k # BucketKey(Msg) => new = buckets[k].trades
              BY <3>2, UpsertBucketType
            <5> HIDE DEF new
            <5> QED BY <2>2, <3>2, <5>1, <5>2
          <4>3. k \notin DOMAIN buckets => new = 0
            BY <3>2, <4>1, UpsertBucketType
          <4> QED BY <4>2, <4>3
        <3>3. CASE UNCHANGED buckets
          BY <3>3
        <3> HIDE DEF new, done, then
        <3> QED BY <3>1, <3>2, <3>3, BucketSteps
      <2> HIDE DEF new, done, then
      <2>4. new <= SeedCount(k) + then
        BY <2>1, <2>2, <2>3
      <2> QED BY <2>4 DEF new, then
    <1>2. ASSUME NEW k \in DOMAIN emotions'
          PROVE  emotions'[k].wins + emotions'[k].losses
                     <= SeedEmotionCount(k) + Cardinality(EmotionHitsAfter(k, EmotionFront'))
      <2> DEFINE new == emotions'[k].wins + emotions'[k].losses
                 old == Emotion(k).wins + Emotion(k).losses
                 done == Cardinality(EmotionHits(k, 1..EmotionFront))
                 then == Cardinality(EmotionHitsAfter(k, EmotionFront'))
      <2>1. done \in Nat /\ then \in Nat /\ done <= then /\ SeedEmotionCount(k) \in Nat
        BY Allowance
      <2>2. old <= SeedEmotionCount(k) + done /\ old \in Nat
        BY <2>1 DEF CountsBacked, TypeOK, Emotion
      <2>3. new = old \/ (then = done + 1 /\ new = old + 1)
        <3>1. CASE CountEmotion /\ emotions' = UpsertEmotion(Msg) /\ k = EmotionKey(Msg)
          <4>1. then = done + 1
            BY <3>1, CountEmotionHits
          <4>2. new = old + 1
            BY <3>1, UpsertEmotionType
          <4> QED BY <4>1, <4>2
        <3>2. CASE emotions' = UpsertEmotion(Msg) /\ k # EmotionKey(Msg)
          <4>1. k \in DOMAIN emotions /\ emotions'[k] = emotions[k]
            BY <3>2, UpsertEmotionType
          <4> QED BY <4>1 DEF Emotion
        <3>3. CASE UNCHANGED emotions
          BY <3>3 DEF Emotion
        <3> HIDE DEF new, done, then, old
        <3> QED BY <3>1, <3>2, <3>3, EmotionSteps
      <2> HIDE DEF new, done, then, old
      <2>4. new <= SeedEmotionCount(k) + then
        BY <2>1, <2>2, <2>3
      <2> QED BY <2>4 DEF new, then
    <1>3. \A k : SeedCount(k)' = SeedCount(k) /\ SeedEmotionCount(k)' = SeedEmotionCount(k)
      BY DEF SeedCount, SeedEmotionCount
    <1> QED BY <1>1, <1>2, <1>3, HitsPrimed DEF CountsBacked

-----------------------------------------------------------------------------
(* Overtrading *)

\* A window set of user u with stored trades of u only, none scored later than
\* it was entered.
SetBacked(u, set) ==
    \A t \in DOMAIN set :
        /\ t \in DOMAIN trades /\ trades[t].userId = u
        /\ set[t] \in Int /\ set[t] <= trades[t].entryAt

\* ZADD NX keeps a set backed.
LEMMA AddBacked ==
    ASSUME NEW u, NEW set, SetBacked(u, set), NEW t \in DOMAIN trades, trades[t].userId = u,
           NEW score \in Int, score <= trades[t].entryAt
    PROVE  SetBacked(u, AddNX(set, t, score))
    <1>1. CASE t \in DOMAIN set
      BY <1>1 DEF AddNX
    <1>2. CASE t \notin DOMAIN set
      <2>1. AddNX(set, t, score) = [x \in DOMAIN set \cup {t} |-> IF x = t THEN score ELSE set[x]]
        BY <1>2 DEF AddNX, Extend
      <2> DEFINE new == AddNX(set, t, score)
      <2>2. /\ DOMAIN new = DOMAIN set \cup {t} /\ new[t] = score
            /\ \A x \in DOMAIN set : new[x] = set[x]
        BY <1>2, <2>1
      <2> HIDE DEF new
      <2>3. SetBacked(u, new)
        BY <2>2 DEF SetBacked
      <2> QED BY <2>3 DEF new
    <1> QED BY <1>1, <1>2

\* What the window sets may become.
LEMMA WindowSteps ==
    ASSUME [Next]_vars
    PROVE  \/ \E t \in DOMAIN trades : AddWindow(t)
           \/ WindowAdd
           \/ WindowTrim
           \/ UNCHANGED tradesTs
    BY DEF Next, Api, Work, Run, ProcessMessage, vars, InsertRow, PublishRow, ReadGroup, ReadLost,
           Signal, Exit, Crash, Start, Ignore, Count, ReadRatings, ReadTilt, WriteAdherence,
           WriteTilt, CountEmotion, WindowCount, WindowFails, ReportOvertrading, Ack

LEMMA SetsStep ==
    ASSUME TypeOK, RowsStored, WindowsBacked, [Next]_vars
    PROVE  DOMAIN tradesTs' = Traders /\ \A u \in Traders : SetBacked(u, tradesTs'[u])
    <1>1. DOMAIN tradesTs = Traders /\ \A u \in Traders : SetBacked(u, tradesTs[u])
      BY DEF TypeOK, WindowsBacked, SetBacked
    <1>2. ASSUME NEW t \in DOMAIN trades, NEW score \in Int, score <= trades[t].entryAt,
                 tradesTs' = [tradesTs EXCEPT ![trades[t].userId] = AddNX(@, t, score)]
          PROVE  DOMAIN tradesTs' = Traders /\ \A u \in Traders : SetBacked(u, tradesTs'[u])
      <2>1. trades[t].userId \in Traders
        BY DEF RowsStored, StoredRows, Traders
      <2> DEFINE new == AddNX(tradesTs[trades[t].userId], t, score)
      <2>2. SetBacked(trades[t].userId, new)
        BY <1>1, <1>2, <2>1, AddBacked
      <2> HIDE DEF new
      <2>3. tradesTs' = [tradesTs EXCEPT ![trades[t].userId] = new]
        BY <1>2 DEF new
      <2> QED BY <1>1, <2>1, <2>2, <2>3
    <1>3. ASSUME NEW t \in DOMAIN trades, AddWindow(t)
          PROVE  DOMAIN tradesTs' = Traders /\ \A u \in Traders : SetBacked(u, tradesTs'[u])
      <2>1. trades[t].entryAt \in Int /\ trades[t].entryAt <= trades[t].entryAt
        BY RowAssumption DEF RowsStored
      <2>2. tradesTs' = [tradesTs EXCEPT ![trades[t].userId] = AddNX(@, t, trades[t].entryAt)]
        BY <1>3 DEF AddWindow
      <2> QED BY <1>2, <2>1, <2>2
    <1>4. CASE WindowAdd
      <2>1. at \in 1..Len(stream)
        BY <1>4, InHand DEF WindowAdd, At
      <2>2. PICK t \in DOMAIN trades : /\ Msg.tradeId = t /\ Msg.userId = trades[t].userId
                                       /\ Msg.entryAt \in Int /\ Msg.entryAt <= trades[t].entryAt
        BY <2>1, EntryFields DEF Msg
      <2>3. tradesTs' = [tradesTs EXCEPT ![Msg.userId] = AddNX(@, Msg.tradeId, Msg.entryAt)]
        BY <1>4 DEF WindowAdd
      <2> QED BY <1>2, <2>2, <2>3
    <1>5. CASE WindowTrim
      <2>1. PICK kept : /\ kept \subseteq DOMAIN tradesTs[Msg.userId]
                        /\ tradesTs' = [tradesTs EXCEPT ![Msg.userId] =
                                            [x \in kept |-> tradesTs[Msg.userId][x]]]
        BY <1>5 DEF WindowTrim, Restrict
      <2> DEFINE new == [x \in kept |-> tradesTs[Msg.userId][x]]
      <2>2. Msg.userId \in Traders => SetBacked(Msg.userId, new)
        BY <1>1, <2>1 DEF SetBacked
      <2> HIDE DEF new
      <2>3. tradesTs' = [tradesTs EXCEPT ![Msg.userId] = new]
        BY <2>1 DEF new
      <2> QED BY <1>1, <2>2, <2>3
    <1>6. CASE UNCHANGED tradesTs
      BY <1>1, <1>6
    <1> QED BY <1>3, <1>4, <1>5, <1>6, WindowSteps

\* The trades behind a count, after the step.
StoredSinceAfter(u, start) ==
    {t \in DOMAIN trades' : trades'[t].userId = u /\ trades'[t].entryAt >= start}

LEMMA StoredSinceGrows ==
    ASSUME RowsStored, [Next]_vars, NEW u, NEW start
    PROVE  /\ Cardinality(StoredSince(u, start)) \in Nat
           /\ Cardinality(StoredSinceAfter(u, start)) \in Nat
           /\ Cardinality(StoredSince(u, start)) <= Cardinality(StoredSinceAfter(u, start))
    <1>1. IsFiniteSet(DOMAIN trades')
      BY RowsStoredStep DEF RowsStored
    <1>2. StoredSinceAfter(u, start) \in SUBSET DOMAIN trades'
      BY DEF StoredSinceAfter
    <1>3. StoredSince(u, start) \in SUBSET StoredSinceAfter(u, start)
      BY FeedGrows DEF StoredSince, StoredSinceAfter
    <1>4. IsFiniteSet(StoredSinceAfter(u, start))
      BY <1>1, <1>2, FS_Subset
    <1> QED BY <1>3, <1>4, FS_Subset, FS_CardinalityType


\* A count reaches the report from the window count only.
LEMMA ReportSteps ==
    ASSUME TypeOK, RowsStored, [Next]_vars, step' = "report"
    PROVE  WindowCount \/ (step = "report" /\ scratch' = scratch)
    <1> USE DEF At, Goto
    <1>1. CASE WindowCount
      BY <1>1
    <1>2. CASE Api \/ Signal \/ Exit \/ Start \/ ReadGroup \/ ReadLost
      BY <1>2 DEF Api, InsertRow, PublishRow, AddWindow, Signal, Exit, Start, ReadGroup, ReadLost,
                  Idle, localVars, TypeOK
    <1>3. CASE Crash \/ Ack \/ Ignore \/ Count \/ ReadRatings \/ WriteAdherence \/ ReadTilt \/ WriteTilt
      BY <1>3 DEF Crash, Ack, Ignore, Count, ReadRatings, WriteAdherence, ReadTilt, WriteTilt,
                  AfterCount, AfterTilt
    <1>4. CASE CountEmotion \/ WindowAdd \/ WindowTrim \/ WindowFails \/ ReportOvertrading
      BY <1>4 DEF CountEmotion, WindowAdd, WindowTrim, WindowFails, ReportOvertrading
    <1>5. CASE UNCHANGED vars
      BY <1>5 DEF vars
    <1> QED BY <1>1, <1>2, <1>3, <1>4, <1>5 DEF Next, Work, Run, ProcessMessage

\* What is counted in a window is in the table.
LEMMA WindowCounted ==
    ASSUME TypeOK, RowsStored, WindowsBacked, WindowCount, step' = "report"
    PROVE  /\ scratch' \in Nat
           /\ scratch' <= Cardinality(StoredSince(Msg.userId, WindowStart))
    <1>1. /\ Msg.userId \in Traders /\ Msg.entryAt \in Int
      BY InHand, EntryFields DEF Msg, WindowCount, At
    <1>2. WindowStart \in Int
      BY <1>1, TicksAssumption DEF WindowStart
    <1> DEFINE set == tradesTs[Msg.userId]
               counted == {t \in DOMAIN set : set[t] >= WindowStart}
    <1>3. scratch' = Cardinality(counted)
      BY DEF WindowCount, Goto
    <1>4. counted \in SUBSET StoredSince(Msg.userId, WindowStart)
      <2> SUFFICES ASSUME NEW t \in DOMAIN set, set[t] >= WindowStart
                   PROVE  t \in StoredSince(Msg.userId, WindowStart)
        OBVIOUS
      <2>1. /\ t \in DOMAIN trades /\ trades[t].userId = Msg.userId
            /\ set[t] \in Int /\ set[t] <= trades[t].entryAt
        BY <1>1 DEF WindowsBacked
      <2>2. trades[t].entryAt \in Int
        BY <2>1, RowAssumption DEF RowsStored
      <2> HIDE DEF set
      <2>3. trades[t].entryAt >= WindowStart
        BY <1>2, <2>1, <2>2
      <2> QED BY <2>1, <2>3 DEF StoredSince
    <1>5. IsFiniteSet(StoredSince(Msg.userId, WindowStart))
      <2>1. StoredSince(Msg.userId, WindowStart) \in SUBSET DOMAIN trades
        BY DEF StoredSince
      <2> QED BY <2>1, FS_Subset DEF RowsStored
    <1> HIDE DEF counted
    <1> QED BY <1>3, <1>4, <1>5, FS_Subset, FS_CardinalityType

LEMMA WindowsBackedStep ==
    ASSUME TypeOK, RowsStored, WindowsBacked, [Next]_vars
    PROVE  WindowsBacked'
    <1>1. ASSUME NEW u \in Traders, NEW t \in DOMAIN tradesTs'[u]
          PROVE  /\ t \in DOMAIN trades' /\ trades'[t].userId = u
                 /\ tradesTs'[u][t] \in Int /\ tradesTs'[u][t] <= trades'[t].entryAt
      <2>1. /\ t \in DOMAIN trades /\ trades[t].userId = u
            /\ tradesTs'[u][t] \in Int /\ tradesTs'[u][t] <= trades[t].entryAt
        BY SetsStep DEF SetBacked
      <2>2. t \in DOMAIN trades' /\ trades'[t] = trades[t]
        BY <2>1, FeedGrows
      <2> QED BY <2>1, <2>2
    <1>2. ASSUME step' = "report"
          PROVE  /\ scratch' \in Nat
                 /\ scratch' <= Cardinality(StoredSinceAfter(Msg.userId, WindowStart))
      <2> DEFINE n == scratch'
                 before == Cardinality(StoredSince(Msg.userId, WindowStart))
                 after == Cardinality(StoredSinceAfter(Msg.userId, WindowStart))
      <2>1. n \in Nat /\ n <= before
        BY <1>2, ReportSteps, WindowCounted DEF WindowsBacked
      <2>2. before \in Nat /\ after \in Nat /\ before <= after
        BY StoredSinceGrows
      <2> HIDE DEF n, before, after
      <2>3. n \in Nat /\ n <= after
        BY <2>1, <2>2
      <2> QED BY <2>3 DEF n, after
    <1>3. step' = "report" => StoredSince(Msg.userId, WindowStart)' = StoredSinceAfter(Msg.userId, WindowStart)
      <2>1. step' = "report" => Msg' = Msg
        BY AtKept, MsgKept
      <2>2. Msg' = Msg => WindowStart' = WindowStart
        BY DEF WindowStart
      <2>3. StoredSince(Msg.userId, WindowStart)' = StoredSinceAfter(Msg'.userId, WindowStart')
        BY DEF StoredSince, StoredSinceAfter
      <2> QED BY <2>1, <2>2, <2>3
    <1> QED BY <1>1, <1>2, <1>3 DEF WindowsBacked, Traders

\* What overtrading_events may become.
LEMMA EventSteps ==
    ASSUME [Next]_vars
    PROVE  \/ /\ At("report")
              /\ overtrading' = Append(overtrading, [userId |-> Msg.userId, windowStart |-> WindowStart,
                                                     count |-> scratch])
           \/ UNCHANGED overtrading
    BY DEF Next, Api, Work, Run, ProcessMessage, vars, tableVars, InsertRow, PublishRow, AddWindow,
           ReadGroup, ReadLost, Signal, Exit, Crash, Start, Ignore, Count, ReadRatings, ReadTilt,
           WriteAdherence, WriteTilt, CountEmotion, WindowAdd, WindowTrim, WindowCount,
           WindowFails, ReportOvertrading, Ack

LEMMA OvertradingStep ==
    ASSUME TypeOK, RowsStored, WindowsBacked, OvertradingBacked, [Next]_vars
    PROVE  /\ overtrading' \in Seq([userId : Traders, windowStart : Int, count : Nat])
           /\ OvertradingBacked'
    <1> DEFINE Events == [userId : Traders, windowStart : Int, count : Nat]
               Backed(e) == e.count <= Cardinality(StoredSince(e.userId, e.windowStart))
               BackedAfter(e) == e.count <= Cardinality(StoredSinceAfter(e.userId, e.windowStart))
    <1>1. overtrading \in Seq(Events) /\ \A i \in 1..Len(overtrading) : Backed(overtrading[i])
      BY LenProperties DEF TypeOK, OvertradingBacked
    <1>2. ASSUME NEW e \in Events, Backed(e) PROVE BackedAfter(e)
      <2>1. e.count \in Nat
        OBVIOUS
      <2> QED BY <1>2, <2>1, StoredSinceGrows
    <1>3. ASSUME At("report")
          PROVE  LET e == [userId |-> Msg.userId, windowStart |-> WindowStart, count |-> scratch]
                 IN  e \in Events /\ Backed(e)
      <2>1. Msg.userId \in Traders /\ Msg.entryAt \in Int
        BY <1>3, InHand, EntryFields DEF Msg, At
      <2>2. WindowStart \in Int
        BY <2>1, TicksAssumption DEF WindowStart
      <2> QED BY <1>3, <2>1, <2>2 DEF WindowsBacked, At
    <1> HIDE DEF Events, Backed, BackedAfter
    <1>4. overtrading' \in Seq(Events) /\ \A i \in 1..Len(overtrading') : Backed(overtrading'[i])
      BY <1>1, <1>3, EventSteps, AppendProperties
    <1>5. \A i \in DOMAIN overtrading' : BackedAfter(overtrading'[i])
      BY <1>2, <1>4, LenProperties, ElementOfSeq
    <1> QED BY <1>4, <1>5 DEF Events, BackedAfter, OvertradingBacked, StoredSince, StoredSinceAfter

-----------------------------------------------------------------------------
(* Averages and tilts *)

\* The rows of a user that carry a rating carry one of 1 to 5, and are finitely
\* many.
LEMMA RatedRows ==
    ASSUME RowsStored, NEW u
    PROVE  /\ IsFiniteSet(Rated(u)) /\ Cardinality(Rated(u)) \in Nat
           /\ \A t \in Rated(u) : trades[t].adherence \in 1..5
    <1>1. Rated(u) \subseteq DOMAIN trades
      BY DEF Rated
    <1>2. \A t \in Rated(u) : trades[t].adherence \in 1..5
      BY RowAssumption DEF Rated, RowsStored
    <1> QED BY <1>1, <1>2, FS_Subset, FS_CardinalityType DEF RowsStored

\* An average over the rows the LIMIT leaves is in range.
LEMMA AverageInRange ==
    ASSUME RowsStored, NEW u, NEW S \in LastRated(u), S # {}
    PROVE  IsAverage(RollingAvg(S)) /\ RollingAvg(S)[2] <= RatingWindow
    <1> DEFINE f == [t \in S |-> trades[t].adherence]
               n == Cardinality(S)
               sum == SumFunctionOnSet(f, S)
    <1>1. S \subseteq Rated(u) /\ IsFiniteSet(S) /\ n \in Nat
      BY RatedRows, FS_Subset, FS_CardinalityType DEF LastRated
    <1>2. n # 0
      BY <1>1, FS_EmptySet
    <1>3. n <= RatingWindow
      BY RatedRows, WorkerAssumption DEF LastRated
    <1>4. \A t \in S : f[t] \in 1..5
      BY <1>1, RatedRows
    <1>5. sum \in Int /\ 1 * n <= sum /\ sum <= 5 * n
      <2> HIDE DEF f
      <2> QED BY <1>1, <1>4, SumBounds
    <1>6. RollingAvg(S) = <<sum, n>>
      BY DEF RollingAvg, SumFunction
    <1> HIDE DEF sum, n
    <1>7. sum \in n..(5 * n)
      BY <1>1, <1>5
    <1> QED BY <1>1, <1>2, <1>3, <1>6, <1>7 DEF IsAverage

\* A tilt is a share of the rows that follow a row with an outcome.
LEMMA TiltInRange ==
    ASSUME RowsStored, NEW s, NEW order \in SessionOrders(s)
    PROVE  IsShare(SessionTilt(order))
    <1> DEFINE S == {t \in DOMAIN trades : trades[t].sessionId = s}
               After(outcomes) ==
                   {i \in DOMAIN order : i > 1 /\ trades[order[i - 1]].outcome \in outcomes}
               part == Cardinality(After({"loss"}))
               total == Cardinality(After(Outcomes))
    <1>1. IsFiniteSet(S) /\ Cardinality(S) \in Nat
      BY FS_Subset, FS_CardinalityType DEF RowsStored
    <1>2. DOMAIN order = 1..Cardinality(S)
      BY DEF SessionOrders, Bijection, Injection, Surjection
    <1>3. IsFiniteSet(DOMAIN order)
      BY <1>1, <1>2, FS_Interval
    <1>4. After({"loss"}) \subseteq After(Outcomes) /\ After(Outcomes) \subseteq DOMAIN order
      BY DEF Outcomes
    <1>5. part \in Nat /\ total \in Nat /\ part <= total
      <2> HIDE DEF After
      <2> QED BY <1>3, <1>4, FS_Subset, FS_CardinalityType
    <1>6. SessionTilt(order) = IF total = 0 THEN <<0, 1>> ELSE <<part, total>>
      BY DEF SessionTilt
    <1> HIDE DEF part, total
    <1> QED BY <1>5, <1>6 DEF IsShare

\* What an upsert does to the ratios of its key.
LEMMA UpsertRatios ==
    ASSUME NEW k, NEW inc, buckets' = UpsertBucket(k, inc), NEW j \in DOMAIN buckets'
    PROVE  \/ /\ j \in DOMAIN buckets
              /\ buckets'[j].adherence = buckets[j].adherence
              /\ buckets'[j].tilt = buckets[j].tilt
           \/ /\ j = k
              /\ buckets'[j].adherence = Coalesce(inc.adherence, Bucket(k).adherence)
              /\ buckets'[j].tilt = Coalesce(inc.tilt, Bucket(k).tilt)
    BY DEF UpsertBucket, Extend, Merge

\* What each of the three upserts carries of either ratio.
LEMMA RatiosOf ==
    /\ NoBucket.adherence = NULL /\ NoBucket.tilt = NULL
    /\ \A e : CountOf(e).adherence = NULL /\ CountOf(e).tilt = NULL
    /\ \A x : /\ [NoBucket EXCEPT !.adherence = x].adherence = x
              /\ [NoBucket EXCEPT !.adherence = x].tilt = NULL
              /\ [NoBucket EXCEPT !.tilt = x].tilt = x
              /\ [NoBucket EXCEPT !.tilt = x].adherence = NULL
    BY DEF NoBucket, CountOf

LEMMA RatiosInRangeStep ==
    ASSUME RatiosInRange, RatiosRead, [Next]_vars
    PROVE  RatiosInRange'
    <1> DEFINE AverageOk(x, k) ==
                   x # NULL => /\ IsAverage(x)
                               /\ x[2] <= RatingWindow \/ x = SeedBucket(k).adherence
               ShareOk(x) == x # NULL => IsShare(x)
    <1>1. \A k \in DOMAIN buckets : AverageOk(buckets[k].adherence, k) /\ ShareOk(buckets[k].tilt)
      BY DEF RatiosInRange
    <1>2. \A k : AverageOk(Bucket(k).adherence, k) /\ ShareOk(Bucket(k).tilt)
      BY <1>1, RatiosOf DEF Bucket
    <1>3. ASSUME NEW k, NEW inc, buckets' = UpsertBucket(k, inc),
                 AverageOk(inc.adherence, k), ShareOk(inc.tilt), NEW j \in DOMAIN buckets'
          PROVE  AverageOk(buckets'[j].adherence, j) /\ ShareOk(buckets'[j].tilt)
      <2>1. AverageOk(Coalesce(inc.adherence, Bucket(k).adherence), k)
        BY <1>2, <1>3 DEF Coalesce
      <2>2. ShareOk(Coalesce(inc.tilt, Bucket(k).tilt))
        BY <1>2, <1>3 DEF Coalesce
      <2> HIDE DEF AverageOk, ShareOk
      <2> QED BY <1>1, <1>3, <2>1, <2>2, UpsertRatios
    <1>4. ASSUME NEW j \in DOMAIN buckets'
          PROVE  AverageOk(buckets'[j].adherence, j) /\ ShareOk(buckets'[j].tilt)
      <2> HIDE DEF AverageOk, ShareOk
      <2>1. CASE buckets' = UpsertBucket(BucketKey(Msg), CountOf(Msg))
        <3>1. AverageOk(CountOf(Msg).adherence, BucketKey(Msg)) /\ ShareOk(CountOf(Msg).tilt)
          BY RatiosOf DEF AverageOk, ShareOk
        <3> QED BY <1>3, <2>1, <3>1
      <2>2. CASE /\ WriteAdherence
                 /\ buckets' = UpsertBucket(BucketKey(Msg), [NoBucket EXCEPT !.adherence = scratch])
        <3> DEFINE inc == [NoBucket EXCEPT !.adherence = scratch]
        <3>1. IsAverage(scratch) /\ scratch[2] <= RatingWindow
          BY <2>2 DEF WriteAdherence, At, RatiosRead
        <3>2. AverageOk(inc.adherence, BucketKey(Msg)) /\ ShareOk(inc.tilt)
          BY <3>1, RatiosOf DEF AverageOk, ShareOk
        <3> HIDE DEF inc
        <3>3. buckets' = UpsertBucket(BucketKey(Msg), inc)
          BY <2>2 DEF inc
        <3> QED BY <1>3, <3>2, <3>3
      <2>3. CASE /\ WriteTilt
                 /\ buckets' = UpsertBucket(BucketKey(Msg), [NoBucket EXCEPT !.tilt = scratch])
        <3> DEFINE inc == [NoBucket EXCEPT !.tilt = scratch]
        <3>1. IsShare(scratch)
          BY <2>3 DEF WriteTilt, At, RatiosRead
        <3>2. AverageOk(inc.adherence, BucketKey(Msg)) /\ ShareOk(inc.tilt)
          BY <3>1, RatiosOf DEF AverageOk, ShareOk
        <3> HIDE DEF inc
        <3>3. buckets' = UpsertBucket(BucketKey(Msg), inc)
          BY <2>3 DEF inc
        <3> QED BY <1>3, <3>2, <3>3
      <2>4. CASE UNCHANGED buckets
        BY <1>1, <2>4
      <2> QED BY <2>1, <2>2, <2>3, <2>4, BucketUpserts
    <1> QED BY <1>4 DEF RatiosInRange, SeedBucket

\* A ratio to be written was read in the step before.
LEMMA RatiosReadStep ==
    ASSUME TypeOK, RowsStored, RatiosRead, [Next]_vars
    PROVE  RatiosRead'
    <1> USE DEF At, Goto
    <1> SUFFICES ASSUME step' \in {"adhWrite", "tiltWrite"}
                 PROVE  RatiosRead'
      BY DEF RatiosRead
    <1>1. CASE ReadRatings
      <2>1. step' = "adhWrite" => \E S \in LastRated(Msg.userId) : S # {} /\ scratch' = RollingAvg(S)
        BY <1>1 DEF ReadRatings
      <2>2. step' # "tiltWrite"
        BY <1>1 DEF ReadRatings
      <2> QED BY <2>1, <2>2, AverageInRange DEF RatiosRead
    <1>2. CASE ReadTilt
      <2>1. step' = "tiltWrite" => \E order \in SessionOrders(Msg.sessionId) : scratch' = SessionTilt(order)
        BY <1>2 DEF ReadTilt, AfterTilt
      <2>2. step' # "adhWrite"
        BY <1>2 DEF ReadTilt, AfterTilt
      <2> QED BY <2>1, <2>2, TiltInRange DEF RatiosRead
    <1>3. CASE UNCHANGED <<step, scratch>>
      BY <1>3 DEF RatiosRead
    <1>4. CASE Api \/ Signal \/ Exit \/ Start \/ ReadGroup \/ ReadLost
      BY <1>3, <1>4 DEF Api, InsertRow, PublishRow, AddWindow, Signal, Exit, Start, ReadGroup,
                        ReadLost, localVars
    <1>5. CASE Crash \/ Ack \/ Ignore \/ Count \/ WriteAdherence \/ WriteTilt
      BY <1>5 DEF Crash, Ack, Ignore, Count, WriteAdherence, WriteTilt, AfterCount, AfterTilt
    <1>6. CASE CountEmotion \/ WindowAdd \/ WindowTrim \/ WindowCount \/ WindowFails \/ ReportOvertrading
      BY <1>6 DEF CountEmotion, WindowAdd, WindowTrim, WindowCount, WindowFails, ReportOvertrading
    <1>7. CASE UNCHANGED vars
      BY <1>3, <1>7 DEF vars
    <1> QED BY <1>1, <1>2, <1>4, <1>5, <1>6, <1>7 DEF Next, Work, Run, ProcessMessage

-----------------------------------------------------------------------------
(* Exact counts *)

\* The counters of b hold those of seed and the entries H of the log s.
Tally(b, seed, s, H) ==
    LET wins == {i \in H : s[i].outcome = "win"}
    IN  /\ b.trades = seed.trades + Cardinality(H)
        /\ b.wins = seed.wins + Cardinality(wins)
        /\ b.losses = seed.losses + Cardinality(H \ wins)
        /\ b.revenge = seed.revenge + Cardinality({i \in H : s[i].revengeFlag})
        /\ b.pnl = seed.pnl + SumFunction([i \in {j \in H : s[j].pnl # NULL} |-> s[i].pnl])

BucketAfter(k)  == IF k \in DOMAIN buckets' THEN buckets'[k] ELSE NoBucket
EmotionAfter(k) == IF k \in DOMAIN emotions' THEN emotions'[k] ELSE [wins |-> 0, losses |-> 0]

LEMMA ExactIsTally ==
    ASSUME NEW k, NEW n
    PROVE  /\ BucketExact(k, n) <=> Tally(Bucket(k), SeedBucket(k), stream, Hits(k, 1..n))
           /\ BucketExact(k, n)' <=> Tally(BucketAfter(k), SeedBucket(k), stream', HitsAfter(k, n))
           /\ EmotionExact(k, n)' <=>
                 EmotionAfter(k).wins + EmotionAfter(k).losses =
                     SeedEmotionCount(k) + Cardinality(EmotionHitsAfter(k, n))
    <1>1. BucketExact(k, n) <=> Tally(Bucket(k), SeedBucket(k), stream, Hits(k, 1..n))
      BY DEF BucketExact, Profit, Tally
    <1>2. /\ Hits(k, 1..n)' = HitsAfter(k, n)
          /\ EmotionHits(k, 1..n)' = EmotionHitsAfter(k, n)
      BY DEF Hits, EmotionHits, Felt, HitsAfter, EmotionHitsAfter, BucketKey, EmotionKey
    <1>3. Bucket(k)' = BucketAfter(k) /\ Emotion(k)' = EmotionAfter(k)
      BY DEF Bucket, Emotion, BucketAfter, EmotionAfter
    <1>4. BucketExact(k, n)' <=> Tally(BucketAfter(k), SeedBucket(k), stream', HitsAfter(k, n))
      BY <1>2, <1>3 DEF BucketExact, Profit, Tally, SeedBucket
    <1>5. EmotionExact(k, n)' <=>
                 EmotionAfter(k).wins + EmotionAfter(k).losses =
                     SeedEmotionCount(k) + Cardinality(EmotionHitsAfter(k, n))
      BY <1>2, <1>3 DEF EmotionExact, SeedEmotionCount
    <1> QED BY <1>1, <1>4, <1>5

\* Only the counters of the bucket and the entries counted matter.
LEMMA TallySame ==
    ASSUME NEW b, NEW c, NEW seed, NEW s, NEW s1, NEW H, Tally(b, seed, s, H),
           \A i \in H : s1[i] = s[i],
           c.trades = b.trades, c.wins = b.wins, c.losses = b.losses,
           c.revenge = b.revenge, c.pnl = b.pnl
    PROVE  Tally(c, seed, s1, H)
    <1>1. /\ {i \in H : s1[i].outcome = "win"} = {i \in H : s[i].outcome = "win"}
          /\ {i \in H : s1[i].revengeFlag} = {i \in H : s[i].revengeFlag}
          /\ {i \in H : s1[i].pnl # NULL} = {i \in H : s[i].pnl # NULL}
      OBVIOUS
    <1>2. [i \in {j \in H : s1[j].pnl # NULL} |-> s1[i].pnl] =
             [i \in {j \in H : s[j].pnl # NULL} |-> s[i].pnl]
      BY <1>1
    <1> QED BY <1>1, <1>2 DEF Tally

\* One entry more, counted as CountOf says.
LEMMA TallyAdd ==
    ASSUME NEW b, NEW c, NEW seed, NEW s, NEW H, NEW n, Tally(b, seed, s, H),
           IsBucket(b), IsBucket(seed), IsFiniteSet(H), n \notin H,
           \A i \in H \cup {n} : s[i].pnl \in Int \cup {NULL},
           c.trades = b.trades + CountOf(s[n]).trades,
           c.wins = b.wins + CountOf(s[n]).wins,
           c.losses = b.losses + CountOf(s[n]).losses,
           c.revenge = b.revenge + CountOf(s[n]).revenge,
           c.pnl = b.pnl + CountOf(s[n]).pnl
    PROVE  Tally(c, seed, s, H \cup {n})
    <1> DEFINE K == H \cup {n}
               W(I) == {i \in I : s[i].outcome = "win"}
               R(I) == {i \in I : s[i].revengeFlag}
               P(I) == {i \in I : s[i].pnl # NULL}
               f(I) == [i \in P(I) |-> s[i].pnl]
    <1>1. /\ {b.trades, b.wins, b.losses, b.revenge} \subseteq Nat /\ b.pnl \in Int
          /\ {seed.trades, seed.wins, seed.losses, seed.revenge} \subseteq Nat /\ seed.pnl \in Int
      BY DEF IsBucket
    <1>2. /\ CountOf(s[n]).trades = 1 /\ CountOf(s[n]).wins = Won(s[n])
          /\ CountOf(s[n]).losses = 1 - Won(s[n])
          /\ CountOf(s[n]).revenge = IF s[n].revengeFlag THEN 1 ELSE 0
          /\ CountOf(s[n]).pnl = IF s[n].pnl # NULL THEN s[n].pnl ELSE 0
      BY DEF CountOf, NoBucket
    <1>3. /\ IsFiniteSet(W(H)) /\ IsFiniteSet(H \ W(H)) /\ IsFiniteSet(R(H)) /\ IsFiniteSet(P(H))
          /\ n \notin W(H) /\ n \notin H \ W(H) /\ n \notin R(H) /\ n \notin P(H)
      <2>1. W(H) \subseteq H /\ H \ W(H) \subseteq H /\ R(H) \subseteq H /\ P(H) \subseteq H
        OBVIOUS
      <2> HIDE DEF W, R, P
      <2> QED BY <2>1, FS_Subset
    <1>4. /\ Cardinality(H) \in Nat /\ Cardinality(W(H)) \in Nat /\ Cardinality(H \ W(H)) \in Nat
          /\ Cardinality(R(H)) \in Nat
      BY <1>3, FS_CardinalityType
    <1>5. Cardinality(K) = Cardinality(H) + 1
      BY FS_AddElement
    <1>6. /\ Cardinality(W(K)) = Cardinality(W(H)) + Won(s[n])
          /\ Cardinality(K \ W(K)) = Cardinality(H \ W(H)) + 1 - Won(s[n])
      <2>1. CASE s[n].outcome = "win"
        <3>1. W(K) = W(H) \cup {n} /\ K \ W(K) = H \ W(H)
          BY <2>1
        <3>2. Won(s[n]) = 1
          BY <2>1 DEF Won
        <3>3. Cardinality(W(H) \cup {n}) = Cardinality(W(H)) + 1
          BY <1>3, FS_AddElement
        <3>4. Cardinality(K \ W(K)) = Cardinality(H \ W(H)) /\ Cardinality(W(K)) = Cardinality(W(H)) + 1
          BY <3>1, <3>3
        <3> HIDE DEF W, K
        <3> QED BY <1>4, <3>2, <3>4
      <2>2. CASE s[n].outcome # "win"
        <3>1. W(K) = W(H) /\ K \ W(K) = (H \ W(H)) \cup {n}
          BY <2>2
        <3>2. Won(s[n]) = 0
          BY <2>2 DEF Won
        <3>3. Cardinality((H \ W(H)) \cup {n}) = Cardinality(H \ W(H)) + 1
          BY <1>3, FS_AddElement
        <3>4. Cardinality(K \ W(K)) = Cardinality(H \ W(H)) + 1 /\ Cardinality(W(K)) = Cardinality(W(H))
          BY <3>1, <3>3
        <3> HIDE DEF W, K
        <3> QED BY <1>4, <3>2, <3>4
      <2> QED BY <2>1, <2>2
    <1>7. Cardinality(R(K)) = Cardinality(R(H)) + (IF s[n].revengeFlag THEN 1 ELSE 0)
      <2>1. CASE s[n].revengeFlag
        <3>1. R(K) = R(H) \cup {n}
          BY <2>1
        <3> HIDE DEF R, K
        <3> QED BY <1>3, <2>1, <3>1, FS_AddElement
      <2>2. CASE ~s[n].revengeFlag
        <3>1. R(K) = R(H)
          BY <2>2
        <3> HIDE DEF R, K
        <3> QED BY <1>4, <2>2, <3>1
      <2> QED BY <2>1, <2>2
    <1>8. /\ SumFunction(f(H)) \in Int
          /\ SumFunction(f(K)) = SumFunction(f(H)) + (IF s[n].pnl # NULL THEN s[n].pnl ELSE 0)
      <2>1. /\ SumFunction(f(H)) = SumFunctionOnSet(f(H), P(H))
            /\ SumFunction(f(K)) = SumFunctionOnSet(f(K), P(K))
        BY DEF SumFunction
      <2>2. /\ \A i \in P(H) : f(H)[i] \in Int /\ f(H)[i] = f(K)[i]
            /\ \A i \in P(K) : f(K)[i] \in Int
        OBVIOUS
      <2>3. CASE s[n].pnl # NULL
        <3>1. P(K) = P(H) \cup {n} /\ f(K)[n] = s[n].pnl
          BY <2>3
        <3> HIDE DEF f, P, K
        <3>2. SumFunctionOnSet(f(K), P(H) \cup {n}) = SumFunctionOnSet(f(K), P(H)) + f(K)[n]
          BY <1>3, <2>2, <3>1, SumAdd
        <3>3. SumFunctionOnSet(f(K), P(H)) = SumFunctionOnSet(f(H), P(H))
          BY <1>3, <2>2, SumSame
        <3>4. SumFunctionOnSet(f(H), P(H)) \in Int
          BY <1>3, <2>2, SumInt
        <3> QED BY <2>1, <2>3, <3>1, <3>2, <3>3, <3>4
      <2>4. CASE s[n].pnl = NULL
        <3>1. f(K) = f(H)
          BY <2>4
        <3> HIDE DEF f, P, K
        <3>2. SumFunctionOnSet(f(H), P(H)) \in Int
          BY <1>3, <2>2, SumInt
        <3> QED BY <2>1, <2>4, <3>1, <3>2
      <2> QED BY <2>3, <2>4
    <1>9. /\ b.trades = seed.trades + Cardinality(H)
          /\ b.wins = seed.wins + Cardinality(W(H))
          /\ b.losses = seed.losses + Cardinality(H \ W(H))
          /\ b.revenge = seed.revenge + Cardinality(R(H))
          /\ b.pnl = seed.pnl + SumFunction(f(H))
      BY DEF Tally
    <1>10. (/\ c.trades = seed.trades + Cardinality(K)
            /\ c.wins = seed.wins + Cardinality(W(K))
            /\ c.losses = seed.losses + Cardinality(K \ W(K))
            /\ c.revenge = seed.revenge + Cardinality(R(K))
            /\ c.pnl = seed.pnl + SumFunction(f(K))) => Tally(c, seed, s, K)
      BY DEF Tally
    <1>11. Won(s[n]) \in {0, 1} /\ s[n].pnl \in Int \cup {NULL}
      BY DEF Won
    <1> HIDE DEF K, W, R, f
    <1>12. /\ c.trades = seed.trades + Cardinality(K)
           /\ c.wins = seed.wins + Cardinality(W(K))
      BY <1>1, <1>2, <1>4, <1>5, <1>6, <1>9, <1>11
    <1>13. c.losses = seed.losses + Cardinality(K \ W(K))
      BY <1>1, <1>2, <1>4, <1>6, <1>9, <1>11
    <1>14. c.revenge = seed.revenge + Cardinality(R(K))
      BY <1>1, <1>2, <1>4, <1>7, <1>9
    <1>15. c.pnl = seed.pnl + SumFunction(f(K))
      BY <1>1, <1>2, <1>8, <1>9, <1>11
    <1> QED BY <1>10, <1>12, <1>13, <1>14, <1>15 DEF K

\* What an upsert does to the counters of any key.
LEMMA UpsertCounters ==
    ASSUME TypeOK, NEW k, NEW inc, IsBucket(inc), buckets' = UpsertBucket(k, inc), NEW j
    PROVE  LET b == Bucket(j)  c == BucketAfter(j)
           IN  /\ IsBucket(b)
               /\ j = k => /\ c.trades = b.trades + inc.trades
                           /\ c.wins = b.wins + inc.wins
                           /\ c.losses = b.losses + inc.losses
                           /\ c.revenge = b.revenge + inc.revenge
                           /\ c.pnl = b.pnl + inc.pnl
               /\ j # k => c = b
    <1>1. IsBucket(Bucket(j))
      BY Increments DEF TypeOK, Bucket
    <1>2. buckets' = [x \in DOMAIN buckets \cup {k} |->
                         IF x = k THEN Merge(Bucket(k), inc) ELSE buckets[x]]
      BY DEF UpsertBucket, Extend
    <1>3. j = k => BucketAfter(j) = Merge(Bucket(j), inc)
      BY <1>2 DEF BucketAfter
    <1>4. j # k => BucketAfter(j) = Bucket(j)
      BY <1>2 DEF BucketAfter, Bucket
    <1> QED BY <1>1, <1>3, <1>4 DEF Merge

\* The two upserts of ratios count nothing.
LEMMA NothingCounted ==
    ASSUME TypeOK, NEW k, NEW inc, NEW j, buckets' = UpsertBucket(k, inc), IsBucket(inc),
           inc.trades = 0, inc.wins = 0, inc.losses = 0, inc.revenge = 0, inc.pnl = 0
    PROVE  LET b == Bucket(j)  c == BucketAfter(j)
           IN  /\ c.trades = b.trades /\ c.wins = b.wins /\ c.losses = b.losses
               /\ c.revenge = b.revenge /\ c.pnl = b.pnl
    <1> DEFINE b == Bucket(j)  c == BucketAfter(j)
    <1>1. /\ IsBucket(b)
          /\ j = k => /\ c.trades = b.trades + inc.trades /\ c.wins = b.wins + inc.wins
                      /\ c.losses = b.losses + inc.losses
                      /\ c.revenge = b.revenge + inc.revenge /\ c.pnl = b.pnl + inc.pnl
          /\ j # k => c = b
      BY UpsertCounters
    <1> HIDE DEF b, c
    <1>2. b.trades \in Nat /\ b.wins \in Nat /\ b.losses \in Nat /\ b.revenge \in Nat /\ b.pnl \in Int
      BY <1>1 DEF IsBucket
    <1>3. /\ c.trades = b.trades /\ c.wins = b.wins /\ c.losses = b.losses
          /\ c.revenge = b.revenge /\ c.pnl = b.pnl
      BY <1>1, <1>2
    <1> QED BY <1>3 DEF b, c

LEMMA RatioCounters ==
    ASSUME TypeOK, NEW k, NEW inc, NEW x, NEW j, buckets' = UpsertBucket(k, inc),
           inc \in {[NoBucket EXCEPT !.adherence = x], [NoBucket EXCEPT !.tilt = x]}
    PROVE  LET b == Bucket(j)  c == BucketAfter(j)
           IN  /\ c.trades = b.trades /\ c.wins = b.wins /\ c.losses = b.losses
               /\ c.revenge = b.revenge /\ c.pnl = b.pnl
    <1>1. /\ IsBucket(inc) /\ inc.trades = 0 /\ inc.wins = 0 /\ inc.losses = 0
          /\ inc.revenge = 0 /\ inc.pnl = 0
      BY Increments DEF NoBucket
    <1> QED BY <1>1, NothingCounted

\* A key that no entry has fallen under yet is up to date too.
LEMMA ExactEverywhere ==
    ASSUME TypeOK, RowsStored, CountsUpToDate, NoFailure, NEW k
    PROVE  BucketExact(k, BucketFront) /\ EmotionExact(k, EmotionFront)
    <1>1. /\ BucketFront \in 0..Len(stream) /\ EmotionFront \in 0..Len(stream)
          /\ DOMAIN stream = 1..Len(stream) /\ Len(stream) \in Nat
      BY LenProperties DEF TypeOK, RowsStored, BucketFront, EmotionFront
    <1>2. ASSUME k \notin BucketKeys PROVE BucketExact(k, BucketFront)
      <2>1. Bucket(k) = NoBucket /\ SeedBucket(k) = NoBucket
        BY <1>2 DEF BucketKeys, CountsUpToDate, Bucket, SeedBucket
      <2>2. Hits(k, 1..BucketFront) = {}
        <3>1. \A i \in 1..BucketFront : BucketKey(stream[i]) # k
          BY <1>1, <1>2 DEF BucketKeys
        <3> QED BY <3>1 DEF Hits
      <2> DEFINE f == [i \in {j \in {} : stream[j].pnl # NULL} |-> stream[i].pnl]
      <2>3. SumFunction(f) = 0
        <3>1. DOMAIN f = {}
          OBVIOUS
        <3> HIDE DEF f
        <3> QED BY <3>1, SumEmpty DEF SumFunction
      <2>4. Tally(NoBucket, NoBucket, stream, {})
        BY <2>3, FS_EmptySet DEF Tally, NoBucket
      <2>5. Tally(NoBucket, NoBucket, stream, {}) =
            Tally(Bucket(k), SeedBucket(k), stream, Hits(k, 1..BucketFront))
        BY <2>1, <2>2
      <2> QED BY <2>4, <2>5, ExactIsTally
    <1>3. ASSUME k \notin EmotionKeys PROVE EmotionExact(k, EmotionFront)
      <2>1. Emotion(k) = [wins |-> 0, losses |-> 0] /\ SeedEmotionCount(k) = 0
        BY <1>3 DEF EmotionKeys, CountsUpToDate, Emotion, SeedEmotionCount
      <2>2. EmotionHits(k, 1..EmotionFront) = {}
        <3>1. \A i \in 1..EmotionFront : EmotionKey(stream[i]) # k
          BY <1>1, <1>3 DEF EmotionKeys
        <3> QED BY <3>1 DEF EmotionHits, Felt
      <2>3. /\ Emotion(k).wins = 0 /\ Emotion(k).losses = 0
            /\ Cardinality(EmotionHits(k, 1..EmotionFront)) = 0
        BY <2>1, <2>2, FS_EmptySet
      <2> QED BY <2>1, <2>3 DEF EmotionExact
    <1>4. /\ k \in BucketKeys => BucketExact(k, BucketFront)
          /\ k \in EmotionKeys => EmotionExact(k, EmotionFront)
      BY DEF CountsUpToDate
    <1> QED BY <1>2, <1>3, <1>4

\* Without failures and stops the worker stays up, and moves each front past an
\* entry only when the entry is counted or is none to count.
LEMMA SureSteps ==
    ASSUME TypeOK, RowsStored, ClosedOnly, [Next]_vars, NoFailure', ws = "up"
    PROVE  /\ NoFailure /\ ws' = "up"
           /\ \/ Count /\ buckets' = UpsertBucket(BucketKey(Msg), CountOf(Msg))
              \/ Ignore
              \/ BucketFront' = BucketFront /\ ~Count
           /\ \/ CountEmotion /\ emotions' = UpsertEmotion(Msg)
              \/ /\ EmotionFront = at - 1 /\ EmotionFront' = at /\ at \in 1..Len(stream)
                 /\ Msg.status # "closed" \/ Msg.emotion = NULL
                 /\ emotions' = emotions
              \/ EmotionFront' = EmotionFront /\ emotions' = emotions
    <1> USE DEF At, Goto
    <1>0. /\ ~DbMayFail /\ ~RedisMayFail /\ stops' = 0 /\ stops \in Nat /\ ws = "up"
          /\ ~DbFailure /\ ~RedisFailure
          /\ at \in Nat
      BY DEF NoFailure, TypeOK, DbFailure, RedisFailure
    <1>1. CASE Api \/ ReadGroup \/ UNCHANGED vars
      <2>1. UNCHANGED <<localVars, stops, emotions>>
        BY <1>1 DEF Api, InsertRow, PublishRow, AddWindow, ReadGroup, vars, localVars, tableVars
      <2>2. ~Count
        BY <1>1, <2>1 DEF Count, AfterCount, localVars
      <2> QED BY <1>0, <2>1, <2>2 DEF NoFailure, localVars, BucketFront, EmotionFront
    <1>2. ~(ReadLost \/ Signal \/ Exit \/ Crash \/ Start \/ WindowFails)
      BY <1>0 DEF ReadLost, Signal, Exit, Crash, Start, WindowFails
    <1>3. CASE Ignore
      <2>1. /\ step = "count" /\ step' = "ack" /\ at' = at /\ UNCHANGED <<ws, stops, emotions>>
            /\ Msg.status # "closed" /\ at \in 1..Len(stream)
        BY <1>3, InHand DEF Ignore, tableVars
      <2> QED BY <1>0, <1>3, <2>1 DEF NoFailure, EmotionFront
    <1>4. CASE Count
      <2>1. /\ step = "count" /\ step' \in {"adhRead", "tiltRead"}
            /\ at' = at /\ UNCHANGED <<ws, stops, emotions>>
            /\ buckets' = UpsertBucket(BucketKey(Msg), CountOf(Msg))
        BY <1>0, <1>4 DEF Count, AfterCount
      <2> QED BY <1>0, <1>4, <2>1 DEF NoFailure, EmotionFront
    <1>5. CASE CountEmotion
      <2>1. /\ step = "emotion" /\ step' = "zadd" /\ at' = at /\ UNCHANGED <<ws, stops>>
            /\ emotions' = UpsertEmotion(Msg)
        BY <1>0, <1>5 DEF CountEmotion
      <2>2. ~Count
        BY <2>1 DEF Count
      <2> QED BY <1>0, <1>5, <2>1, <2>2 DEF NoFailure, BucketFront
    <1>6. CASE ReadRatings \/ WriteAdherence \/ ReadTilt \/ WriteTilt
      <2>1. /\ step \in {"adhRead", "adhWrite", "tiltRead", "tiltWrite"}
            /\ step' \in {"adhWrite", "tiltRead", "tiltWrite"} \/ step' = AfterTilt
            /\ at' = at /\ UNCHANGED <<ws, stops, emotions>>
        BY <1>6 DEF ReadRatings, WriteAdherence, ReadTilt, WriteTilt, tableVars
      <2>2. \/ step' \in {"adhWrite", "tiltRead", "tiltWrite", "emotion"}
            \/ step' = "zadd" /\ Msg.emotion = NULL
        BY <2>1 DEF AfterTilt
      <2>3. at \in 1..Len(stream)
        BY <1>6, InHand DEF ReadRatings, WriteAdherence, ReadTilt, WriteTilt
      <2>4. ~Count /\ BucketFront' = BucketFront
        BY <2>1, <2>2 DEF Count, BucketFront
      <2> QED BY <1>0, <2>1, <2>2, <2>3, <2>4 DEF NoFailure, EmotionFront
    <1>7. CASE WindowAdd \/ WindowTrim \/ WindowCount \/ ReportOvertrading
      <2>1. /\ step \in {"zadd", "ztrim", "zcount", "report"}
            /\ step' \in {"ztrim", "zcount", "report", "ack"}
            /\ at' = at /\ UNCHANGED <<ws, stops, emotions>>
        BY <1>7 DEF WindowAdd, WindowTrim, WindowCount, ReportOvertrading, tableVars
      <2>2. ~Count /\ BucketFront' = BucketFront /\ EmotionFront' = EmotionFront
        BY <2>1 DEF Count, BucketFront, EmotionFront
      <2> QED BY <1>0, <2>1, <2>2 DEF NoFailure
    <1>8. CASE Ack
      <2>1. /\ step = "ack" /\ step' = "count" /\ at' = at + 1 /\ UNCHANGED <<ws, stops, emotions>>
        BY <1>8 DEF Ack, tableVars
      <2>2. ~Count /\ BucketFront' = BucketFront /\ EmotionFront' = EmotionFront
        BY <1>0, <2>1 DEF Count, BucketFront, EmotionFront
      <2> QED BY <1>0, <2>1, <2>2 DEF NoFailure
    <1> QED BY <1>1, <1>2, <1>3, <1>4, <1>5, <1>6, <1>7, <1>8 DEF Next, Work, Run, ProcessMessage

\* Signals and crashes are only ever added.
LEMMA StopsGrow ==
    ASSUME TypeOK, [Next]_vars
    PROVE  stops' = 0 => stops = 0
    <1>1. stops \in Nat
      BY WorkerAssumption DEF TypeOK
    <1>2. stops' = stops \/ stops' = stops + 1
      BY DEF Next, Api, Work, Run, ProcessMessage, vars, InsertRow, PublishRow, AddWindow, ReadGroup,
             ReadLost, Signal, Exit, Crash, Start, Ignore, Count, ReadRatings, ReadTilt, WriteAdherence,
             WriteTilt, CountEmotion, WindowAdd, WindowTrim, WindowCount, WindowFails,
             ReportOvertrading, Ack, Goto
    <1> QED BY <1>1, <1>2

\* The counters of both tables stay up to date.
LEMMA BucketExactStep ==
    ASSUME TypeOK, RowsStored, ClosedOnly, CountsUpToDate, [Next]_vars, NoFailure', NEW k
    PROVE  Tally(BucketAfter(k), SeedBucket(k), stream', HitsAfter(k, BucketFront'))
    <1> DEFINE m == BucketFront  n == BucketFront'
               H == Hits(k, 1..m)  H1 == HitsAfter(k, n)
               b == Bucket(k)  c == BucketAfter(k)
    <1>0. NoFailure /\ ws = "up"
      <2>1. NoFailure
        <3>1. stops' = 0 => stops = 0
          BY StopsGrow
        <3> QED BY <3>1 DEF NoFailure
      <2> QED BY <2>1 DEF CountsUpToDate
    <1>1. Tally(b, SeedBucket(k), stream, H)
      BY <1>0, ExactEverywhere, ExactIsTally
    <1>2. /\ m \in 0..Len(stream) /\ m \in Nat /\ Len(stream) \in Nat
          /\ \A i \in 1..Len(stream) : stream'[i] = stream[i]
      BY FeedGrows, Fronts
    <1>3. \A i \in 1..m : stream'[i] = stream[i] /\ i \in 1..Len(stream)
      BY <1>2
    <1>4. HitsAfter(k, m) = H /\ \A i \in H : i \in 1..m
      BY <1>3 DEF Hits, HitsAfter
    <1>5. IsFiniteSet(H) /\ IsBucket(b) /\ IsBucket(SeedBucket(k))
      <2>1. IsFiniteSet(H)
        <3>1. IsFiniteSet(1..m) /\ H \in SUBSET (1..m)
          BY <1>2, <1>4, FS_Interval
        <3> HIDE DEF H, m
        <3> QED BY <3>1, FS_Subset
      <2>2. IsBucket(b)
        BY Increments DEF Bucket, TypeOK
      <2>3. IsBucket(SeedBucket(k))
        BY Increments, SeedAssumption DEF SeedBucket
      <2> QED BY <2>1, <2>2, <2>3
    <1>6. ASSUME c.trades = b.trades, c.wins = b.wins, c.losses = b.losses,
                 c.revenge = b.revenge, c.pnl = b.pnl, H1 = H
          PROVE  Tally(c, SeedBucket(k), stream', H1)
      <2>1. \A i \in H : stream'[i] = stream[i]
        BY <1>3, <1>4
      <2> HIDE DEF b, c, H, H1
      <2> QED BY <1>1, <1>6, <2>1, TallySame
    <1>7. CASE Count /\ buckets' = UpsertBucket(BucketKey(Msg), CountOf(Msg))
      <2>1. at \in 1..Len(stream) /\ Msg.status = "closed" /\ stream' = stream
        BY <1>7, InHand DEF Count, At, feedVars
      <2>2. m = at - 1 /\ n = at
        BY <1>7, CountHits
      <2>3. IsBucket(CountOf(Msg))
        BY <2>1, EntryFields, CountIncrement DEF Msg
      <2>4. CASE k = BucketKey(Msg)
        <3>1. /\ c.trades = b.trades + CountOf(Msg).trades
              /\ c.wins = b.wins + CountOf(Msg).wins
              /\ c.losses = b.losses + CountOf(Msg).losses
              /\ c.revenge = b.revenge + CountOf(Msg).revenge
              /\ c.pnl = b.pnl + CountOf(Msg).pnl
          BY <1>7, <2>3, <2>4, UpsertCounters
        <3>2. H1 = H \cup {at} /\ at \notin H
          <4>1. 1..at = 1..(at - 1) \cup {at} /\ at \notin 1..(at - 1)
            BY <2>1
          <4>2. H1 = {i \in 1..at : stream[i].status = "closed" /\ BucketKey(stream[i]) = k}
            BY <2>1, <2>2 DEF HitsAfter
          <4>3. H = {i \in 1..(at - 1) : stream[i].status = "closed" /\ BucketKey(stream[i]) = k}
            BY <2>2 DEF Hits
          <4>4. stream[at].status = "closed" /\ BucketKey(stream[at]) = k
            BY <2>1, <2>4 DEF Msg
          <4> HIDE DEF H, H1
          <4> QED BY <4>1, <4>2, <4>3, <4>4
        <3>3. \A i \in H \cup {at} : stream[i].pnl \in Int \cup {NULL}
          BY <1>3, <1>4, <2>1, EntryFields
        <3> HIDE DEF b, c, H, H1
        <3>4. Tally(c, SeedBucket(k), stream, H \cup {at})
          BY <1>1, <1>5, <3>1, <3>2, <3>3, TallyAdd DEF Msg
        <3> QED BY <2>1, <3>2, <3>4 DEF c, H1
      <2>5. CASE k # BucketKey(Msg)
        <3>1. c = b
          BY <1>7, <2>3, <2>5, UpsertCounters
        <3>2. H1 = H
          <4>1. \A i \in 1..at : i \in 1..(at - 1) \/ i = at
            BY <2>1
          <4>2. \A i \in 1..(at - 1) : i \in 1..at
            BY <2>1
          <4> QED BY <2>1, <2>2, <2>5, <4>1, <4>2 DEF HitsAfter, Hits, Msg
        <3> QED BY <1>6, <3>1, <3>2
      <2> QED BY <2>4, <2>5
    <1>8. CASE Ignore
      <2>1. /\ at \in 1..Len(stream) /\ Msg.status # "closed" /\ stream' = stream
            /\ step = "count" /\ step' = "ack" /\ at' = at /\ buckets' = buckets
        BY <1>8, InHand DEF Ignore, At, Goto, feedVars, tableVars
      <2>2. m = at - 1 /\ n = at
        BY <2>1 DEF BucketFront
      <2>3. H1 = H
        <3>1. \A i \in 1..at : i \in 1..(at - 1) \/ i = at
          BY <2>1
        <3>2. \A i \in 1..(at - 1) : i \in 1..at
          BY <2>1
        <3> QED BY <2>1, <2>2, <3>1, <3>2 DEF HitsAfter, Hits, Msg
      <2>4. c = b
        BY <2>1 DEF Bucket, BucketAfter
      <2> QED BY <1>6, <2>3, <2>4
    <1>9. CASE n = m /\ ~Count
      <2>1. H1 = H
        BY <1>4, <1>9
      <2>2. /\ c.trades = b.trades /\ c.wins = b.wins /\ c.losses = b.losses
            /\ c.revenge = b.revenge /\ c.pnl = b.pnl
        <3>1. CASE buckets' = UpsertBucket(BucketKey(Msg), [NoBucket EXCEPT !.adherence = scratch])
          BY <3>1, RatioCounters
        <3>2. CASE buckets' = UpsertBucket(BucketKey(Msg), [NoBucket EXCEPT !.tilt = scratch])
          BY <3>2, RatioCounters
        <3>3. CASE buckets' = buckets
          BY <3>3 DEF Bucket, BucketAfter
        <3> QED BY <1>9, <3>1, <3>2, <3>3, BucketUpserts
      <2> QED BY <1>6, <2>1, <2>2
    <1> QED BY <1>0, <1>7, <1>8, <1>9, SureSteps

LEMMA EmotionExactStep ==
    ASSUME TypeOK, RowsStored, ClosedOnly, CountsUpToDate, [Next]_vars, NoFailure', NEW k
    PROVE  EmotionAfter(k).wins + EmotionAfter(k).losses =
               SeedEmotionCount(k) + Cardinality(EmotionHitsAfter(k, EmotionFront'))
    <1> DEFINE m == EmotionFront  n == EmotionFront'
               H == EmotionHits(k, 1..m)  H1 == EmotionHitsAfter(k, n)
               old == Emotion(k).wins + Emotion(k).losses
               new == EmotionAfter(k).wins + EmotionAfter(k).losses
               seed == SeedEmotionCount(k)
    <1>0. NoFailure /\ ws = "up"
      <2>1. NoFailure
        <3>1. stops' = 0 => stops = 0
          BY StopsGrow
        <3> QED BY <3>1 DEF NoFailure
      <2> QED BY <2>1 DEF CountsUpToDate
    <1>1. old = seed + Cardinality(H) /\ seed \in Nat /\ Cardinality(H) \in Nat
      BY <1>0, ExactEverywhere, Allowance DEF EmotionExact
    <1>2. /\ m \in 0..Len(stream) /\ m \in Nat /\ Len(stream) \in Nat
          /\ \A i \in 1..Len(stream) : stream'[i] = stream[i]
      BY FeedGrows, Fronts
    <1>3. \A i \in 1..m : stream'[i] = stream[i]
      BY <1>2
    <1>4. EmotionHitsAfter(k, m) = H
      BY <1>3 DEF EmotionHits, Felt, EmotionHitsAfter
    <1>5. CASE CountEmotion /\ emotions' = UpsertEmotion(Msg) /\ k = EmotionKey(Msg)
      <2>1. m = at - 1 /\ n = at /\ Cardinality(H1) = Cardinality(H) + 1
        BY <1>5, CountEmotionHits
      <2>2. new = old + 1
        BY <1>5, UpsertEmotionType DEF EmotionAfter
      <2> HIDE DEF new, old, H, H1, seed
      <2>3. new = seed + Cardinality(H1)
        BY <1>1, <2>1, <2>2
      <2> QED BY <2>3 DEF new, seed, H1
    <1>6. ASSUME EmotionAfter(k) = Emotion(k), H1 = H
          PROVE  new = seed + Cardinality(H1)
      BY <1>1, <1>6
    <1>7. CASE CountEmotion /\ emotions' = UpsertEmotion(Msg) /\ k # EmotionKey(Msg)
      <2>1. /\ at \in 1..Len(stream) /\ stream' = stream
        BY <1>7, InHand DEF CountEmotion, At, feedVars
      <2>2. m = at - 1 /\ n = at
        BY <1>7, CountEmotionHits
      <2>3. H1 = H
        <3>1. \A i \in 1..at : i \in 1..(at - 1) \/ i = at
          BY <2>1
        <3>2. \A i \in 1..(at - 1) : i \in 1..at
          BY <2>1
        <3> QED BY <1>7, <2>1, <2>2, <3>1, <3>2 DEF EmotionHitsAfter, EmotionHits, Felt, Msg
      <2>4. EmotionAfter(k) = Emotion(k)
        BY <1>7, UpsertEmotionType DEF EmotionAfter, Emotion
      <2> QED BY <1>6, <2>3, <2>4
    <1>8. CASE /\ m = at - 1 /\ n = at /\ at \in 1..Len(stream)
               /\ Msg.status # "closed" \/ Msg.emotion = NULL
               /\ emotions' = emotions
      <2>1. H1 = H
        <3>1. \A i \in 1..at : i \in 1..(at - 1) \/ i = at
          BY <1>8
        <3>2. \A i \in 1..(at - 1) : i \in 1..at
          BY <1>8
        <3>3. \A i \in 1..at : stream'[i] = stream[i]
          BY <1>2, <1>8
        <3> QED BY <1>8, <3>1, <3>2, <3>3 DEF EmotionHitsAfter, EmotionHits, Felt, Msg
      <2>2. EmotionAfter(k) = Emotion(k)
        BY <1>8 DEF EmotionAfter, Emotion
      <2> QED BY <1>6, <2>1, <2>2
    <1>9. CASE n = m /\ emotions' = emotions
      BY <1>4, <1>6, <1>9 DEF EmotionAfter, Emotion
    <1> QED BY <1>0, <1>5, <1>7, <1>8, <1>9, SureSteps

LEMMA CountsUpToDateStep ==
    ASSUME TypeOK, RowsStored, ClosedOnly, CountsUpToDate, [Next]_vars
    PROVE  CountsUpToDate'
    <1>1. DOMAIN buckets \subseteq DOMAIN buckets' /\ DOMAIN emotions \subseteq DOMAIN emotions'
      BY BucketUpserts, EmotionSteps DEF UpsertBucket, UpsertEmotion, Extend
    <1>2. ASSUME NoFailure'
          PROVE  /\ ws' = "up"
                 /\ \A k \in BucketKeys' : BucketExact(k, BucketFront)'
                 /\ \A k \in EmotionKeys' : EmotionExact(k, EmotionFront)'
      <2>1. ws = "up"
        <3>1. stops' = 0 => stops = 0
          BY StopsGrow
        <3> QED BY <1>2, <3>1 DEF NoFailure, CountsUpToDate
      <2>2. ws' = "up"
        BY <1>2, <2>1, SureSteps
      <2>3. ASSUME NEW k PROVE BucketExact(k, BucketFront)' /\ EmotionExact(k, EmotionFront)'
        <3>1. /\ Hits(k, 1..BucketFront)' = HitsAfter(k, BucketFront')
              /\ EmotionHits(k, 1..EmotionFront)' = EmotionHitsAfter(k, EmotionFront')
          BY HitsPrimed
        <3>2. Bucket(k)' = BucketAfter(k) /\ Emotion(k)' = EmotionAfter(k)
          BY DEF Bucket, Emotion, BucketAfter, EmotionAfter
        <3>3. BucketExact(k, BucketFront)' <=>
                 Tally(BucketAfter(k), SeedBucket(k), stream', HitsAfter(k, BucketFront'))
          BY <3>1, <3>2 DEF BucketExact, Profit, Tally, SeedBucket
        <3>4. EmotionExact(k, EmotionFront)' <=>
                 EmotionAfter(k).wins + EmotionAfter(k).losses =
                     SeedEmotionCount(k) + Cardinality(EmotionHitsAfter(k, EmotionFront'))
          BY <3>1, <3>2 DEF EmotionExact, SeedEmotionCount
        <3> QED BY <1>2, <3>3, <3>4, BucketExactStep, EmotionExactStep
      <2> QED BY <2>2, <2>3
    <1> QED BY <1>1, <1>2 DEF CountsUpToDate

-----------------------------------------------------------------------------
(* Revenge counts *)

\* Only counting a flagged entry adds to them.
LEMMA RevengeBackedStep ==
    ASSUME TypeOK, RowsStored, ClosedOnly, RevengeBacked, [Next]_vars
    PROVE  RevengeBacked'
    <1> SUFFICES ASSUME NEW k \in DOMAIN buckets', buckets'[k].revenge > SeedBucket(k).revenge
                 PROVE  \E i \in 1..Len(stream') : /\ stream'[i].status = "closed"
                                                  /\ BucketKey(stream'[i]) = k
                                                  /\ stream'[i].revengeFlag
      <2>1. DOMAIN stream' = 1..Len(stream')
        BY RowsStoredStep, LenProperties DEF RowsStored
      <2> QED BY <2>1 DEF RevengeBacked, Hits, SeedBucket, BucketKey
    <1>1. /\ Len(stream) \in Nat /\ Len(stream') \in Nat /\ Len(stream) <= Len(stream')
          /\ \A i \in 1..Len(stream) : stream'[i] = stream[i]
          /\ DOMAIN stream = 1..Len(stream)
      BY FeedGrows, LenProperties DEF RowsStored
    <1>2. BucketAfter(k) = buckets'[k]
      BY DEF BucketAfter
    <1>3. SeedBucket(k).revenge \in Nat
      BY SeedAssumption, Increments DEF SeedBucket, IsBucket
    \* The count is as high as before.
    <1>4. ASSUME BucketAfter(k).revenge = Bucket(k).revenge
          PROVE  \E i \in 1..Len(stream) : /\ stream[i].status = "closed"
                                          /\ BucketKey(stream[i]) = k
                                          /\ stream[i].revengeFlag
      <2>1. k \in DOMAIN buckets
        BY <1>2, <1>3, <1>4 DEF Bucket, NoBucket
      <2>2. buckets[k].revenge > SeedBucket(k).revenge
        BY <1>2, <1>4, <2>1 DEF Bucket
      <2> QED BY <1>1, <2>1, <2>2 DEF RevengeBacked, Hits
    <1>5. CASE UNCHANGED buckets
      <2>1. BucketAfter(k) = Bucket(k)
        BY <1>5 DEF BucketAfter, Bucket
      <2> QED BY <1>1, <1>4, <2>1
    <1>6. ASSUME NEW inc, buckets' = UpsertBucket(BucketKey(Msg), inc), IsBucket(inc),
                 inc.trades = 0, inc.wins = 0, inc.losses = 0, inc.revenge = 0, inc.pnl = 0
          PROVE  BucketAfter(k).revenge = Bucket(k).revenge
      BY <1>6, NothingCounted
    <1>7. CASE Count /\ buckets' = UpsertBucket(BucketKey(Msg), CountOf(Msg))
      <2>1. /\ at \in 1..Len(stream) /\ Msg = stream[at] /\ Msg.status = "closed"
            /\ Msg.pnl \in Int \cup {NULL}
        BY <1>7, InHand, EntryFields DEF Count, At, Msg
      <2>2. IsBucket(CountOf(Msg)) /\ CountOf(Msg).revenge = IF Msg.revengeFlag THEN 1 ELSE 0
        BY <2>1, CountIncrement DEF CountOf, NoBucket
      <2>3. /\ IsBucket(Bucket(k))
            /\ k = BucketKey(Msg) =>
                  BucketAfter(k).revenge = Bucket(k).revenge + CountOf(Msg).revenge
            /\ k # BucketKey(Msg) => BucketAfter(k) = Bucket(k)
        BY <1>7, <2>2, UpsertCounters
      <2>4. Bucket(k).revenge \in Nat
        BY <2>3 DEF IsBucket
      <2>5. CASE k = BucketKey(Msg) /\ Msg.revengeFlag
        BY <1>1, <2>1, <2>5
      <2>6. CASE ~(k = BucketKey(Msg) /\ Msg.revengeFlag)
        <3>1. BucketAfter(k).revenge = Bucket(k).revenge
          BY <2>2, <2>3, <2>4, <2>6
        <3> QED BY <1>1, <1>4, <3>1
      <2> QED BY <2>5, <2>6
    <1>8. CASE \E x : \/ buckets' = UpsertBucket(BucketKey(Msg), [NoBucket EXCEPT !.adherence = x])
                      \/ buckets' = UpsertBucket(BucketKey(Msg), [NoBucket EXCEPT !.tilt = x])
      <2>1. PICK inc :
               /\ buckets' = UpsertBucket(BucketKey(Msg), inc)
               /\ \E x : inc = [NoBucket EXCEPT !.adherence = x] \/ inc = [NoBucket EXCEPT !.tilt = x]
        BY <1>8
      <2>2. /\ IsBucket(inc) /\ inc.trades = 0 /\ inc.wins = 0 /\ inc.losses = 0
            /\ inc.revenge = 0 /\ inc.pnl = 0
        BY <2>1, Increments DEF NoBucket
      <2>3. BucketAfter(k).revenge = Bucket(k).revenge
        BY <1>6, <2>1, <2>2
      <2> QED BY <1>1, <1>4, <2>3
    <1> QED BY <1>5, <1>7, <1>8, BucketUpserts

-----------------------------------------------------------------------------
(* The invariant *)

LEMMA InitInv == Init => WorkerInv
    <1> SUFFICES ASSUME Init PROVE WorkerInv
      OBVIOUS
    <1> USE DEF Init, FeedInit
    <1>1. TypeOK
      <2>1. Len(stream) = 0 /\ "count" \in Steps
        BY DEF Steps
      <2>2. \A u \in Traders : DOMAIN tradesTs[u] = {}
        BY DEF EmptyMap
      <2> QED BY <2>1, <2>2, SeedAssumption, WorkerAssumption DEF TypeOK
    <1>2. RowsStored
      BY RowAssumption DEF RowsStored, StoredRows
    <1>3. ClosedOnly
      BY DEF ClosedOnly
    <1>4. CountsBacked
      <2>1. BucketFront = 0 /\ EmotionFront = 0
        BY DEF BucketFront, EmotionFront
      <2>2. \A k : /\ Cardinality(Hits(k, 1..BucketFront)) = 0
                   /\ Cardinality(EmotionHits(k, 1..EmotionFront)) = 0
        <3>1. \A k : Hits(k, 1..0) = {} /\ EmotionHits(k, 1..0) = {}
          BY DEF Hits, EmotionHits, Felt
        <3> QED BY <2>1, <3>1, FS_EmptySet
      <2>3. \A k \in DOMAIN buckets : buckets[k].trades \in Nat /\ buckets[k].trades = SeedCount(k)
        BY SeedAssumption DEF SeedCount, IsBucket
      <2>4. \A k \in DOMAIN emotions : /\ emotions[k].wins + emotions[k].losses \in Nat
                                       /\ emotions[k].wins + emotions[k].losses = SeedEmotionCount(k)
        BY SeedAssumption DEF SeedEmotionCount
      <2> QED BY <2>2, <2>3, <2>4 DEF CountsBacked
    <1>5. WindowsBacked
      BY DEF WindowsBacked, EmptyMap
    <1>6. OvertradingBacked
      BY DEF OvertradingBacked
    <1>7. RatiosInRange /\ RatiosRead
      BY SeedAssumption DEF RatiosInRange, RatiosRead, SeedBucket
    <1>8. CountsUpToDate
      <2>1. BucketFront = 0 /\ EmotionFront = 0
        BY DEF BucketFront, EmotionFront
      <2>2. \A k : Bucket(k) = SeedBucket(k)
        BY DEF Bucket, SeedBucket
      <2>3. \A k : Hits(k, 1..0) = {} /\ EmotionHits(k, 1..0) = {}
        BY DEF Hits, EmotionHits, Felt
      <2>4. ASSUME NEW k PROVE BucketExact(k, 0)
        <3> DEFINE f == [i \in {j \in {} : stream[j].pnl # NULL} |-> stream[i].pnl]
                   b == SeedBucket(k)
        <3>1. SumFunction(f) = 0
          <4>1. DOMAIN f = {}
            OBVIOUS
          <4> HIDE DEF f
          <4> QED BY <4>1, SumEmpty DEF SumFunction
        <3>2. {b.trades, b.wins, b.losses, b.revenge} \subseteq Nat /\ b.pnl \in Int
          BY Increments, SeedAssumption DEF SeedBucket, IsBucket
        <3> HIDE DEF b
        <3>3. Tally(b, b, stream, {})
          BY <3>1, <3>2, FS_EmptySet DEF Tally
        <3> QED BY <2>2, <2>3, <3>3, ExactIsTally DEF b
      <2>5. ASSUME NEW k PROVE EmotionExact(k, 0)
        <3>1. Emotion(k).wins + Emotion(k).losses = SeedEmotionCount(k) /\ SeedEmotionCount(k) \in Nat
          BY SeedAssumption DEF Emotion, SeedEmotionCount
        <3> QED BY <2>3, <3>1, FS_EmptySet DEF EmotionExact
      <2> QED BY <2>1, <2>4, <2>5 DEF CountsUpToDate
    <1>9. RevengeBacked
      BY SeedAssumption DEF RevengeBacked, SeedBucket, IsBucket
    <1> QED BY <1>1, <1>2, <1>3, <1>4, <1>5, <1>6, <1>7, <1>8, <1>9 DEF WorkerInv

LEMMA TypeStep ==
    ASSUME TypeOK, RowsStored, WindowsBacked, OvertradingBacked, [Next]_vars
    PROVE  TypeOK'
    <1>1. \A u \in Traders : DOMAIN tradesTs'[u] \subseteq DOMAIN trades'
      BY WindowsBackedStep DEF WindowsBacked
    <1>2. DOMAIN tradesTs' = Traders
      BY SetsStep
    <1>3. overtrading' \in Seq([userId : Traders, windowStart : Int, count : Nat])
      BY OvertradingStep
    <1> QED BY <1>1, <1>2, <1>3, PositionStep, TablesStep DEF TypeOK, Position

LEMMA InvStep ==
    ASSUME WorkerInv, [Next]_vars
    PROVE  WorkerInv'
    BY TypeStep, RowsStoredStep, ClosedOnlyStep, CountsBackedStep, WindowsBackedStep,
       OvertradingStep, RatiosInRangeStep, RatiosReadStep, CountsUpToDateStep,
       RevengeBackedStep DEF WorkerInv

\* The invariant holds for every value of the constants: Run, processMessage
\* and whatever interrupts them keep it.
THEOREM Inductive == Spec => []WorkerInv
    <1>1. WorkerInv /\ [Next]_vars => WorkerInv'
      BY InvStep
    <1> QED BY <1>1, InitInv, PTL DEF Spec

\* Every variable of the worker keeps its type.
THEOREM TypeCorrect == Spec => []TypeOK
    <1>1. WorkerInv => TypeOK
      BY DEF WorkerInv
    <1> QED BY <1>1, Inductive, PTL

LEMMA InvCountsOnce ==
    ASSUME WorkerInv
    PROVE  NoDoubleCount
    <1>1. /\ BucketFront \in 0..cursor /\ EmotionFront \in 0..cursor /\ cursor \in Nat
      BY LenProperties DEF WorkerInv, TypeOK, RowsStored, BucketFront, EmotionFront
    <1>2. ASSUME NEW k
          PROVE  /\ Cardinality(Hits(k, 1..BucketFront)) \in Nat
                 /\ Cardinality(Hits(k, 1..cursor)) \in Nat
                 /\ Cardinality(Hits(k, 1..BucketFront)) <= Cardinality(Hits(k, 1..cursor))
                 /\ Cardinality(EmotionHits(k, 1..EmotionFront)) \in Nat
                 /\ Cardinality(EmotionHits(k, 1..cursor)) \in Nat
                 /\ Cardinality(EmotionHits(k, 1..EmotionFront)) <= Cardinality(EmotionHits(k, 1..cursor))
      <2>1. IsFiniteSet(1..cursor)
        BY <1>1, FS_Interval
      <2>2. /\ Hits(k, 1..cursor) \in SUBSET (1..cursor)
            /\ EmotionHits(k, 1..cursor) \in SUBSET (1..cursor)
        BY DEF Hits, EmotionHits, Felt
      <2>3. /\ Hits(k, 1..BucketFront) \in SUBSET Hits(k, 1..cursor)
            /\ EmotionHits(k, 1..EmotionFront) \in SUBSET EmotionHits(k, 1..cursor)
        BY <1>1 DEF Hits, EmotionHits, Felt
      <2>4. IsFiniteSet(Hits(k, 1..cursor)) /\ IsFiniteSet(EmotionHits(k, 1..cursor))
        BY <2>1, <2>2, FS_Subset
      <2> QED BY <2>3, <2>4, FS_Subset, FS_CardinalityType
    <1>3. /\ \A k \in DOMAIN buckets : buckets[k].trades \in Nat
          /\ \A k \in DOMAIN emotions : emotions[k].wins + emotions[k].losses \in Nat
      BY DEF WorkerInv, TypeOK, IsBucket
    <1>4. CountsBacked
      BY DEF WorkerInv
    <1> QED BY <1>2, <1>3, <1>4, SeedCounts DEF CountsBacked, NoDoubleCount

\* No entry is counted twice in either table, whatever crashes, is started
\* again, is lost or is not acknowledged.
THEOREM NoDoubleCountAlways == Spec => []NoDoubleCount
    <1>1. WorkerInv => NoDoubleCount
      BY InvCountsOnce
    <1> QED BY <1>1, Inductive, PTL

\* Every overtrading event is backed by that many stored trades of its user.
THEOREM OvertradingBackedAlways == Spec => []OvertradingBacked
    <1>1. WorkerInv => OvertradingBacked
      BY DEF WorkerInv
    <1> QED BY <1>1, Inductive, PTL

\* Every stored average is one of ratings of 1 to 5 and every tilt a ratio from
\* 0 to 1, whatever the trades table was when each was read (UpsertAdherence,
\* UpsertTilt of processMessage).
THEOREM RatiosInRangeAlways == Spec => []RatiosInRange
    <1>1. WorkerInv => RatiosInRange
      BY DEF WorkerInv
    <1> QED BY <1>1, Inductive, PTL

LEMMA InvCountsExact ==
    ASSUME WorkerInv
    PROVE  CountsExact
    <1> SUFFICES ASSUME NoFailure, Idle
                 PROVE  /\ \A k \in BucketKeys : BucketExact(k, cursor)
                        /\ \A k \in EmotionKeys : EmotionExact(k, cursor)
      BY DEF CountsExact
    <1>1. TypeOK /\ RowsStored /\ CountsUpToDate
      BY DEF WorkerInv
    <1>2. /\ cursor \in Nat /\ at = cursor + 1 /\ step = "count"
      BY <1>1, LenProperties DEF TypeOK, RowsStored, Idle
    <1>3. BucketFront = cursor /\ EmotionFront = cursor
      BY <1>2 DEF BucketFront, EmotionFront
    <1> QED BY <1>1, <1>3 DEF CountsUpToDate

\* Without failures and stops, an idle worker has every delivered entry in every
\* counter of its key, wins, losses, revenge trades and profit, and nothing else
\* (UpsertMetricsBucket and UpsertEmotionWinRate of processMessage).
THEOREM CountsExactAlways == Spec => []CountsExact
    <1>1. WorkerInv => CountsExact
      BY InvCountsExact
    <1> QED BY <1>1, Inductive, PTL

-----------------------------------------------------------------------------
(* The refinement of the ledger *)

\* A log longer by one that begins with the old one is the old one extended.
LEMMA LongerByOne ==
    ASSUME NEW S, NEW old \in Seq(S), NEW new \in Seq(S), Len(new) = Len(old) + 1,
           \A i \in 1..Len(old) : new[i] = old[i]
    PROVE  \E k \in {new[i] : i \in DOMAIN new} : new = Append(old, k)
    <1> DEFINE k == new[Len(new)]
    <1>1. Len(old) \in Nat /\ DOMAIN new = 1..Len(new) /\ k \in S
      BY LenProperties, ElementOfSeq
    <1>2. /\ Append(old, k) \in Seq(S)
          /\ Len(Append(old, k)) = Len(old) + 1
          /\ \A i \in 1..Len(old) : Append(old, k)[i] = old[i]
          /\ Append(old, k)[Len(old) + 1] = k
      BY <1>1, AppendProperties
    <1>3. \A i \in 1..Len(new) : new[i] = Append(old, k)[i]
      BY <1>1, <1>2
    <1>4. new = Append(old, k)
      BY <1>2, <1>3, SeqEqual
    <1>5. Len(new) \in DOMAIN new
      BY <1>1
    <1> QED BY <1>4, <1>5

\* A function on the places of a sequence is a sequence as long.
LEMMA SequenceOfLength ==
    ASSUME NEW n \in Nat, NEW S, NEW f \in [1..n -> S]
    PROVE  f \in Seq(S) /\ Len(f) = n
    <1>1. f \in Seq(S)
      BY SeqDef
    <1>2. Len(f) \in Nat /\ DOMAIN f = 1..Len(f)
      BY <1>1, LenProperties
    <1>3. 1..n = 1..Len(f)
      BY <1>2
    <1>4. n = Len(f)
      BY <1>2, <1>3
    <1> QED BY <1>1, <1>4

\* Both logs are as long as the stream, and grow with it.
LEMMA LogsGrow ==
    ASSUME RowsStored, [Next]_vars
    PROVE  /\ Len(BucketLog) = Len(stream) /\ Len(EmotionLog) = Len(stream)
           /\ Len(BucketLog') = Len(stream') /\ Len(EmotionLog') = Len(stream')
           /\ \/ stream' = stream /\ BucketLog' = BucketLog /\ EmotionLog' = EmotionLog
              \/ /\ \E k \in {BucketLog'[i] : i \in DOMAIN BucketLog'} :
                        BucketLog' = Append(BucketLog, k)
                 /\ \E k \in {EmotionLog'[i] : i \in DOMAIN EmotionLog'} :
                        EmotionLog' = Append(EmotionLog, k)
                 /\ UNCHANGED <<groupVars, localVars, tableVars>>
    <1> DEFINE n == Len(stream)  m == Len(stream')
               b == BucketLog  b1 == BucketLog'  e == EmotionLog  e1 == EmotionLog'
               S == {b[i] : i \in 1..n} \cup {b1[i] : i \in 1..m}
                       \cup {e[i] : i \in 1..n} \cup {e1[i] : i \in 1..m}
    <1>1. /\ n \in Nat /\ m \in Nat /\ m >= n
          /\ DOMAIN stream = 1..n /\ DOMAIN stream' = 1..m
          /\ \A i \in 1..n : stream'[i] = stream[i]
      BY FeedGrows, RowsStoredStep, LenProperties DEF RowsStored
    <1>2. /\ b \in [1..n -> S] /\ e \in [1..n -> S]
          /\ b1 \in [1..m -> S] /\ e1 \in [1..m -> S]
      BY <1>1 DEF BucketLog, EmotionLog
    <1>3. \A i \in 1..n : i \in 1..m /\ b1[i] = b[i] /\ e1[i] = e[i]
      <2>1. \A i \in 1..n : i \in 1..m
        BY <1>1
      <2> QED BY <1>1, <2>1 DEF BucketLog, EmotionLog, BucketKey, EmotionKey
    <1>4. \/ stream' = stream
          \/ m = n + 1 /\ UNCHANGED <<groupVars, localVars, tableVars>>
      <2>1. ASSUME NEW t \in DOMAIN trades, PublishRow(t)
            PROVE  m = n + 1 /\ UNCHANGED <<groupVars, localVars, tableVars>>
        <3>1. stream' = Append(stream, EventOf(trades[t]))
          BY <2>1 DEF PublishRow, FeedPublish
        <3>2. m = n + 1
          BY <3>1, AppendProperties DEF RowsStored
        <3> QED BY <2>1, <3>2 DEF PublishRow
      <2>2. ASSUME NEW row \in Rows, InsertRow(row) PROVE stream' = stream
        BY <2>2 DEF InsertRow, FeedInsert
      <2> QED BY <2>1, <2>2, FeedSteps DEF feedVars
    <1>5. stream' = stream => b1 = b /\ e1 = e
      BY DEF BucketLog, EmotionLog, BucketKey, EmotionKey
    <1> HIDE DEF n, m, b, b1, e, e1, S
    <1>6. /\ b \in Seq(S) /\ Len(b) = n /\ b1 \in Seq(S) /\ Len(b1) = m
          /\ e \in Seq(S) /\ Len(e) = n /\ e1 \in Seq(S) /\ Len(e1) = m
      BY <1>1, <1>2, SequenceOfLength
    <1>7. m = n + 1 => /\ \E k \in {b1[i] : i \in DOMAIN b1} : b1 = Append(b, k)
                       /\ \E k \in {e1[i] : i \in DOMAIN e1} : e1 = Append(e, k)
      BY <1>3, <1>6, LongerByOne
    <1> QED BY <1>4, <1>5, <1>6, <1>7 DEF n, m, b, b1, e, e1

\* An upsert sets one count of the ledger.
LEMMA UpsertCounts ==
    ASSUME TypeOK, NEW k, NEW inc, IsBucket(inc), buckets' = UpsertBucket(k, inc)
    PROVE  /\ TradeCounts(buckets') = BucketLedger!Set(k, BucketLedger!Tally(k) + inc.trades)
           /\ inc.trades = 0 /\ k \in DOMAIN buckets => TradeCounts(buckets') = TradeCounts(buckets)
           /\ inc.trades = 0 /\ k \notin DOMAIN buckets =>
                 TradeCounts(buckets') = BucketLedger!Set(k, 0)
    <1> DEFINE c == TradeCounts(buckets)  c1 == TradeCounts(buckets')
               tally == IF k \in DOMAIN c THEN c[k] ELSE 0
    <1>1. /\ DOMAIN c = DOMAIN buckets /\ DOMAIN c1 = DOMAIN c \cup {k}
          /\ c1 = [j \in DOMAIN c \cup {k} |-> c1[j]] /\ c = [j \in DOMAIN c |-> c[j]]
          /\ \A j \in DOMAIN c \ {k} : c1[j] = c[j]
      BY UpsertBucketType DEF TradeCounts
    <1>2. inc.trades \in Nat /\ \A j \in DOMAIN c : c[j] \in Nat
      BY DEF TypeOK, IsBucket, TradeCounts
    <1>3. c1[k] = tally + inc.trades
      <2>1. k \in DOMAIN buckets => c1[k] = c[k] + inc.trades
        BY UpsertBucketType DEF TradeCounts
      <2>2. k \notin DOMAIN buckets => c1[k] = inc.trades
        BY UpsertBucketType DEF TradeCounts
      <2> HIDE DEF c, c1
      <2> QED BY <1>1, <1>2, <2>1, <2>2
    <1> HIDE DEF c, c1
    <1>4. c1 = [j \in DOMAIN c \cup {k} |-> IF j = k THEN tally + inc.trades ELSE c[j]]
      BY <1>1, <1>3
    <1>5. inc.trades = 0 => tally + inc.trades = tally
      BY <1>2
    <1>6. inc.trades = 0 /\ k \in DOMAIN c => c1 = c
      BY <1>1, <1>3, <1>5
    <1>7. inc.trades = 0 /\ k \notin DOMAIN c =>
             c1 = [j \in DOMAIN c \cup {k} |-> IF j = k THEN 0 ELSE c[j]]
      BY <1>4
    <1> QED BY <1>1, <1>4, <1>6, <1>7 DEF BucketLedger!Set, BucketLedger!Tally, c, c1

\* Every step of the worker and its environment is a step of the bucket ledger.
LEMMA BucketLedgerStep ==
    ASSUME WorkerInv, [Next]_vars
    PROVE  [BucketLedger!Next]_BucketLedger!ledgerVars
    <1> USE DEF WorkerInv
    <1>1. CASE stream' # stream
      <2>1. UNCHANGED <<BucketFront, TradeCounts(buckets)>>
        BY <1>1, LogsGrow DEF BucketFront, TradeCounts, localVars, tableVars
      <2> QED BY <1>1, <2>1, LogsGrow DEF BucketLedger!Next, BucketLedger!Arrive
    <1>2. CASE stream' = stream /\ UNCHANGED buckets
      <2>1. BucketLog' = BucketLog /\ TradeCounts(buckets)' = TradeCounts(buckets)
        BY <1>2, LogsGrow DEF TradeCounts
      <2> DEFINE f == BucketFront  f1 == BucketFront'  n == Len(BucketLog)
      <2>2. f \in 0..n /\ f1 \in 0..n /\ f <= f1 /\ n \in Nat
        BY <1>2, Fronts, LogsGrow, FeedGrows
      <2> HIDE DEF f, f1, n
      <2>3. f1 = f \/ f1 \in (f + 1)..n
        BY <2>2
      <2> QED BY <2>1, <2>3 DEF f, f1, n, BucketLedger!Next, BucketLedger!Pass,
                                BucketLedger!ledgerVars
    <1>3. CASE stream' = stream /\ Count /\ buckets' = UpsertBucket(BucketKey(Msg), CountOf(Msg))
      <2>1. at \in 1..Len(stream) /\ Msg.status = "closed"
        BY <1>3, InHand DEF Count, At
      <2>2. IsBucket(CountOf(Msg)) /\ CountOf(Msg).trades = 1 /\ BucketKey(Msg) # NULL
        BY <2>1, EntryFields, CountIncrement DEF Msg
      <2>3. /\ BucketFront = at - 1 /\ BucketFront' = at
            /\ BucketFront + 1 = at /\ BucketFront < Len(BucketLog)
            /\ BucketFront' = BucketFront + 1
        BY <1>3, <2>1, CountHits, LogsGrow, FeedGrows
      <2>4. BucketLog[BucketFront + 1] = BucketKey(Msg)
        BY <2>1, <2>3, LenProperties DEF BucketLog, Msg
      <2>5. BucketLog' = BucketLog
        BY <1>3, LogsGrow
      <2>6. TradeCounts(buckets') =
               BucketLedger!Set(BucketKey(Msg), BucketLedger!Tally(BucketKey(Msg)) + 1)
        BY <1>3, <2>2, UpsertCounts
      <2>7. BucketLedger!Count
        BY <2>2, <2>3, <2>4, <2>5, <2>6 DEF BucketLedger!Count, TradeCounts
      <2> QED BY <2>7 DEF BucketLedger!Next
    <1>4. ASSUME NEW inc, stream' = stream, WriteAdherence \/ WriteTilt,
                 IsBucket(inc), inc.trades = 0, buckets' = UpsertBucket(BucketKey(Msg), inc)
          PROVE  [BucketLedger!Next]_BucketLedger!ledgerVars
      <2>1. step # "count" /\ step' # "count" /\ at' = at
        BY <1>4 DEF WriteAdherence, WriteTilt, At, Goto, AfterTilt
      <2>2. BucketFront' = BucketFront /\ BucketLog' = BucketLog
        BY <1>4, <2>1, LogsGrow DEF BucketFront
      <2> DEFINE k == BucketKey(Msg)
      <2>3. CASE k \in DOMAIN buckets
        <3>1. TradeCounts(buckets') = TradeCounts(buckets)
          BY <1>4, <2>3, UpsertCounts
        <3> QED BY <2>2, <3>1 DEF BucketLedger!ledgerVars, TradeCounts
      <2>4. CASE k \notin DOMAIN buckets
        <3>1. TradeCounts(buckets') = BucketLedger!Set(k, 0)
          BY <1>4, <2>4, UpsertCounts
        <3>2. k \in DOMAIN TradeCounts(buckets') \ DOMAIN TradeCounts(buckets)
          BY <1>4, <2>4, UpsertBucketType DEF TradeCounts
        <3> HIDE DEF k
        <3>3. BucketLedger!Open
          BY <2>2, <3>1, <3>2 DEF BucketLedger!Open, TradeCounts
        <3> QED BY <3>3 DEF BucketLedger!Next
      <2> QED BY <2>3, <2>4
    <1> QED BY <1>1, <1>2, <1>3, <1>4, BucketSteps

\* Every step of the worker and its environment is a step of the emotion ledger.
LEMMA EmotionLedgerStep ==
    ASSUME WorkerInv, [Next]_vars
    PROVE  [EmotionLedger!Next]_EmotionLedger!ledgerVars
    <1> USE DEF WorkerInv
    <1>1. CASE stream' # stream
      <2>1. UNCHANGED <<EmotionFront, EmotionCounts(emotions)>>
        BY <1>1, LogsGrow DEF EmotionFront, EmotionCounts, localVars, tableVars
      <2> QED BY <1>1, <2>1, LogsGrow DEF EmotionLedger!Next, EmotionLedger!Arrive
    <1>2. CASE stream' = stream /\ UNCHANGED emotions
      <2>1. EmotionLog' = EmotionLog /\ EmotionCounts(emotions)' = EmotionCounts(emotions)
        BY <1>2, LogsGrow DEF EmotionCounts
      <2> DEFINE f == EmotionFront  f1 == EmotionFront'  n == Len(EmotionLog)
      <2>2. f \in 0..n /\ f1 \in 0..n /\ f <= f1 /\ n \in Nat
        BY <1>2, Fronts, LogsGrow, FeedGrows
      <2> HIDE DEF f, f1, n
      <2>3. f1 = f \/ f1 \in (f + 1)..n
        BY <2>2
      <2> QED BY <2>1, <2>3 DEF f, f1, n, EmotionLedger!Next, EmotionLedger!Pass,
                                EmotionLedger!ledgerVars
    <1>3. CASE stream' = stream /\ CountEmotion /\ emotions' = UpsertEmotion(Msg)
      <2>1. at \in 1..Len(stream) /\ Msg.status = "closed" /\ Msg.emotion # NULL
        BY <1>3, InHand DEF CountEmotion, At, ClosedOnly
      <2> DEFINE k == EmotionKey(Msg)
                 c == EmotionCounts(emotions)  c1 == EmotionCounts(emotions')
                 tally == IF k \in DOMAIN c THEN c[k] ELSE 0
      <2>2. k # NULL
        BY <2>1, EntryFields DEF Msg
      <2>3. /\ EmotionFront = at - 1 /\ EmotionFront' = at
            /\ EmotionFront + 1 = at /\ EmotionFront < Len(EmotionLog)
            /\ EmotionFront' = EmotionFront + 1
        BY <1>3, <2>1, CountEmotionHits, LogsGrow, FeedGrows
      <2>4. EmotionLog[EmotionFront + 1] = k
        BY <2>1, <2>3, LenProperties DEF EmotionLog, Msg
      <2>5. EmotionLog' = EmotionLog
        BY <1>3, LogsGrow
      <2>6. c1 = [j \in DOMAIN c \cup {k} |-> IF j = k THEN tally + 1 ELSE c[j]]
        <3>1. /\ DOMAIN c = DOMAIN emotions /\ DOMAIN c1 = DOMAIN c \cup {k}
              /\ c1 = [j \in DOMAIN c \cup {k} |-> c1[j]]
              /\ \A j \in DOMAIN c \ {k} : c1[j] = c[j]
          BY <1>3, UpsertEmotionType DEF EmotionCounts
        <3>2. c1[k] = Emotion(k).wins + Emotion(k).losses + 1
          BY <1>3, UpsertEmotionType DEF EmotionCounts
        <3>3. Emotion(k).wins + Emotion(k).losses = tally
          BY DEF EmotionCounts, Emotion
        <3> HIDE DEF c, c1, k, tally
        <3> QED BY <3>1, <3>2, <3>3
      <2>7. c1 = EmotionLedger!Set(k, EmotionLedger!Tally(k) + 1)
        <3> HIDE DEF c1, k
        <3> QED BY <2>6 DEF EmotionLedger!Set, EmotionLedger!Tally
      <2> HIDE DEF k
      <2>8. EmotionLedger!Count
        BY <2>2, <2>3, <2>4, <2>5, <2>7 DEF EmotionLedger!Count, EmotionCounts
      <2> QED BY <2>8 DEF EmotionLedger!Next
    <1> QED BY <1>1, <1>2, <1>3, EmotionSteps

\* Before the first entry both ledgers are those of the seed.
LEMMA LedgersInit ==
    ASSUME Init
    PROVE  BucketLedger!Init /\ EmotionLedger!Init
    <1>1. BucketLog = <<>> /\ EmotionLog = <<>>
      <2>1. DOMAIN stream = {}
        BY DEF Init, FeedInit
      <2>2. BucketLog = [i \in {} |-> NULL] /\ EmotionLog = [i \in {} |-> NULL]
        BY <2>1 DEF BucketLog, EmotionLog
      <2> QED BY <2>2
    <1>2. BucketFront = 0 /\ EmotionFront = 0
      BY DEF Init, BucketFront, EmotionFront
    <1> QED BY <1>1, <1>2 DEF Init, BucketLedger!Init, EmotionLedger!Init

\* Both tables of counters implement the ledger: across every failure, lost
\* reply, crash and restart, entries are gone through in order, and each is
\* counted once or never.
THEOREM CountedInOrderAlways == Spec => CountedInOrder
    <1>1. Init => BucketLedger!Init /\ EmotionLedger!Init
      BY LedgersInit
    <1>2. WorkerInv /\ [Next]_vars => /\ [BucketLedger!Next]_BucketLedger!ledgerVars
                                      /\ [EmotionLedger!Next]_EmotionLedger!ledgerVars
      BY BucketLedgerStep, EmotionLedgerStep
    <1> QED BY <1>1, <1>2, Inductive, PTL DEF Spec, CountedInOrder, BucketLedger!Spec, EmotionLedger!Spec

=============================================================================
