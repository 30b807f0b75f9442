-------------------------- MODULE TradeIngestProofs --------------------------
(***************************************************************************)
(* Theorems about TradeIngest, for every set of requests, users, bodies    *)
(* and seed rows, with or without failures.                                *)
(***************************************************************************)
EXTENDS TradeIngest, TLAPS

-----------------------------------------------------------------------------
(* Lemmas about the operators *)

\* Cutting an instant to its second moves it back by less than a second.
LEMMA SecondsBelow ==
    ASSUME NEW t \in Int
    PROVE  /\ Unix(t) \in Int
           /\ FromUnix(Unix(t)) <= t
           /\ t < FromUnix(Unix(t)) + TicksPerSecond
    BY TicksAssumption DEF Unix, FromUnix

\* The row built from a posted body keeps the body's id, user and instants, and
\* is a row if the table takes it.
LEMMA BuiltRow ==
    ASSUME NEW p \in Accepted, NEW f \in BOOLEAN
    PROVE  /\ Insertable(p) => BuildTrade(p, f) \in Rows
           /\ BuildTrade(p, f).tradeId = p.tradeId
           /\ p.tradeId \in TradeIds
           /\ BuildTrade(p, f).userId = p.userId
           /\ BuildTrade(p, f).emotion = p.emotion
           /\ BuildTrade(p, f).entryAt = p.entryAt
           /\ BuildTrade(p, f).exitAt = p.exitAt
           /\ BuildTrade(p, f).revengeFlag = f
    <1>1. Insertable(p) => BuildTrade(p, f) \in Rows
      BY DEF Rows
    <1>2. p.tradeId \in TradeIds
      BY DEF TradeIds, Accepted
    <1> QED BY <1>1, <1>2 DEF BuildTrade

\* Rows have a known id, a known user, and instants.
LEMMA RowFields ==
    ASSUME NEW row \in Rows
    PROVE  /\ row.tradeId \in TradeIds
           /\ row.userId \in Users
           /\ row.entryAt \in Int
           /\ IsLosingClose(row) => row.exitAt \in Int
    <1>1. CASE \E p \in Accepted, f \in BOOLEAN : row = BuildTrade(p, f)
      BY <1>1, BuiltRow, PayloadAssumption DEF IsLosingClose, Accepted
    <1>2. CASE \E t \in DOMAIN SeedTrades : row = SeedTrades[t]
      BY <1>2, SeedAssumption DEF IsLosingClose, TradeIds
    <1> QED BY <1>1, <1>2 DEF Rows

\* A flag set from the second of a stored losing close is justified by it.
LEMMA FlagFromLoss ==
    ASSUME NEW loss \in Rows, NEW p \in Accepted,
           IsLosingClose(loss), loss.userId = p.userId,
           IsRevenge(FromUnix(Unix(loss.exitAt)), p.entryAt, p.emotion)
    PROVE  Justifies(loss, BuildTrade(p, TRUE))
    <1>1. loss.exitAt \in Int /\ p.entryAt \in Int
      BY RowFields, PayloadAssumption DEF Accepted
    <1>2. /\ FromUnix(Unix(loss.exitAt)) \in Int
          /\ FromUnix(Unix(loss.exitAt)) <= loss.exitAt
          /\ loss.exitAt < FromUnix(Unix(loss.exitAt)) + TicksPerSecond
      BY <1>1, SecondsBelow, TicksAssumption DEF FromUnix
    <1>3. /\ p.entryAt - loss.exitAt > 0 - TicksPerSecond
          /\ p.entryAt - loss.exitAt < RevengeWindow
      BY <1>1, <1>2, TicksAssumption DEF IsRevenge, RevengeWindow
    <1>4. p.emotion \in {"anxious", "fearful"}
      BY DEF IsRevenge
    <1> QED BY <1>3, <1>4, BuiltRow DEF Justifies

-----------------------------------------------------------------------------
(* Type correctness *)

LEMMA InitTypeOK == Init => TypeOK
    <1> SUFFICES ASSUME Init PROVE TypeOK
      OBVIOUS
    <1>1. /\ DOMAIN trades \subseteq TradeIds
          /\ \A t \in DOMAIN trades : trades[t] \in Rows /\ trades[t].tradeId = t
      BY SeedAssumption DEF Init, FeedInit, TradeIds, Rows
    <1>2. stream \in Seq({EventOf(row) : row \in Rows})
      BY DEF Init, FeedInit
    <1> QED BY <1>1, <1>2, BoundAssumption DEF Init, TypeOK, EmptyMap, InFlight

\* What a handler does with a row it stored or found keeps the types.
LEMMA ProceedType ==
    ASSUME TypeOK, NEW r \in Reqs, NEW row \in Rows, Proceed(r, row)
    PROVE  /\ pc' \in [Reqs -> {"idle", "done", "crashed"} \cup InFlight]
           /\ result' \in [Reqs -> Rows \cup {NULL}]
           /\ pending' \in [Reqs -> SUBSET {"lastLoss", "xadd", "zadd"}]
    BY DEF TypeOK, Proceed, EffectsOf, InFlight

\* Storing the row of a posted body keeps the table's type.
LEMMA InsertType ==
    ASSUME TypeOK, NEW row \in Rows, FeedInsert(row)
    PROVE  /\ DOMAIN trades' \subseteq TradeIds
           /\ \A t \in DOMAIN trades' : trades'[t] \in Rows /\ trades'[t].tradeId = t
    BY RowFields DEF TypeOK, FeedInsert, Extend

LEMMA TypeStep ==
    ASSUME TypeOK, InputPosted, ResultStored, LossPending, [Next]_vars
    PROVE  TypeOK'
    <1> USE DEF TypeOK, InFlight, redisVars, answerVars, feedVars
    <1>1. ASSUME NEW r \in Reqs, Receive(r) PROVE TypeOK'
      BY <1>1 DEF Receive, RejectInvalid, RejectForeign, Accept, Fail
    <1>2. ASSUME NEW r \in Reqs, Get(r) PROVE TypeOK'
      <2>1. /\ input' \in [Reqs -> {NULL} \cup Payloads \cup [tradeId : TradeIds \cup {NULL}]]
            /\ code' \in [Reqs -> {0, 200, 400, 403, 404, 500}]
            /\ result' \in [Reqs -> Rows \cup {NULL}]
        BY <1>2 DEF Get
      <2>2. pc' \in [Reqs -> {"idle", "done", "crashed"} \cup InFlight]
        BY <1>2 DEF Get
      <2>3. UNCHANGED <<trades, stream, lastLoss, tradesTs, flag, pending, cancelled, crashes>>
        BY <1>2 DEF Get
      <2> QED BY <2>1, <2>2, <2>3
    <1>3. ASSUME NEW r \in Reqs, CheckRevenge(r) PROVE TypeOK'
      <2>1. FlagFor(input[r]) \in BOOLEAN
        BY DEF FlagFor
      <2> QED BY <1>3, <2>1 DEF CheckRevenge
    <1>4. ASSUME NEW r \in Reqs, InsertTrade(r) PROVE TypeOK'
      <2>1. BuildTrade(input[r], flag[r]) \in Rows
        BY <1>4, BuiltRow DEF InsertTrade, InputPosted
      <2>2. /\ DOMAIN trades' \subseteq TradeIds
            /\ \A t \in DOMAIN trades' : trades'[t] \in Rows /\ trades'[t].tradeId = t
        BY <1>4, <2>1, InsertType DEF InsertTrade
      <2>3. /\ pc' \in [Reqs -> {"idle", "done", "crashed"} \cup InFlight]
            /\ result' \in [Reqs -> Rows \cup {NULL}]
            /\ pending' \in [Reqs -> SUBSET {"lastLoss", "xadd", "zadd"}]
        BY <1>4, <2>1, ProceedType DEF InsertTrade
      <2>4. UNCHANGED <<stream, lastLoss, tradesTs, input, flag, code, cancelled, crashes>>
        BY <1>4 DEF InsertTrade, FeedInsert
      <2> QED BY <2>2, <2>3, <2>4
    <1>5. ASSUME NEW r \in Reqs, InsertConflict(r) PROVE TypeOK'
      BY <1>5 DEF InsertConflict
    <1>6. ASSUME NEW r \in Reqs, InsertFails(r) PROVE TypeOK'
      BY <1>6 DEF InsertFails, Fail
    <1>7. ASSUME NEW r \in Reqs, InsertReplyLost(r) PROVE TypeOK'
      <2>1. BuildTrade(input[r], flag[r]) \in Rows
        BY <1>7, BuiltRow DEF InsertReplyLost, InputPosted
      <2> QED BY <1>7, <2>1, InsertType DEF InsertReplyLost, Fail, FeedInsert
    <1>8. ASSUME NEW r \in Reqs, SelectTrade(r) PROVE TypeOK'
      <2>1. UNCHANGED <<trades, stream, lastLoss, tradesTs, input, flag, cancelled, crashes>>
        BY <1>8 DEF SelectTrade
      <2>2. CASE /\ input[r].tradeId \in DOMAIN trades
                 /\ Proceed(r, trades[input[r].tradeId])
                 /\ UNCHANGED code
        BY <2>1, <2>2, ProceedType
      <2>3. CASE Fail(r, 500) /\ UNCHANGED <<result, pending>>
        BY <2>1, <2>3 DEF Fail
      <2> QED BY <1>8, <2>2, <2>3 DEF SelectTrade
    <1>9. ASSUME NEW r \in Reqs, Respond(r) PROVE TypeOK'
      BY <1>9 DEF Respond
    <1>10. ASSUME NEW r \in Reqs, pending[r] # {}
           PROVE  result[r] \in Rows /\ result[r].tradeId \in TradeIds
                  /\ result[r].userId \in Users
      BY <1>10, RowFields DEF ResultStored
    <1>11. ASSUME NEW r \in Reqs, SetLastLoss(r) PROVE TypeOK'
      <2>1. result[r] \in Rows /\ result[r].userId \in Users /\ Unix(result[r].exitAt) \in Int
        BY <1>10, <1>11, RowFields, SecondsBelow DEF SetLastLoss, Over, LossPending
      <2>2. DOMAIN lastLoss' \subseteq Users /\ \A u \in DOMAIN lastLoss' : lastLoss'[u] \in Int
        BY <1>11, <2>1 DEF SetLastLoss, Extend
      <2>3. pending' \in [Reqs -> SUBSET {"lastLoss", "xadd", "zadd"}]
        BY <1>11 DEF SetLastLoss, Over
      <2>4. UNCHANGED <<trades, stream, tradesTs, pc, input, flag, result, code, cancelled, crashes>>
        BY <1>11 DEF SetLastLoss, Over
      <2> QED BY <2>2, <2>3, <2>4
    <1>12. ASSUME NEW r \in Reqs, Publish(r) \/ PublishRetried(r) PROVE TypeOK'
      <2>1. EventOf(result[r]) \in {EventOf(row) : row \in Rows}
        BY <1>10, <1>12 DEF Publish, PublishRetried, Over
      <2>2. stream' \in Seq({EventOf(row) : row \in Rows})
        <3>1. stream' = Append(stream, EventOf(result[r]))
          BY <1>12 DEF Publish, PublishRetried
        <3>2. ASSUME NEW S, NEW q \in Seq(S), NEW e \in S PROVE Append(q, e) \in Seq(S)
          OBVIOUS
        <3> HIDE DEF TypeOK
        <3>3. stream \in Seq({EventOf(row) : row \in Rows})
          BY DEF TypeOK
        <3> QED BY <2>1, <3>1, <3>2, <3>3
      <2> QED BY <1>12, <2>2 DEF Publish, PublishRetried, Over
    <1>13. ASSUME NEW r \in Reqs, AddWindow(r) PROVE TypeOK'
      <2>1. /\ DOMAIN tradesTs' = Users
            /\ \A u \in Users : DOMAIN tradesTs'[u] \subseteq TradeIds
        BY <1>10, <1>13 DEF AddWindow, Over, Extend
      <2> QED BY <1>13, <2>1 DEF AddWindow, Over
    <1>14. ASSUME NEW r \in Reqs, DropEffect(r) PROVE TypeOK'
      BY <1>14 DEF DropEffect, Over
    <1>15. ASSUME NEW r \in Reqs, Disconnect(r) PROVE TypeOK'
      BY <1>15 DEF Disconnect
    <1>16. ASSUME NEW u \in Users, ExpireLastLoss(u) PROVE TypeOK'
      BY <1>16 DEF ExpireLastLoss
    <1>17. ASSUME StopServer PROVE TypeOK'
      BY <1>17, BoundAssumption DEF StopServer
    <1>18. ASSUME UNCHANGED vars PROVE TypeOK'
      BY <1>18 DEF vars
    <1> HIDE DEF TypeOK, InFlight
    <1> QED
      BY <1>1, <1>2, <1>3, <1>4, <1>5, <1>6, <1>7, <1>8, <1>9, <1>11, <1>12, <1>13,
         <1>14, <1>15, <1>16, <1>17, <1>18
      DEF Next, Handler, Background

-----------------------------------------------------------------------------
(* What a step does to the table, to the last-loss keys and to the flags   *)

\* No step changes or removes a stored row.
LEMMA RowsKept ==
    ASSUME [Next]_vars
    PROVE  \A t \in DOMAIN trades : t \in DOMAIN trades' /\ trades'[t] = trades[t]
    <1>1. CASE UNCHANGED trades
      BY <1>1
    <1>2. ASSUME NEW row, FeedInsert(row)
          PROVE  \A t \in DOMAIN trades : t \in DOMAIN trades' /\ trades'[t] = trades[t]
      BY <1>2 DEF FeedInsert, Extend
    <1>3. \/ UNCHANGED trades
          \/ \E r \in Reqs : FeedInsert(BuildTrade(input[r], flag[r]))
      BY DEF Next, Handler, Background, vars, feedVars, Receive, Get, CheckRevenge,
             InsertTrade, InsertConflict, InsertFails, InsertReplyLost, SelectTrade,
             Respond, SetLastLoss, Publish, PublishRetried, AddWindow, DropEffect,
             Disconnect, ExpireLastLoss, StopServer
    <1> QED BY <1>1, <1>2, <1>3

\* A row that appears was built from the body and the flag of a handler at its
\* insert.
LEMMA RowsAdded ==
    ASSUME [Next]_vars, NEW t \in DOMAIN trades', t \notin DOMAIN trades
    PROVE  \E r \in Reqs : pc[r] = "insert" /\ trades'[t] = BuildTrade(input[r], flag[r])
    <1>1. PICK r \in Reqs : pc[r] = "insert" /\ FeedInsert(BuildTrade(input[r], flag[r]))
      BY DEF Next, Handler, Background, vars, feedVars, Receive, Get, CheckRevenge,
             InsertTrade, InsertConflict, InsertFails, InsertReplyLost, SelectTrade,
             Respond, SetLastLoss, Publish, PublishRetried, AddWindow, DropEffect,
             Disconnect, ExpireLastLoss, StopServer
    <1> DEFINE row == BuildTrade(input[r], flag[r])
    <1>2. trades' = Extend(trades, row.tradeId, row)
      BY <1>1 DEF FeedInsert
    <1>3. t = row.tradeId
      BY <1>2 DEF Extend
    <1> QED BY <1>1, <1>2, <1>3 DEF Extend

\* A last-loss key that is not as it was has just been set by a handler's
\* background call.
LEMMA LossChange ==
    ASSUME [Next]_vars, NEW u \in DOMAIN lastLoss'
    PROVE  \/ u \in DOMAIN lastLoss /\ lastLoss'[u] = lastLoss[u]
           \/ \E r \in Reqs : /\ "lastLoss" \in pending[r]
                             /\ u = result[r].userId
                             /\ lastLoss'[u] = Unix(result[r].exitAt)
    <1>1. \/ UNCHANGED lastLoss
          \/ \E v \in Users : ExpireLastLoss(v)
          \/ \E r \in Reqs : SetLastLoss(r)
      BY DEF Next, Handler, Background, vars, redisVars, Receive, Get, CheckRevenge,
             InsertTrade, InsertConflict, InsertFails, InsertReplyLost, SelectTrade,
             Respond, Publish, PublishRetried, AddWindow, DropEffect, Disconnect, StopServer
    <1>2. ASSUME NEW v \in Users, ExpireLastLoss(v)
          PROVE  u \in DOMAIN lastLoss /\ lastLoss'[u] = lastLoss[u]
      BY <1>2 DEF ExpireLastLoss
    <1>3. ASSUME NEW r \in Reqs, SetLastLoss(r)
          PROVE  \/ u \in DOMAIN lastLoss /\ lastLoss'[u] = lastLoss[u]
                 \/ /\ "lastLoss" \in pending[r]
                    /\ u = result[r].userId
                    /\ lastLoss'[u] = Unix(result[r].exitAt)
      <2>1. lastLoss' = Extend(lastLoss, result[r].userId, Unix(result[r].exitAt))
        BY <1>3 DEF SetLastLoss
      <2>2. "lastLoss" \in pending[r]
        BY <1>3 DEF SetLastLoss, Over
      <2> QED BY <2>1, <2>2 DEF Extend
    <1> QED BY <1>1, <1>2, <1>3

\* Up to its insert a request's body and flag only change when it is taken up,
\* which leaves the flag alone, and when it is checked.
LEMMA BeforeInsert ==
    ASSUME TypeOK, [Next]_vars, NEW r \in Reqs, pc'[r] \in {"idle", "revenge", "insert"}
    PROVE  \/ pc'[r] = pc[r] /\ input'[r] = input[r] /\ flag'[r] = flag[r]
           \/ pc[r] = "idle" /\ flag'[r] = flag[r]
           \/ CheckRevenge(r)
    <1> USE DEF TypeOK
    <1>1. ASSUME NEW q \in Reqs, Receive(q)
          PROVE  \/ pc'[r] = pc[r] /\ input'[r] = input[r] /\ flag'[r] = flag[r]
                 \/ pc[r] = "idle" /\ flag'[r] = flag[r]
      BY <1>1 DEF Receive, RejectInvalid, RejectForeign, Accept, Fail
    <1>2. ASSUME NEW q \in Reqs, q # r, CheckRevenge(q)
          PROVE  pc'[r] = pc[r] /\ input'[r] = input[r] /\ flag'[r] = flag[r]
      BY <1>2 DEF CheckRevenge
    <1>3. ASSUME NEW q \in Reqs, Get(q)
          PROVE  pc'[r] = pc[r] /\ input'[r] = input[r] /\ flag'[r] = flag[r]
      BY <1>3 DEF Get
    <1>4. ASSUME NEW q \in Reqs, \/ InsertTrade(q) \/ InsertConflict(q) \/ InsertFails(q)
                                \/ InsertReplyLost(q) \/ SelectTrade(q) \/ Respond(q)
          PROVE  pc'[r] = pc[r] /\ input'[r] = input[r] /\ flag'[r] = flag[r]
      BY <1>4 DEF InsertTrade, InsertConflict, InsertFails, InsertReplyLost, SelectTrade,
                  Respond, Proceed, Fail, answerVars
    <1>5. ASSUME NEW q \in Reqs, \/ Background(q) \/ PublishRetried(q) \/ Disconnect(q)
          PROVE  UNCHANGED <<pc, input, flag>>
      BY <1>5 DEF Background, SetLastLoss, Publish, PublishRetried, AddWindow, DropEffect,
                  Over, Disconnect, answerVars
    <1>6. ASSUME NEW u \in Users, ExpireLastLoss(u)
          PROVE  UNCHANGED <<pc, input, flag>>
      BY <1>6 DEF ExpireLastLoss, answerVars
    <1>7. ASSUME StopServer
          PROVE  pc'[r] = pc[r] /\ input'[r] = input[r] /\ flag'[r] = flag[r]
      BY <1>7 DEF StopServer, answerVars
    <1>8. ASSUME UNCHANGED vars
          PROVE  UNCHANGED <<pc, input, flag>>
      BY <1>8 DEF vars
    <1> HIDE DEF TypeOK
    <1> QED BY <1>1, <1>2, <1>3, <1>4, <1>5, <1>6, <1>7, <1>8 DEF Next, Handler

-----------------------------------------------------------------------------
(* The other parts of the inductive invariant *)

LEMMA InputPostedStep ==
    ASSUME TypeOK, InputPosted, NothingYet, [Next]_vars
    PROVE  InputPosted'
    <1> SUFFICES ASSUME NEW r \in Reqs, pc'[r] \in InFlight \/ pending'[r] # {}
                 PROVE  input'[r] \in Accepted
      BY DEF InputPosted
    <1> USE DEF TypeOK, InFlight
    <1>0. /\ pc[r] \in InFlight \/ pending[r] # {} => input[r] \in Accepted
          /\ pc[r] = "idle" => pending[r] = {}
      BY DEF InputPosted, NothingYet
    <1>1. ASSUME NEW q \in Reqs, Receive(q) PROVE input'[r] \in Accepted
      <2>1. CASE q = r
        BY <1>0, <1>1, <2>1 DEF Receive, RejectInvalid, RejectForeign, Accept, Fail, Accepted
      <2>2. CASE q # r
        BY <1>0, <1>1, <2>2 DEF Receive, RejectInvalid, RejectForeign, Accept, Fail
      <2> QED BY <2>1, <2>2
    <1>2. ASSUME NEW q \in Reqs, Get(q) PROVE input'[r] \in Accepted
      <2>1. CASE q = r
        BY <1>0, <1>2, <2>1 DEF Get
      <2>2. CASE q # r
        BY <1>0, <1>2, <2>2 DEF Get
      <2> QED BY <2>1, <2>2
    <1>3. ASSUME NEW q \in Reqs, Handler(q)
          PROVE  /\ pc[r] \in InFlight \/ pending[r] # {}
                 /\ input'[r] = input[r]
      BY <1>3 DEF Handler, CheckRevenge, InsertTrade, InsertConflict, InsertFails,
                  InsertReplyLost, SelectTrade, Respond, Proceed, Fail, answerVars
    <1>4. ASSUME NEW q \in Reqs, \/ Background(q) \/ PublishRetried(q) \/ Disconnect(q)
          PROVE  UNCHANGED <<pc, input>> /\ pending'[r] \subseteq pending[r]
      BY <1>4 DEF Background, SetLastLoss, Publish, PublishRetried, AddWindow, DropEffect,
                  Over, Disconnect, answerVars
    <1>5. ASSUME NEW u \in Users, ExpireLastLoss(u) PROVE UNCHANGED <<pc, input, pending>>
      BY <1>5 DEF ExpireLastLoss
    <1>6. ASSUME StopServer PROVE pc[r] \in InFlight /\ input'[r] = input[r]
      BY <1>6 DEF StopServer
    <1>7. ASSUME UNCHANGED vars PROVE UNCHANGED <<pc, input, pending>>
      BY <1>7 DEF vars
    <1> HIDE DEF TypeOK, InFlight
    <1> QED BY <1>0, <1>1, <1>2, <1>3, <1>4, <1>5, <1>6, <1>7 DEF Next

LEMMA NothingYetStep ==
    ASSUME TypeOK, NothingYet, [Next]_vars
    PROVE  NothingYet'
    <1> SUFFICES ASSUME NEW r \in Reqs, pc'[r] \in {"idle", "revenge", "insert", "select"}
                 PROVE  pending'[r] = {} /\ code'[r] = 0
      BY DEF NothingYet
    <1> USE DEF TypeOK, InFlight, NothingYet
    <1>1. ASSUME NEW q \in Reqs, Receive(q) \/ Get(q) PROVE pending'[r] = {} /\ code'[r] = 0
      BY <1>1 DEF Receive, RejectInvalid, RejectForeign, Accept, Fail, Get
    <1>2. ASSUME NEW q \in Reqs, Handler(q) PROVE pending'[r] = {} /\ code'[r] = 0
      BY <1>2 DEF Handler, CheckRevenge, InsertTrade, InsertConflict, InsertFails,
                  InsertReplyLost, SelectTrade, Respond, Proceed, Fail, answerVars
    <1>3. ASSUME NEW q \in Reqs, Background(q) \/ PublishRetried(q)
          PROVE  pending'[r] \subseteq pending[r] /\ UNCHANGED <<pc, code>>
      BY <1>3 DEF Background, SetLastLoss, Publish, PublishRetried, AddWindow, DropEffect,
                  Over, answerVars
    <1>4. ASSUME NEW q \in Reqs, Disconnect(q) PROVE UNCHANGED <<pc, code, pending>>
      BY <1>4 DEF Disconnect, answerVars
    <1>5. ASSUME NEW u \in Users, ExpireLastLoss(u) PROVE UNCHANGED <<pc, code, pending>>
      BY <1>5 DEF ExpireLastLoss, answerVars
    <1>6. ASSUME StopServer PROVE pending'[r] = {} /\ code'[r] = 0
      BY <1>6 DEF StopServer, answerVars
    <1>7. ASSUME UNCHANGED vars PROVE UNCHANGED <<pc, code, pending>>
      BY <1>7 DEF vars
    <1> HIDE DEF TypeOK, InFlight
    <1> QED BY <1>1, <1>2, <1>3, <1>4, <1>5, <1>6, <1>7 DEF Next

\* A request has a row to answer or publish.
HasRow(r) == pc[r] = "respond" \/ pending[r] # {} \/ code[r] = 200

\* What ResultStored and LossPending say of one request.
RowOf(r) ==
    /\ HasRow(r) => /\ input[r].tradeId \in DOMAIN trades
                    /\ result[r] = trades[input[r].tradeId]
    /\ "lastLoss" \in pending[r] => IsLosingClose(result[r])

LEMMA RowStep ==
    ASSUME TypeOK, InputPosted, NothingYet, [Next]_vars, NEW r \in Reqs, RowOf(r)
    PROVE  RowOf(r)'
    <1> USE DEF TypeOK, RowOf, HasRow
    <1>0. \A t \in DOMAIN trades : t \in DOMAIN trades' /\ trades'[t] = trades[t]
      BY RowsKept
    <1>1. ASSUME UNCHANGED <<pc[r], code[r], input[r], result[r]>>, pending'[r] \subseteq pending[r]
          PROVE  RowOf(r)'
      BY <1>0, <1>1
    <1>2. ASSUME NEW q \in Reqs, Receive(q) PROVE RowOf(r)'
      <2>1. CASE q = r
        BY <1>2, <2>1 DEF Receive, RejectInvalid, RejectForeign, Accept, Fail, NothingYet
      <2>2. CASE q # r
        <3>1. /\ UNCHANGED <<pc[r], code[r], input[r], result[r]>>
              /\ UNCHANGED pending
          BY <1>2, <2>2 DEF Receive, RejectInvalid, RejectForeign, Accept, Fail
        <3> QED BY <1>1, <3>1
      <2> QED BY <2>1, <2>2
    <1>3. ASSUME NEW q \in Reqs, Get(q) PROVE RowOf(r)'
      <2>1. CASE q = r
        BY <1>3, <2>1 DEF Get, NothingYet, feedVars
      <2>2. CASE q # r
        <3>1. /\ UNCHANGED <<pc[r], code[r], input[r], result[r]>>
              /\ UNCHANGED pending
          BY <1>3, <2>2 DEF Get
        <3> QED BY <1>1, <3>1
      <2> QED BY <2>1, <2>2
    <1>4. ASSUME NEW q \in Reqs, q # r, Handler(q) PROVE RowOf(r)'
      <2>1. /\ UNCHANGED <<pc[r], code[r], input[r], result[r]>>
            /\ UNCHANGED pending[r]
        BY <1>4 DEF Handler, CheckRevenge, InsertTrade, InsertConflict, InsertFails,
                    InsertReplyLost, SelectTrade, Respond, Proceed, Fail, answerVars
      <2> QED BY <1>1, <2>1
    <1>5. ASSUME CheckRevenge(r) \/ InsertConflict(r) \/ InsertFails(r) \/ InsertReplyLost(r)
          PROVE  RowOf(r)'
      BY <1>5 DEF CheckRevenge, InsertConflict, InsertFails, InsertReplyLost, Fail,
                  answerVars, NothingYet
    <1>6. ASSUME NEW row, row.tradeId = input[r].tradeId, Proceed(r, row),
                 UNCHANGED <<input, code>>, pc[r] \in {"insert", "select"},
                 row.tradeId \in DOMAIN trades', trades'[row.tradeId] = row
          PROVE  RowOf(r)'
      BY <1>6 DEF Proceed, EffectsOf
    <1>7. ASSUME InsertTrade(r) PROVE RowOf(r)'
      <2> DEFINE row == BuildTrade(input[r], flag[r])
      <2>1. /\ Proceed(r, row) /\ UNCHANGED <<input, code>> /\ pc[r] = "insert"
            /\ trades' = Extend(trades, row.tradeId, row)
        BY <1>7 DEF InsertTrade, FeedInsert
      <2>2. row.tradeId = input[r].tradeId
        BY DEF BuildTrade
      <2>3. row.tradeId \in DOMAIN trades' /\ trades'[row.tradeId] = row
        BY <2>1 DEF Extend
      <2> HIDE DEF row
      <2> QED BY <1>6, <2>1, <2>2, <2>3
    <1>8. ASSUME SelectTrade(r) PROVE RowOf(r)'
      <2>1. CASE /\ input[r].tradeId \in DOMAIN trades
                 /\ Proceed(r, trades[input[r].tradeId])
                 /\ UNCHANGED code
        BY <1>0, <1>6, <1>8, <2>1 DEF SelectTrade
      <2>2. CASE Fail(r, 500) /\ UNCHANGED <<result, pending>>
        BY <1>8, <2>2 DEF SelectTrade, Fail, NothingYet
      <2> QED BY <1>8, <2>1, <2>2 DEF SelectTrade
    <1>9. ASSUME Respond(r) PROVE RowOf(r)'
      BY <1>0, <1>9 DEF Respond
    <1>10. ASSUME NEW q \in Reqs, Background(q) \/ PublishRetried(q) \/ Disconnect(q)
           PROVE  RowOf(r)'
      <2>1. /\ UNCHANGED <<pc, code, input, result>>
            /\ pending'[r] \subseteq pending[r]
        BY <1>10 DEF Background, SetLastLoss, Publish, PublishRetried, AddWindow, DropEffect,
                     Over, Disconnect, answerVars
      <2> QED BY <1>1, <2>1
    <1>11. ASSUME NEW u \in Users, ExpireLastLoss(u) PROVE RowOf(r)'
      BY <1>1, <1>11 DEF ExpireLastLoss, answerVars
    <1>12. ASSUME StopServer PROVE RowOf(r)'
      BY <1>0, <1>12 DEF StopServer, answerVars, InFlight
    <1>13. ASSUME UNCHANGED vars PROVE RowOf(r)'
      BY <1>1, <1>13 DEF vars
    <1> HIDE DEF TypeOK, RowOf, HasRow
    <1> QED BY <1>2, <1>3, <1>4, <1>5, <1>7, <1>8, <1>9, <1>10, <1>11, <1>12, <1>13
            DEF Next, Handler

\* SetLastLoss only copies the close of a stored losing trade.
LEMMA LossBackedStep ==
    ASSUME ResultStored, LossPending, LossBacked, [Next]_vars
    PROVE  LossBacked'
    <1> SUFFICES ASSUME NEW u \in DOMAIN lastLoss'
                 PROVE  \E s \in DOMAIN trades' : /\ IsLosingClose(trades'[s])
                                                 /\ trades'[s].userId = u
                                                 /\ Unix(trades'[s].exitAt) = lastLoss'[u]
      BY DEF LossBacked
    <1>1. \E s \in DOMAIN trades : /\ IsLosingClose(trades[s])
                                  /\ trades[s].userId = u
                                  /\ Unix(trades[s].exitAt) = lastLoss'[u]
      <2>1. CASE u \in DOMAIN lastLoss /\ lastLoss'[u] = lastLoss[u]
        BY <2>1 DEF LossBacked
      <2>2. ASSUME NEW r \in Reqs, "lastLoss" \in pending[r], u = result[r].userId,
                   lastLoss'[u] = Unix(result[r].exitAt)
            PROVE  \E s \in DOMAIN trades : /\ IsLosingClose(trades[s])
                                           /\ trades[s].userId = u
                                           /\ Unix(trades[s].exitAt) = lastLoss'[u]
        BY <2>2 DEF ResultStored, LossPending
      <2> QED BY <2>1, <2>2, LossChange
    <1> QED BY <1>1, RowsKept

\* A justification stays one: rows are never changed.
LEMMA JustifiedKept ==
    ASSUME [Next]_vars, NEW row, \E s \in DOMAIN trades : Justifies(trades[s], row)
    PROVE  \E s \in DOMAIN trades' : Justifies(trades'[s], row)
    BY RowsKept

LEMMA FlagJustifiedStep ==
    ASSUME TypeOK, InputPosted, LossBacked, FlagJustified, [Next]_vars
    PROVE  FlagJustified'
    <1> SUFFICES ASSUME NEW r \in Reqs
                 PROVE  /\ pc'[r] \in {"idle", "revenge"} => ~flag'[r]
                        /\ pc'[r] = "insert" /\ flag'[r] =>
                              \E s \in DOMAIN trades' :
                                  Justifies(trades'[s], BuildTrade(input'[r], TRUE))
      BY DEF FlagJustified
    <1>1. CASE pc'[r] \notin {"idle", "revenge", "insert"}
      BY <1>1
    <1>2. CASE pc'[r] = pc[r] /\ input'[r] = input[r] /\ flag'[r] = flag[r]
      BY <1>2, JustifiedKept DEF FlagJustified
    <1>3. CASE pc[r] = "idle" /\ flag'[r] = flag[r]
      BY <1>3 DEF FlagJustified
    <1>4. CASE CheckRevenge(r)
      <2>1. pc[r] = "revenge" /\ pc'[r] = "insert" /\ input' = input
        BY <1>4 DEF CheckRevenge, TypeOK
      <2>2. CASE flag' = flag
        BY <2>1, <2>2 DEF FlagJustified
      <2>3. CASE flag' = [flag EXCEPT ![r] = FlagFor(input[r])]
        <3> SUFFICES ASSUME flag'[r]
                     PROVE  \E s \in DOMAIN trades' :
                                Justifies(trades'[s], BuildTrade(input'[r], TRUE))
          BY <2>1
        <3>1. FlagFor(input[r])
          BY <2>3 DEF TypeOK
        <3>2. input[r] \in Accepted
          BY <2>1 DEF InputPosted, InFlight
        <3>3. PICK s \in DOMAIN trades :
                 /\ IsLosingClose(trades[s])
                 /\ trades[s].userId = input[r].userId
                 /\ Unix(trades[s].exitAt) = lastLoss[input[r].userId]
          BY <3>1 DEF FlagFor, LossBacked
        <3>4. Justifies(trades[s], BuildTrade(input[r], TRUE))
          BY <3>1, <3>2, <3>3, FlagFromLoss DEF FlagFor, TypeOK
        <3> QED BY <2>1, <3>4, JustifiedKept
      <2> QED BY <1>4, <2>2, <2>3 DEF CheckRevenge
    <1> QED BY <1>1, <1>2, <1>3, <1>4, BeforeInsert

LEMMA RevengeJustifiedStep ==
    ASSUME TypeOK, InputPosted, FlagJustified, RevengeJustified, [Next]_vars
    PROVE  RevengeJustified'
    <1> SUFFICES ASSUME NEW t \in DOMAIN trades', t \notin DOMAIN SeedTrades,
                        trades'[t].revengeFlag
                 PROVE  \E s \in DOMAIN trades' : Justifies(trades'[s], trades'[t])
      BY DEF RevengeJustified
    <1>1. CASE t \in DOMAIN trades
      <2>1. trades'[t] = trades[t]
        BY <1>1, RowsKept
      <2> QED BY <1>1, <2>1, JustifiedKept DEF RevengeJustified
    <1>2. CASE t \notin DOMAIN trades
      <2>1. PICK r \in Reqs : pc[r] = "insert" /\ trades'[t] = BuildTrade(input[r], flag[r])
        BY <1>2, RowsAdded
      <2>2. flag[r] = TRUE
        BY <2>1, BuiltRow DEF TypeOK, InputPosted, InFlight
      <2> QED BY <2>1, <2>2, JustifiedKept DEF FlagJustified
    <1> QED BY <1>1, <1>2

-----------------------------------------------------------------------------
(* The theorems *)

LEMMA InitInv ==
    ASSUME Init
    PROVE  IngestInv
    <1>1. /\ InputPosted /\ NothingYet /\ ResultStored /\ LossPending
          /\ LossBacked /\ FlagJustified
      BY DEF Init, InputPosted, NothingYet, ResultStored, LossPending, LossBacked,
             FlagJustified, InFlight, EmptyMap
    <1>2. RevengeJustified
      BY DEF Init, FeedInit, RevengeJustified
    <1> QED BY <1>1, <1>2, InitTypeOK DEF IngestInv

LEMMA InvStep ==
    ASSUME IngestInv, [Next]_vars
    PROVE  IngestInv'
    <1>1. /\ TypeOK /\ InputPosted /\ NothingYet /\ ResultStored
          /\ LossPending /\ LossBacked /\ FlagJustified /\ RevengeJustified
      BY DEF IngestInv
    <1>2. ResultStored' /\ LossPending'
      <2>1. ASSUME NEW r \in Reqs PROVE RowOf(r)'
        BY <1>1, RowStep DEF RowOf, HasRow, ResultStored, LossPending
      <2> QED BY <2>1 DEF RowOf, HasRow, ResultStored, LossPending
    <1>3. TypeOK' /\ InputPosted' /\ NothingYet'
      BY <1>1, TypeStep, InputPostedStep, NothingYetStep
    <1>4. LossBacked' /\ FlagJustified' /\ RevengeJustified'
      BY <1>1, LossBackedStep, FlagJustifiedStep, RevengeJustifiedStep
    <1> QED BY <1>2, <1>3, <1>4 DEF IngestInv

\* The invariant holds at the start and every step of the write path keeps it.
THEOREM Inductive == Spec => []IngestInv
    <1>1. Init => IngestInv
      BY InitInv
    <1>2. IngestInv /\ [Next]_vars => IngestInv'
      BY InvStep
    <1> QED BY <1>1, <1>2, PTL DEF Spec

\* Every variable of the write path keeps its type.
THEOREM TypeCorrect == Spec => []TypeOK
    <1>1. IngestInv => TypeOK
      BY DEF IngestInv
    <1> QED BY <1>1, Inductive, PTL

\* Every 200 answer carries the stored row of the id it was asked for,
\* whatever the failures, retries, duplicates and crashes.
THEOREM OneRecordAlways == Spec => []OneRecord
    <1>1. IngestInv => OneRecord
      BY DEF IngestInv, ResultStored, OneRecord
    <1> QED BY <1>1, Inductive, PTL

\* No trade is flagged as revenge without a stored loss that justifies it.
THEOREM RevengeJustifiedAlways == Spec => []RevengeJustified
    <1>1. IngestInv => RevengeJustified
      BY DEF IngestInv
    <1> QED BY <1>1, Inductive, PTL

\* A step stores a new row, publishes a stored one, or leaves both alone.
LEMMA FeedStep ==
    ASSUME IngestInv, [Next]_vars
    PROVE  [FeedNext]_feedVars
    <1>1. ASSUME NEW row, FeedInsert(row) PROVE FeedNext
      <2>1. row.tradeId \in DOMAIN trades' /\ trades'[row.tradeId] = row
        BY <1>1 DEF FeedInsert, Extend
      <2> QED BY <1>1, <2>1 DEF FeedNext
    <1>2. ASSUME NEW r \in Reqs, Publish(r) \/ PublishRetried(r) PROVE FeedNext
      <2>1. /\ "xadd" \in pending[r]
            /\ stream' = Append(stream, EventOf(result[r]))
            /\ UNCHANGED trades
        BY <1>2 DEF Publish, PublishRetried, Over
      <2>2. input[r].tradeId \in DOMAIN trades /\ result[r] = trades[input[r].tradeId]
        BY <2>1 DEF IngestInv, ResultStored
      <2> QED BY <2>1, <2>2 DEF FeedNext, FeedPublish
    <1>3. \/ UNCHANGED feedVars
          \/ \E r \in Reqs : FeedInsert(BuildTrade(input[r], flag[r]))
          \/ \E r \in Reqs : Publish(r) \/ PublishRetried(r)
      BY DEF Next, Handler, Background, vars, feedVars, Receive, Get, CheckRevenge,
             InsertTrade, InsertConflict, InsertFails, InsertReplyLost, SelectTrade,
             Respond, SetLastLoss, AddWindow, DropEffect, Disconnect,
             ExpireLastLoss, StopServer
    <1> QED BY <1>1, <1>2, <1>3

\* The write path implements the feed the worker relies on: every step inserts
\* a row under a new id, publishes a stored row, or leaves both alone.
THEOREM ImplementsFeed == Spec => Feed
    <1>1. Init => FeedInit
      BY DEF Init
    <1>2. IngestInv /\ [Next]_vars => [FeedNext]_feedVars
      BY FeedStep
    <1> QED BY <1>1, <1>2, Inductive, PTL DEF Spec, Feed, FeedSpec

\* No step answers a waiting client's POST of a stored id, with values that can
\* be stored, with a 500 while the database is up.
LEMMA NoErrorStep ==
    ASSUME IngestInv, [Next]_vars, NEW r \in Reqs, Duplicate(r), input[r].storable
    PROVE  code'[r] # 500
    <1> USE DEF Duplicate
    <1>1. code[r] = 0 /\ code \in [Reqs -> {0, 200, 400, 403, 404, 500}]
      BY DEF IngestInv, NothingYet, TypeOK
    <1>2. ASSUME NEW q \in Reqs, q # r,
                 Receive(q) \/ Get(q) \/ InsertFails(q) \/ InsertReplyLost(q)
                     \/ SelectTrade(q) \/ Respond(q)
          PROVE  code'[r] = code[r]
      BY <1>1, <1>2 DEF Receive, RejectInvalid, RejectForeign, Accept, Get, InsertFails,
                        InsertReplyLost, SelectTrade, Respond, Fail
    <1>3. ~Receive(r) /\ ~Get(r) /\ ~InsertFails(r) /\ ~InsertReplyLost(r) /\ ~Respond(r)
      BY DEF Receive, Get, InsertFails, InsertReplyLost, Respond, DbFailure
    <1>4. ASSUME SelectTrade(r) PROVE code' = code
      BY <1>4 DEF SelectTrade, DbFailure
    <1>5. ASSUME NEW q \in Reqs,
                 \/ CheckRevenge(q) \/ InsertTrade(q) \/ InsertConflict(q)
                 \/ Background(q) \/ PublishRetried(q) \/ Disconnect(q)
          PROVE  code' = code
      BY <1>5 DEF CheckRevenge, InsertTrade, InsertConflict, Background, SetLastLoss,
                  Publish, PublishRetried, AddWindow, DropEffect, Over, Disconnect, answerVars
    <1>6. ASSUME (\E u \in Users : ExpireLastLoss(u)) \/ StopServer \/ UNCHANGED vars
          PROVE  code' = code
      BY <1>6 DEF ExpireLastLoss, StopServer, vars, answerVars
    <1> QED BY <1>1, <1>2, <1>3, <1>4, <1>5, <1>6 DEF Next, Handler

\* While the database is up, a waiting client's POST of a stored id is never
\* answered with a 500 if its values can be stored, not even in an unknown
\* session (Upsert: the conflict is met before the foreign keys).
THEOREM RetryNeverFailsAlways == Spec => RetryNeverFails
    <1>1. IngestInv /\ [Next]_vars =>
            \A r \in Reqs : Duplicate(r) /\ input[r].storable => code'[r] # 500
      BY NoErrorStep
    <1> QED BY <1>1, Inductive, PTL DEF Spec, RetryNeverFails

=============================================================================
