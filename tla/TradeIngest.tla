----------------------------- MODULE TradeIngest -----------------------------
(***************************************************************************)
(* The write path of the API server: POST /trades, its three background    *)
(* Redis calls, and GET /trades/{tradeId}.                                  *)
(*                                                                         *)
(* Each request r \in Reqs is one HTTP request served by its own goroutine *)
(* (pc, input, flag, result, code).  Once the row is stored or found the   *)
(* handler starts goroutines for the Redis calls (pending) and answers;    *)
(* they all use the context of the request, which net/http cancels as soon *)
(* as the handler returns or the client goes away (cancelled).             *)
(*                                                                         *)
(* PostgreSQL statements and Redis commands are atomic.  DbMayFail and     *)
(* RedisMayFail say whether they may fail for reasons of their own.        *)
(***************************************************************************)
EXTENDS TradeFeed, FiniteSets

CONSTANTS
    Reqs,           \* the requests clients send
    Users,          \* the users named by rows, bodies and tokens
    Accounts,       \* rows of the users table
    Sessions,       \* rows of the sessions table
    Payloads,       \* bodies clients may POST
    DbMayFail, RedisMayFail,
    MaxCrashes,     \* bound: server processes lost
    MaxEvents       \* bound: stream length up to which go-redis retries an XADD

ASSUME PayloadAssumption ==
    \A p \in Payloads :
        /\ p.userId \in Users
        /\ p.entryAt \in Int
        /\ p.exitAt = NULL \/ p.exitAt \in Int

ASSUME SeedAssumption ==
    \A t \in DOMAIN SeedTrades :
        /\ SeedTrades[t].tradeId = t
        /\ SeedTrades[t].userId \in Users
        /\ SeedTrades[t].entryAt \in Int
        /\ SeedTrades[t].exitAt = NULL \/ SeedTrades[t].exitAt \in Int

ASSUME BoundAssumption == MaxCrashes \in Nat

VARIABLES
    lastLoss,    \* Redis: user -> whole second of a losing close, where set
    tradesTs,    \* Redis: user -> (trade id -> score), the overtrading set
    pc,          \* where the handler of each request is
    input,       \* the decoded request
    flag,        \* the revenge flag computed before the insert
    result,      \* the row the answer and the background calls are built from
    code,        \* HTTP status answered, 0 before
    pending,     \* background calls not yet over
    cancelled,   \* requests whose context is cancelled
    crashes

redisVars == <<lastLoss, tradesTs>>
answerVars == <<flag, result, code>>
vars == <<trades, stream, lastLoss, tradesTs, pc, input, flag, result, code,
          pending, cancelled, crashes>>

TradeIds == {p.tradeId : p \in Payloads} \cup DOMAIN SeedTrades

\* The foreign keys of trades: a user and a session that exist, not that the
\* session is the user's.
Orphan(p) == p.userId \notin Accounts \/ p.sessionId \notin Sessions

\* Only a body that passes the validation is worked on, and only one that the
\* table takes gets as far as a row.
Accepted == {p \in Payloads : Validate(p)}
Insertable(p) == p.storable /\ ~Orphan(p)
Rows == {BuildTrade(p, f) : p \in {q \in Accepted : Insertable(q)}, f \in BOOLEAN}
            \cup {SeedTrades[t] : t \in DOMAIN SeedTrades}
InFlight == {"revenge", "insert", "select", "respond"}

EmptyMap == [x \in {} |-> 0]

Init ==
    /\ FeedInit
    /\ lastLoss = EmptyMap
    /\ tradesTs = [u \in Users |-> EmptyMap]
    /\ pc = [r \in Reqs |-> "idle"]
    /\ input = [r \in Reqs |-> NULL]
    /\ flag = [r \in Reqs |-> FALSE]
    /\ result = [r \in Reqs |-> NULL]
    /\ code = [r \in Reqs |-> 0]
    /\ pending = [r \in Reqs |-> {}]
    /\ cancelled = {}
    /\ crashes = 0

-----------------------------------------------------------------------------
(* The handler *)

DbFailure(r)    == DbMayFail \/ r \in cancelled
RedisFailure(r) == RedisMayFail \/ r \in cancelled

\* The request leaves the handler with an error status.
Fail(r, status) ==
    /\ pc' = [pc EXCEPT ![r] = "done"]
    /\ code' = [code EXCEPT ![r] = status]

RejectInvalid(r, p) ==
    /\ ~Validate(p)
    /\ Fail(r, 400)

RejectForeign(r, p, sub) ==
    /\ Validate(p)
    /\ p.userId # sub
    /\ Fail(r, 403)

Accept(r, p, sub) ==
    /\ Validate(p)
    /\ p.userId = sub
    /\ pc' = [pc EXCEPT ![r] = IF p.emotion # NULL THEN "revenge" ELSE "insert"]
    /\ UNCHANGED code

\* A POST arrives, with the token of sub, and is decoded and validated.
Receive(r) ==
    /\ pc[r] = "idle"
    /\ \E p \in Payloads, sub \in Users :
          /\ input' = [input EXCEPT ![r] = p]
          /\ \/ RejectInvalid(r, p)
             \/ RejectForeign(r, p, sub)
             \/ Accept(r, p, sub)
    /\ UNCHANGED <<feedVars, redisVars, flag, result, pending, cancelled, crashes>>

\* GET user:<id>:last_loss; a miss, a zero and an error all leave the flag off.
FlagFor(p) ==
    /\ p.userId \in DOMAIN lastLoss
    /\ lastLoss[p.userId] > 0
    /\ IsRevenge(FromUnix(lastLoss[p.userId]), p.entryAt, p.emotion)

CheckRevenge(r) ==
    /\ pc[r] = "revenge"
    /\ pc' = [pc EXCEPT ![r] = "insert"]
    /\ \/ r \notin cancelled /\ flag' = [flag EXCEPT ![r] = FlagFor(input[r])]
       \/ RedisFailure(r) /\ UNCHANGED flag
    /\ UNCHANGED <<feedVars, redisVars, input, result, code, pending, cancelled, crashes>>

\* The background calls started for a row.
EffectsOf(row) ==
    {"xadd", "zadd"} \cup (IF IsLosingClose(row) THEN {"lastLoss"} ELSE {})

\* The handler has its row: it starts the background calls and goes on to
\* write the answer.
Proceed(r, row) ==
    /\ result' = [result EXCEPT ![r] = row]
    /\ pending' = [pending EXCEPT ![r] = EffectsOf(row)]
    /\ pc' = [pc EXCEPT ![r] = "respond"]

\* Mutant: ON CONFLICT DO UPDATE.
InsertOverwrites(r) ==
    LET row == BuildTrade(input[r], flag[r])
    IN  /\ pc[r] = "insert"
        /\ r \notin cancelled
        /\ Insertable(input[r])
        /\ trades' = Extend(trades, row.tradeId, row)
        /\ Proceed(r, row)
        /\ UNCHANGED <<stream, redisVars, input, flag, code, cancelled, crashes>>

InsertTrade(r) ==
    LET row == BuildTrade(input[r], flag[r])
    IN  /\ pc[r] = "insert"
        /\ r \notin cancelled
        /\ Insertable(input[r])
        /\ FeedInsert(row)
        /\ Proceed(r, row)
        /\ UNCHANGED <<redisVars, input, flag, code, cancelled, crashes>>

\* ON CONFLICT DO NOTHING returns no row; the foreign keys are not looked at,
\* but the values have been: the parameters are read before the table is.
InsertConflict(r) ==
    /\ pc[r] = "insert"
    /\ r \notin cancelled
    /\ input[r].storable
    /\ input[r].tradeId \in DOMAIN trades
    /\ pc' = [pc EXCEPT ![r] = "select"]
    /\ UNCHANGED <<feedVars, redisVars, input, answerVars, pending, cancelled, crashes>>

\* Mutant: the foreign keys are looked at before the conflict.
SessionCheckedFirst(r) ==
    /\ pc[r] = "insert"
    /\ DbFailure(r) \/ ~Insertable(input[r])
    /\ Fail(r, 500)
    /\ UNCHANGED <<feedVars, redisVars, input, flag, result, pending, cancelled, crashes>>

\* Values the columns do not take are an error whether or not the id is stored;
\* an unknown user or session is one for a new row only.
InsertFails(r) ==
    /\ pc[r] = "insert"
    /\ \/ DbFailure(r)
       \/ ~input[r].storable
       \/ input[r].tradeId \notin DOMAIN trades /\ Orphan(input[r])
    /\ Fail(r, 500)
    /\ UNCHANGED <<feedVars, redisVars, input, flag, result, pending, cancelled, crashes>>

\* The row is committed but the reply is lost: the client gets an error.
InsertReplyLost(r) ==
    /\ pc[r] = "insert"
    /\ DbFailure(r)
    /\ Insertable(input[r])
    /\ FeedInsert(BuildTrade(input[r], flag[r]))
    /\ Fail(r, 500)
    /\ UNCHANGED <<redisVars, input, flag, result, pending, cancelled, crashes>>

\* Mutant: the answer is built from the request instead of the stored row.
SelectEchoesInput(r) ==
    /\ pc[r] = "select"
    /\ r \notin cancelled
    /\ Proceed(r, BuildTrade(input[r], flag[r]))
    /\ UNCHANGED <<feedVars, redisVars, input, flag, code, cancelled, crashes>>

\* Mutant: an error of the second statement is not returned.
SelectIgnoresErrors(r) ==
    /\ pc[r] = "select"
    /\ r \notin cancelled
    /\ input[r].tradeId \in DOMAIN trades
    /\ Proceed(r, trades[input[r].tradeId])
    /\ UNCHANGED <<feedVars, redisVars, input, flag, code, cancelled, crashes>>

\* The second statement of Upsert: the row that won the conflict.
SelectTrade(r) ==
    /\ pc[r] = "select"
    /\ \/ /\ r \notin cancelled
          /\ input[r].tradeId \in DOMAIN trades
          /\ Proceed(r, trades[input[r].tradeId])
          /\ UNCHANGED code
       \/ /\ DbFailure(r) \/ input[r].tradeId \notin DOMAIN trades
          /\ Fail(r, 500)
          /\ UNCHANGED <<result, pending>>
    /\ UNCHANGED <<feedVars, redisVars, input, flag, cancelled, crashes>>

\* The answer is written and the handler returns, which cancels the context.
Respond(r) ==
    /\ pc[r] = "respond"
    /\ pc' = [pc EXCEPT ![r] = "done"]
    /\ code' = [code EXCEPT ![r] = 200]
    /\ cancelled' = cancelled \cup {r}
    /\ UNCHANGED <<feedVars, redisVars, input, flag, result, pending, crashes>>

\* GET /trades/{tradeId}, a single read; NULL is an id that is no UUID, which is
\* an error of the statement.
Get(r) ==
    /\ pc[r] = "idle"
    /\ pc' = [pc EXCEPT ![r] = "done"]
    /\ \E t \in TradeIds \cup {NULL}, sub \in Users :
          /\ input' = [input EXCEPT ![r] = [tradeId |-> t]]
          /\ \/ /\ t \in DOMAIN trades
                /\ trades[t].userId = sub
                /\ code' = [code EXCEPT ![r] = 200]
                /\ result' = [result EXCEPT ![r] = trades[t]]
             \/ /\ t \in DOMAIN trades
                /\ trades[t].userId # sub
                /\ code' = [code EXCEPT ![r] = 403]
                /\ UNCHANGED result
             \/ /\ t \notin DOMAIN trades /\ t # NULL
                /\ code' = [code EXCEPT ![r] = 404]
                /\ UNCHANGED result
             \/ /\ t = NULL \/ DbFailure(r)
                /\ code' = [code EXCEPT ![r] = 500]
                /\ UNCHANGED result
    /\ UNCHANGED <<feedVars, redisVars, flag, pending, cancelled, crashes>>

-----------------------------------------------------------------------------
(* The background calls.  A call already handed to Redis when the context  *)
(* is cancelled still takes effect; one that was not is dropped.           *)

Over(r, effect) ==
    /\ effect \in pending[r]
    /\ pending' = [pending EXCEPT ![r] = @ \ {effect}]
    /\ UNCHANGED <<pc, input, answerVars, cancelled, crashes>>

\* SET user:<id>:last_loss: the last writer wins, whatever the exit times.
SetLastLoss(r) ==
    /\ Over(r, "lastLoss")
    /\ lastLoss' = Extend(lastLoss, result[r].userId, Unix(result[r].exitAt))
    /\ UNCHANGED <<feedVars, tradesTs>>

Publish(r) ==
    /\ Over(r, "xadd")
    /\ stream' = Append(stream, EventOf(result[r]))
    /\ UNCHANGED <<trades, redisVars>>

\* The XADD takes effect but its reply is lost: go-redis sends it again.
PublishRetried(r) ==
    /\ RedisMayFail
    /\ Len(stream) < MaxEvents
    /\ "xadd" \in pending[r]
    /\ stream' = Append(stream, EventOf(result[r]))
    /\ UNCHANGED <<trades, redisVars, pc, input, answerVars, pending, cancelled, crashes>>

\* Mutant: the member is the session.
WindowBySession(r) ==
    /\ Over(r, "zadd")
    /\ tradesTs' = [tradesTs EXCEPT ![result[r].userId] =
                       Extend(@, result[r].sessionId, result[r].entryAt)]
    /\ UNCHANGED <<feedVars, lastLoss>>

\* Mutant: ZADD without NX.
AddWindowOverwrites(r) ==
    /\ Over(r, "zadd")
    /\ tradesTs' = [tradesTs EXCEPT ![result[r].userId] =
                       Extend(@, result[r].tradeId, result[r].entryAt)]
    /\ UNCHANGED <<feedVars, lastLoss>>

\* ZADD NX: a score already there stays.
AddWindow(r) ==
    LET row == result[r]
        set == tradesTs[row.userId]
    IN  /\ Over(r, "zadd")
        /\ tradesTs' = [tradesTs EXCEPT ![row.userId] =
                           IF row.tradeId \in DOMAIN set
                           THEN set
                           ELSE Extend(set, row.tradeId, row.entryAt)]
        /\ UNCHANGED <<feedVars, lastLoss>>

\* The error of a background call is not looked at.
DropEffect(r) ==
    /\ RedisFailure(r)
    /\ \E effect \in pending[r] : Over(r, effect)
    /\ UNCHANGED <<feedVars, redisVars>>

-----------------------------------------------------------------------------
(* The environment *)

\* The client closes the connection before it has its answer.
Disconnect(r) ==
    /\ pc[r] \in InFlight
    /\ cancelled' = cancelled \cup {r}
    /\ UNCHANGED <<feedVars, redisVars, pc, input, answerVars, pending, crashes>>

\* The key's 90 s are over.  They run from the SET, on the server's clock;
\* entryAt and exitAt are the client's.
ExpireLastLoss(u) ==
    /\ u \in DOMAIN lastLoss
    /\ lastLoss' = [v \in DOMAIN lastLoss \ {u} |-> lastLoss[v]]
    /\ UNCHANGED <<feedVars, tradesTs, pc, input, answerVars, pending, cancelled, crashes>>

\* The process dies, or stops on a signal: main returns as soon as Shutdown
\* has closed the listener, without waiting for the handlers.  The client of
\* an unfinished request gets no answer.  A new process serves the others.
StopServer ==
    /\ crashes < MaxCrashes
    /\ crashes' = crashes + 1
    /\ pc' = [r \in Reqs |-> IF pc[r] \in InFlight THEN "crashed" ELSE pc[r]]
    /\ pending' = [r \in Reqs |-> {}]
    /\ UNCHANGED <<feedVars, redisVars, input, answerVars, cancelled>>

-----------------------------------------------------------------------------
Handler(r) ==
    \/ CheckRevenge(r)
    \/ InsertTrade(r) \/ InsertConflict(r) \/ InsertFails(r) \/ InsertReplyLost(r)
    \/ SelectTrade(r)
    \/ Respond(r)

Background(r) ==
    SetLastLoss(r) \/ Publish(r) \/ AddWindow(r) \/ DropEffect(r)

Next ==
    \/ \E r \in Reqs :
          \/ Receive(r) \/ Get(r)
          \/ Handler(r)
          \/ Background(r) \/ PublishRetried(r)
          \/ Disconnect(r)
    \/ \E u \in Users : ExpireLastLoss(u)
    \/ StopServer

Spec == Init /\ [][Next]_vars

\* The Go scheduler runs every goroutine, and every database or Redis call
\* returns, with a result or an error.
Fairness == \A r \in Reqs : WF_vars(Handler(r)) /\ WF_vars(Background(r))

FairSpec == Spec /\ Fairness

-----------------------------------------------------------------------------
(* Properties *)

\* Every variable keeps its type; rows are rows of some accepted payload or
\* of the seed, stored under their own id (handler state, trades table).
TypeOK ==
    /\ DOMAIN trades \subseteq TradeIds
    /\ \A t \in DOMAIN trades : trades[t] \in Rows /\ trades[t].tradeId = t
    /\ stream \in Seq({EventOf(row) : row \in Rows})
    /\ DOMAIN lastLoss \subseteq Users
    /\ \A u \in DOMAIN lastLoss : lastLoss[u] \in Int
    /\ DOMAIN tradesTs = Users
    /\ \A u \in Users : DOMAIN tradesTs[u] \subseteq TradeIds
    /\ pc \in [Reqs -> {"idle", "done", "crashed"} \cup InFlight]
    /\ input \in [Reqs -> {NULL} \cup Payloads \cup [tradeId : TradeIds \cup {NULL}]]
    /\ flag \in [Reqs -> BOOLEAN]
    /\ result \in [Reqs -> Rows \cup {NULL}]
    /\ code \in [Reqs -> {0, 200, 400, 403, 404, 500}]
    /\ pending \in [Reqs -> SUBSET {"lastLoss", "xadd", "zadd"}]
    /\ cancelled \subseteq Reqs
    /\ crashes \in 0..MaxCrashes

\* The record of every 200 answer, to a first POST, a duplicate with other
\* contents, a retry or a GET, is the one row stored under the requested id
\* (Upsert's conflict path, GetByID).
OneRecord ==
    \A r \in Reqs : code[r] = 200 =>
        /\ input[r].tradeId \in DOMAIN trades
        /\ result[r] = trades[input[r].tradeId]

\* The loss that justifies a revenge flag: of the same user, and closed less
\* than 90 s before the entry, give or take the second that Unix() drops.
Justifies(loss, row) ==
    /\ IsLosingClose(loss)
    /\ loss.userId = row.userId
    /\ row.emotion \in {"anxious", "fearful"}
    /\ row.entryAt - loss.exitAt > 0 - TicksPerSecond
    /\ row.entryAt - loss.exitAt < RevengeWindow

\* No trade is flagged as revenge without a stored losing close that justifies
\* it, however the last-loss key was written, overwritten or expired between
\* the requests (GetLastLoss, IsRevenge, SetLastLoss).
RevengeJustified ==
    \A t \in DOMAIN trades \ DOMAIN SeedTrades :
        trades[t].revengeFlag =>
            \E s \in DOMAIN trades : Justifies(trades[s], trades[t])

\* A POST of an id that is stored already, with the database up and the client
\* waiting.
Duplicate(r) ==
    /\ ~DbMayFail
    /\ r \notin cancelled
    /\ pc[r] \in {"insert", "select"}
    /\ input[r].tradeId \in DOMAIN trades

\* Such a POST never ends in a 500 if its values can be stored: not if it lost
\* the race for the id, nor if it names a user or a session that does not exist
\* (Upsert: the conflict is met before the foreign keys).
RetryNeverFails ==
    [][\A r \in Reqs : Duplicate(r) /\ input[r].storable => code'[r] # 500]_vars

\* Seen from the table and the stream alone, the write path is the feed:
\* rows are write-once and only stored rows are published, as stored.
Feed == FeedSpec

\* Every request taken up is answered, unless its process dies.
EveryRequestAnswered ==
    \A r \in Reqs : pc[r] \in InFlight ~> pc[r] \in {"done", "crashed"}

-----------------------------------------------------------------------------
(* The inductive invariant behind OneRecord and RevengeJustified *)

\* A handler past its validation, and what it leaves running, work on a body
\* that was posted and passed.
InputPosted ==
    \A r \in Reqs : pc[r] \in InFlight \/ pending[r] # {} => input[r] \in Accepted

\* A handler that has no row yet has started and answered nothing.
NothingYet ==
    \A r \in Reqs : pc[r] \in {"idle", "revenge", "insert", "select"} =>
        pending[r] = {} /\ code[r] = 0

\* Once there is a row to answer or publish, it is the stored one.
ResultStored ==
    \A r \in Reqs : (pc[r] = "respond" \/ pending[r] # {} \/ code[r] = 200) =>
        /\ input[r].tradeId \in DOMAIN trades
        /\ result[r] = trades[input[r].tradeId]

\* SetLastLoss is only ever started for a losing close ...
LossPending ==
    \A r \in Reqs : "lastLoss" \in pending[r] => IsLosingClose(result[r])

\* ... so the key always holds the close of a stored loss of its user.
LossBacked ==
    \A u \in DOMAIN lastLoss : \E s \in DOMAIN trades :
        /\ IsLosingClose(trades[s])
        /\ trades[s].userId = u
        /\ Unix(trades[s].exitAt) = lastLoss[u]

\* The flag is off until the check, and then justified by a stored loss.
FlagJustified ==
    \A r \in Reqs :
        /\ pc[r] \in {"idle", "revenge"} => ~flag[r]
        /\ pc[r] = "insert" /\ flag[r] =>
              \E s \in DOMAIN trades : Justifies(trades[s], BuildTrade(input[r], TRUE))

\* What every step of the write path keeps, whatever fails, overlaps or stops:
\* TradeIngestProofs shows it for all constants.
IngestInv ==
    /\ TypeOK
    /\ InputPosted /\ NothingYet /\ ResultStored
    /\ LossPending /\ LossBacked /\ FlagJustified
    /\ RevengeJustified

-----------------------------------------------------------------------------
(* What the documents promise and the code does not keep *)

\* "writes to PostgreSQL -> publishes event to Redis Streams -> returns HTTP
\* 200": a trade answered with 200 gets its event (trade.go:108-134).
AnsweredIsPublished ==
    \A t \in TradeIds :
        (\E r \in Reqs : pc[r] = "done" /\ code[r] = 200 /\ result[r].tradeId = t)
            ~> (\E i \in DOMAIN stream : stream[i].tradeId = t)

\* "`POST /trades` must return HTTP 200 for duplicates - never 409 or 500":
\* also for one that Validate lets pass and a column does not (Upsert).
DuplicateNeverFails == [][\A r \in Reqs : Duplicate(r) => code'[r] # 500]_vars

=============================================================================
