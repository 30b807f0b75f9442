------------------------------- MODULE ReadPath -------------------------------
(***************************************************************************)
(* The cached reads of the API server: GET /users/{id}/metrics and         *)
(* GET /users/{id}/profile.  Both look in Redis, run a list of statements  *)
(* on a miss, and write the answer back: the metrics in a goroutine of     *)
(* their own, the profile before it answers.                               *)
(*                                                                         *)
(* What a statement returns is abstracted to whose rows it read and their  *)
(* version, the number of writes made to that user's tables so far.  The   *)
(* statements of one answer are not a transaction, so they may see         *)
(* different versions.                                                     *)
(***************************************************************************)
EXTENDS Integers, Sequences, SequencesExt

CONSTANTS
    NULL,
    Reqs,
    Users,             \* ids in paths and tokens
    Registered,        \* rows of the users table
    Inputs,            \* requests clients may send: kind, user, sub, query
    Pathologies,       \* the evidence queries of a profile, in order
    ShownFrom,         \* pathology -> version from which its evidence is there
    StrengthGroups,    \* pathologies whose joint absence is a strength
    DbMayFail,
    MaxRedisFaults,    \* bound: Redis calls that fail of their own accord
    MaxWrites          \* bound: writes to the tables of one user

\* A profile has no parameters.
ASSUME InputAssumption ==
    \A i \in Inputs :
        /\ i.kind \in {"metrics", "profile"} /\ {i.user, i.sub} \subseteq Users
        /\ i.kind = "profile" => i.query = NULL

ASSUME ValueAssumption ==
    /\ Pathologies \in Seq(ToSet(Pathologies))
    /\ {MaxRedisFaults, MaxWrites} \subseteq Nat
    /\ \A u \in Users, n \in 0..MaxWrites : [user |-> u, version |-> n] # NULL

VARIABLES
    version,     \* user -> number of writes to the user's tables
    cache,       \* Redis: key -> answer, where set
    pc, input,
    at,          \* next statement
    answer,      \* what the statements returned so far; then the body to write
    code,
    pending,     \* the answer of each background SET that is not over, or NULL
    cancelled,   \* requests whose context is cancelled
    faults,
    seen,        \* history: user -> pathology -> newest version in a profile
    floor,       \* history: what seen was when the request arrived
    overlap      \* history: users with two profile requests at a time

historyVars == <<seen, floor, overlap>>
handlerVars == <<pc, input, at, answer, code, historyVars>>
vars == <<version, cache, pending, cancelled, faults, handlerVars>>

EmptyMap == [x \in {} |-> 0]
InFlight == {"lookup", "query", "store", "respond"}

-----------------------------------------------------------------------------
\* The statements of the two handlers, in order.  (The profile's count of all
\* trades, whose error is not looked at either, only scales its confidences.)
Plan(kind) ==
    IF kind = "metrics"
    THEN <<"buckets", "emotions", "revenge", "overtrading">>
    ELSE <<"user">> \o Pathologies

Init ==
    /\ version = [u \in Users |-> 0]
    /\ cache = EmptyMap
    /\ pc = [r \in Reqs |-> "idle"]
    /\ input = [r \in Reqs |-> NULL]
    /\ at = [r \in Reqs |-> 1]
    /\ answer = [r \in Reqs |-> EmptyMap]
    /\ code = [r \in Reqs |-> 0]
    /\ pending = [r \in Reqs |-> NULL] /\ cancelled = {}
    /\ faults = 0
    /\ seen = [u \in Users |-> [p \in ToSet(Pathologies) |-> 0]]
    /\ floor = [r \in Reqs |-> EmptyMap]
    /\ overlap = {}

\* What an error of a statement becomes: a status, or 0 if it is not looked at.
OnError(statement) ==
    CASE statement \in {"buckets", "emotions"} -> 500
      [] statement = "user" -> 404
      [] OTHER -> 0

\* Mutant: the key leaves out the user.
SharedKey(i) == <<i.kind, i.query>>

KeyOf(i) == <<i.kind, i.user, i.query>>

Put(k, a) == [x \in DOMAIN cache \cup {k} |-> IF x = k THEN a ELSE cache[x]]

RedisFault == faults < MaxRedisFaults /\ faults' = faults + 1

\* Mutant: no return after the error answer.
FailAndGoOn(r, status) ==
    /\ code' = [code EXCEPT ![r] = status]
    /\ UNCHANGED pc

Fail(r, status) ==
    /\ pc' = [pc EXCEPT ![r] = "done"]
    /\ code' = [code EXCEPT ![r] = status]

\* A request arrives; tenancy is checked, then the query parameters.  r is a
\* connection: it serves another request once the last one is over.
Receive(r) ==
    /\ pc[r] \in {"idle", "done"} /\ pending[r] = NULL
    /\ \E i \in Inputs :
          /\ input' = [input EXCEPT ![r] = i]
          /\ \/ i.user # i.sub /\ Fail(r, 403)
             \/ i.user = i.sub /\ i.kind = "metrics" /\ i.query = NULL /\ Fail(r, 400)
             \/ /\ i.user = i.sub /\ (i.kind = "metrics" => i.query # NULL)
                /\ pc' = [pc EXCEPT ![r] = "lookup"]
                /\ code' = [code EXCEPT ![r] = 0]
          /\ floor' = [floor EXCEPT ![r] = IF i.kind = "profile" THEN seen[i.user] ELSE EmptyMap]
          /\ overlap' = overlap \cup
                {i.user : q \in {q \in Reqs \ {r} : /\ pc[q] \in InFlight
                                                 /\ input[q].kind = "profile"
                                                 /\ input[q].user = i.user}}
    /\ at' = [at EXCEPT ![r] = 1]
    /\ cancelled' = cancelled \ {r}
    /\ UNCHANGED <<version, cache, pending, faults, seen, answer>>

\* Mutant: a hit is written back, for five minutes more.
HitRefreshes(r) ==
    /\ pc[r] = "lookup"
    /\ r \notin cancelled
    /\ KeyOf(input[r]) \in DOMAIN cache
    /\ answer' = [answer EXCEPT ![r] = cache[KeyOf(input[r])]]
    /\ pc' = [pc EXCEPT ![r] = "store"]
    /\ UNCHANGED <<version, cache, pending, cancelled, faults, input, at, code, historyVars>>

\* GET of the key: a hit is the answer.
Hit(r) ==
    /\ pc[r] = "lookup"
    /\ r \notin cancelled
    /\ KeyOf(input[r]) \in DOMAIN cache
    /\ answer' = [answer EXCEPT ![r] = cache[KeyOf(input[r])]]
    /\ pc' = [pc EXCEPT ![r] = "respond"]
    /\ UNCHANGED <<version, cache, pending, cancelled, faults, input, at, code, historyVars>>

\* An error of the GET is a miss.
Miss(r) ==
    /\ pc[r] = "lookup"
    /\ \/ r \notin cancelled /\ KeyOf(input[r]) \notin DOMAIN cache /\ UNCHANGED faults
       \/ r \in cancelled /\ UNCHANGED faults
       \/ RedisFault
    /\ pc' = [pc EXCEPT ![r] = "query"]
    /\ UNCHANGED <<version, cache, pending, cancelled, input, at, answer, code, historyVars>>

Statement(r) == Plan(input[r].kind)[at[r]]

Record(r, value) ==
    /\ answer' = [answer EXCEPT ![r] =
                     [s \in DOMAIN @ \cup {Statement(r)} |->
                         IF s = Statement(r) THEN value ELSE @[s]]]
    /\ at' = [at EXCEPT ![r] = @ + 1]
    /\ pc' = [pc EXCEPT ![r] = IF at[r] = Len(Plan(input[r].kind)) THEN "store" ELSE "query"]
    /\ UNCHANGED code

QueryOk(r) ==
    /\ pc[r] = "query"
    /\ r \notin cancelled
    /\ Statement(r) = "user" => input[r].user \in Registered
    /\ Record(r, [user |-> input[r].user, version |-> version[input[r].user]])
    /\ UNCHANGED <<version, cache, pending, cancelled, faults, input, historyVars>>

\* No such user, or an error.
QueryFails(r) ==
    /\ pc[r] = "query"
    /\ \/ DbMayFail \/ r \in cancelled
       \/ Statement(r) = "user" /\ input[r].user \notin Registered
    /\ IF OnError(Statement(r)) # 0
       THEN /\ Fail(r, OnError(Statement(r)))
            /\ answer' = [answer EXCEPT ![r] = EmptyMap]
            /\ UNCHANGED at
       ELSE Record(r, NULL)
    /\ UNCHANGED <<version, cache, pending, cancelled, faults, input, historyVars>>

\* go metricsCache.Set(...), which does nothing once the context is cancelled.
StoreMetrics(r) ==
    /\ pc[r] = "store" /\ input[r].kind = "metrics"
    /\ pending' = [pending EXCEPT ![r] = IF r \in cancelled THEN NULL ELSE answer[r]]
    /\ pc' = [pc EXCEPT ![r] = "respond"]
    /\ UNCHANGED <<version, cache, cancelled, faults, input, at, answer, code, historyVars>>

\* Mutant: the profile is written back in the background too.
StoreProfileLater(r) ==
    /\ pc[r] = "store" /\ input[r].kind = "profile"
    /\ pending' = [pending EXCEPT ![r] = IF r \in cancelled THEN NULL ELSE answer[r]]
    /\ pc' = [pc EXCEPT ![r] = "respond"]
    /\ UNCHANGED <<version, cache, cancelled, faults, input, at, answer, code, historyVars>>

\* The SET of a profile; its error is not looked at.
StoreProfile(r) ==
    /\ pc[r] = "store" /\ input[r].kind = "profile"
    /\ \/ /\ r \notin cancelled
          /\ cache' = Put(KeyOf(input[r]), answer[r])
          /\ UNCHANGED faults
       \/ r \in cancelled /\ UNCHANGED <<cache, faults>>
       \/ RedisFault /\ UNCHANGED cache
    /\ pc' = [pc EXCEPT ![r] = "respond"]
    /\ UNCHANGED <<version, pending, cancelled, input, at, answer, code, historyVars>>

Later(v, value) == IF value # NULL /\ value.version > v THEN value.version ELSE v

\* The answer is written and the handler returns, which cancels the context.
Respond(r) ==
    /\ pc[r] = "respond"
    /\ pc' = [pc EXCEPT ![r] = "done"]
    /\ code' = [code EXCEPT ![r] = 200]
    /\ answer' = [answer EXCEPT ![r] = EmptyMap]
    /\ cancelled' = cancelled \cup {r}
    /\ seen' = IF input[r].kind = "profile"
               THEN [seen EXCEPT ![input[r].user] =
                        [p \in DOMAIN @ |-> Later(@[p], answer[r][p])]]
               ELSE seen
    /\ UNCHANGED <<version, cache, pending, faults, input, at, floor, overlap>>

\* The background SET, handed to Redis before the context was cancelled or
\* dropped.
SetMetrics(r) ==
    /\ pending[r] # NULL
    /\ pending' = [pending EXCEPT ![r] = NULL]
    /\ \/ cache' = Put(KeyOf(input[r]), pending[r]) /\ UNCHANGED faults
       \/ r \in cancelled /\ UNCHANGED <<cache, faults>>
       \/ RedisFault /\ UNCHANGED cache
    /\ UNCHANGED <<version, cancelled, handlerVars>>

-----------------------------------------------------------------------------
(* The environment *)

\* The worker, or a POST, writes to a table of the user; the foreign keys ask
\* for a row in users.  Nothing removes the
\* cached answers.
Write(u) ==
    /\ u \in Registered
    /\ version[u] < MaxWrites
    /\ version' = [version EXCEPT ![u] = @ + 1]
    /\ UNCHANGED <<cache, pending, cancelled, faults, handlerVars>>

\* Five minutes after the SET, on the clock of Redis.
Expire(k) ==
    /\ k \in DOMAIN cache
    /\ cache' = [x \in DOMAIN cache \ {k} |-> cache[x]]
    /\ UNCHANGED <<version, pending, cancelled, faults, handlerVars>>

Disconnect(r) ==
    /\ pc[r] \in InFlight
    /\ cancelled' = cancelled \cup {r}
    /\ UNCHANGED <<version, cache, pending, faults, handlerVars>>

-----------------------------------------------------------------------------
Handler(r) ==
    \/ Hit(r) \/ Miss(r)
    \/ QueryOk(r) \/ QueryFails(r)
    \/ StoreMetrics(r) \/ StoreProfile(r)
    \/ Respond(r)

Next ==
    \/ \E r \in Reqs : Receive(r) \/ Handler(r) \/ SetMetrics(r) \/ Disconnect(r)
    \/ \E u \in Users : Write(u)
    \/ \E k \in DOMAIN cache : Expire(k)

Spec == Init /\ [][Next]_vars

\* Goroutines run, calls return, and Redis drops a key when its time is up.
\* Nothing is asked of clients: they may ask again forever.
Keys == {KeyOf(i) : i \in Inputs}

FairSpec ==
    /\ Spec
    /\ \A r \in Reqs : WF_vars(Handler(r)) /\ WF_vars(SetMetrics(r))
    /\ \A k \in Keys : WF_vars(Expire(k))

-----------------------------------------------------------------------------
(* Properties *)

Values == [user : Users, version : 0..MaxWrites] \cup {NULL}

IsAnswer(a) ==
    /\ DOMAIN a \subseteq ToSet(Plan("metrics")) \cup ToSet(Plan("profile"))
    /\ \A s \in DOMAIN a : a[s] \in Values

\* Types, and that a request has a status exactly when it is over
\* (metrics.go, profile.go).
TypeOK ==
    /\ version \in [Users -> 0..MaxWrites]
    /\ \A k \in DOMAIN cache : IsAnswer(cache[k])
    /\ pc \in [Reqs -> {"idle", "done"} \cup InFlight]
    /\ input \in [Reqs -> Inputs \cup {NULL}]
    /\ \A r \in Reqs : pc[r] = "query" => at[r] \in DOMAIN Plan(input[r].kind)
    /\ \A r \in Reqs : IsAnswer(answer[r])
    /\ code \in [Reqs -> {0, 200, 400, 403, 404, 500}]
    /\ \A r \in Reqs : code[r] # 0 <=> pc[r] = "done"
    /\ \A r \in Reqs : pending[r] = NULL \/ IsAnswer(pending[r])
    /\ cancelled \subseteq Reqs
    /\ faults \in 0..MaxRedisFaults
    /\ seen \in [Users -> [ToSet(Pathologies) -> 0..MaxWrites]]
    /\ overlap \subseteq Users

\* An answer with 200, computed or cached by whatever request, goes to the
\* owner, holds that user's rows only, and lacks nothing but the counts and
\* the evidence whose errors are not looked at (tenancy checks, cache keys,
\* error returns before the SET).
AnswerSound ==
    \A r \in Reqs : pc[r] = "respond" =>
        /\ input[r].user = input[r].sub
        /\ DOMAIN answer[r] = ToSet(Plan(input[r].kind))
        /\ \A s \in DOMAIN answer[r] :
              IF answer[r][s] = NULL THEN OnError(s) = 0
                                     ELSE answer[r][s].user = input[r].user

\* To a user who asks one request at a time, and while Redis does not fail,
\* a profile never shows older rows than an earlier profile did, whatever
\* expires or is dropped in between: the SET is over before the answer
\* (profile.go:148-153).  The metrics do not have this property.
ProfileNeverBack ==
    \A r \in Reqs :
        /\ pc[r] = "respond" /\ input[r].kind = "profile"
        /\ input[r].user \notin overlap /\ faults = 0
        => \A p \in DOMAIN floor[r] :
              answer[r][p] # NULL => answer[r][p].version >= floor[r][p]

\* "Metrics are eventually consistent by design": once the writes to a user's
\* tables are over (MaxWrites bounds them), the cache comes to hold that user's
\* newest rows and stays so, though no write removes an answer, slow handlers
\* put older ones in after newer ones, and clients keep asking
\* (worker.go:182-188, metrics.go:173).
Fresh(u) ==
    \A k \in DOMAIN cache : k[2] = u =>
        \A s \in DOMAIN cache[k] :
            cache[k][s] # NULL => cache[k][s].version = version[u]

EventuallyFresh == \A u \in Users : <>[]Fresh(u)

-----------------------------------------------------------------------------
(* What a comment promises and the code does not keep *)

Shows(a, p) == a[p] # NULL /\ a[p].version >= ShownFrom[p]

Strengths(a) == {g \in StrengthGroups : \A p \in g : ~Shows(a, p)}

\* "Determine strengths from absence of pathologies": a profile does not list
\* as a strength the absence of a pathology whose evidence has always been in
\* the table (profile.go:92-96, 113-133).
StrengthsBacked ==
    \A r \in Reqs : pc[r] = "respond" /\ input[r].kind = "profile" =>
        \A g \in Strengths(answer[r]) : \A p \in g : ShownFrom[p] > 0

-----------------------------------------------------------------------------
(* The inductive invariant behind AnswerSound and ProfileNeverBack *)

\* What statements return that read the tables of u up to version n.
OfUser(a, u, n) ==
    \A s \in DOMAIN a :
        IF a[s] = NULL THEN OnError(s) = 0 ELSE a[s] \in [user : {u}, version : 0..n]

Complete(a, kind, u) ==
    /\ DOMAIN a = ToSet(Plan(kind))
    /\ OfUser(a, u, version[u])

\* A handler past the checks serves the owner, and holds the answers of the
\* statements it is done with.
Progress(r) ==
    /\ pc[r] \in {"idle", "done", "lookup"} => answer[r] = EmptyMap
    /\ pc[r] \in InFlight => input[r] \in Inputs /\ input[r].user = input[r].sub
    /\ pc[r] = "lookup" => at[r] = 1
    /\ pc[r] = "query" =>
          /\ at[r] \in 1..Len(Plan(input[r].kind))
          /\ DOMAIN answer[r] = {Plan(input[r].kind)[j] : j \in 1..(at[r] - 1)}
          /\ OfUser(answer[r], input[r].user, version[input[r].user])
    /\ pc[r] \in {"store", "respond"} => Complete(answer[r], input[r].kind, input[r].user)

\* What waits to be cached, or is, answers the request its key was made of.
PendingSound(r) ==
    pending[r] # NULL =>
        /\ pc[r] \in {"respond", "done"}
        /\ input[r] \in Inputs /\ input[r].kind = "metrics"
        /\ Complete(pending[r], "metrics", input[r].user)

CacheSound == \A k \in DOMAIN cache : k \in Keys /\ Complete(cache[k], k[1], k[2])

\* Where a in place of the newest profile of u so far shows nothing older.
NotOlder(a, u) ==
    \A p \in ToSet(Pathologies) : a[p] # NULL => a[p].version >= seen[u][p]

Serving(r, u) == pc[r] \in InFlight /\ input[r].kind = "profile" /\ input[r].user = u

ProfileKey(u) == <<"profile", u, NULL>>

\* Of a user with one profile request at a time, the cache holds the newest
\* profile or none, and none while a handler computes one.
OneByOne(u) ==
    /\ \A q, r \in Reqs : Serving(q, u) /\ Serving(r, u) => q = r
    /\ ProfileKey(u) \in DOMAIN cache => NotOlder(cache[ProfileKey(u)], u)
    /\ \A r \in Reqs : Serving(r, u) =>
          /\ floor[r] = seen[u]
          /\ pc[r] = "query" =>
                /\ ProfileKey(u) \in DOMAIN cache => at[r] = 1 /\ r \in cancelled
                /\ \A p \in ToSet(Pathologies) \cap DOMAIN answer[r] :
                      answer[r][p] # NULL => answer[r][p].version >= seen[u][p]
          /\ pc[r] = "store" => ProfileKey(u) \notin DOMAIN cache
          /\ pc[r] \in {"store", "respond"} => NotOlder(answer[r], u)
          /\ pc[r] = "respond" /\ ProfileKey(u) \in DOMAIN cache =>
                cache[ProfileKey(u)] = answer[r]

SeenStored == \A u \in Users : \A p \in ToSet(Pathologies) : seen[u][p] <= version[u]

\* What every step keeps: ReadPathProofs shows it for all constants.
ReadInv ==
    /\ TypeOK
    /\ DOMAIN at = Reqs /\ DOMAIN answer = Reqs /\ DOMAIN pending = Reqs /\ DOMAIN floor = Reqs
    /\ \A r \in Reqs : Progress(r) /\ PendingSound(r)
    /\ CacheSound /\ SeenStored
    /\ faults = 0 => \A u \in Users \ overlap : OneByOne(u)

===============================================================================
