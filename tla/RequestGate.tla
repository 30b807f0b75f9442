----------------------------- MODULE RequestGate -----------------------------
(***************************************************************************)
(* What every request to the API server goes through before and after its  *)
(* handler: the logger, the token check and the routes (router.go,         *)
(* internal/api/middleware), with GET /health, the one route that needs no *)
(* token.  SessionPath adds the handlers behind the token check.           *)
(*                                                                         *)
(* A header is the id a valid token carries or the reason it is refused; a *)
(* trace id is named by its request.                                       *)
(***************************************************************************)
EXTENDS Integers, Sequences, FiniteSets

CONSTANTS
    NULL,
    Reqs,
    Users,
    Inputs,         \* requests clients may send: route, header, and the rest
    DbMayFail,
    MaxCrashes      \* bound: server processes lost

ASSUME GateAssumption == \A i \in Inputs : i.route \in STRING /\ MaxCrashes \in Nat

VARIABLES
    pc,          \* where each request is
    input,       \* what was asked
    trace,       \* inner context: the trace id
    sub,         \* inner context: the user of the token
    code,        \* status written to the client, 0 before
    captured,    \* status the logger's response writer holds
    told,        \* trace id in the body of an error answer
    health,      \* answer of GET /health
    lines,       \* the log
    gone,        \* requests whose context is cancelled: the client went away
    crashes

answerVars == <<code, captured, told>>
contextVars == <<input, trace, sub>>
gateVars == <<pc, contextVars, answerVars, health, lines, gone, crashes>>

Resting == {"idle", "over", "lost"}

GateInit ==
    /\ pc = [r \in Reqs |-> "idle"]
    /\ input = [r \in Reqs |-> NULL]
    /\ trace = [r \in Reqs |-> NULL]
    /\ sub = [r \in Reqs |-> NULL]
    /\ code = [r \in Reqs |-> 0]
    /\ captured = [r \in Reqs |-> 200]
    /\ told = [r \in Reqs |-> NULL]
    /\ health = [r \in Reqs |-> NULL]
    /\ lines = <<>>
    /\ gone = {}
    /\ crashes = 0

-----------------------------------------------------------------------------
DbFailure(r) == DbMayFail \/ r \in gone

Goto(r, p) == pc' = [pc EXCEPT ![r] = p]

\* Mutant: the embedded writer's WriteHeader is used.
WriteHeaderUnseen(r, status) ==
    /\ code' = [code EXCEPT ![r] = status]
    /\ UNCHANGED captured

\* WriteHeader of the logger's response writer, called once per request.
WriteHeader(r, status) ==
    /\ code' = [code EXCEPT ![r] = status]
    /\ captured' = [captured EXCEPT ![r] = status]

\* respondJSON; the handler returns.
Respond(r, status) ==
    /\ WriteHeader(r, status)
    /\ Goto(r, "return")
    /\ UNCHANGED told

\* respondError and respondAuthError; the handler returns.
RespondError(r, status) ==
    /\ WriteHeader(r, status)
    /\ told' = [told EXCEPT ![r] = trace[r]]
    /\ Goto(r, "return")

-----------------------------------------------------------------------------
\* Logger makes a trace id and passes it on in the context; chi picks the route.
Arrive(r) ==
    /\ pc[r] = "idle"
    /\ \E i \in Inputs :
          /\ input' = [input EXCEPT ![r] = i]
          /\ Goto(r, CASE i.route = "health" -> "ping"
                       [] i.route = "unknown" -> "notFound"
                       [] OTHER -> "auth")
    /\ trace' = [trace EXCEPT ![r] = r]
    /\ UNCHANGED <<sub, answerVars, health, lines, gone, crashes>>

\* chi's own answer, in plain text.
NotFound(r) ==
    /\ pc[r] = "notFound"
    /\ Respond(r, 404)
    /\ UNCHANGED <<contextVars, health, lines, gone, crashes>>

\* AuthMiddleware: a header without a usable token is answered here.
Refuse(r) ==
    /\ pc[r] = "auth"
    /\ input[r].header \notin Users
    /\ RespondError(r, 401)
    /\ UNCHANGED <<contextVars, health, lines, gone, crashes>>

Admit(r) ==
    /\ pc[r] = "auth"
    /\ input[r].header \in Users
    /\ sub' = [sub EXCEPT ![r] = input[r].header]
    /\ Goto(r, "session")
    /\ UNCHANGED <<input, trace, answerVars, health, lines, gone, crashes>>

\* The line is written when the handler has returned, by a function that holds
\* the outer context: the trace id is there, the user is not.
Log(r) ==
    /\ pc[r] = "return"
    /\ Goto(r, "over")
    /\ lines' = Append(lines, [trace |-> trace[r], userId |-> NULL, statusCode |-> captured[r]])
    /\ UNCHANGED <<contextVars, answerVars, health, gone, crashes>>

-----------------------------------------------------------------------------
(* GET /health *)

\* The ping answers; the database may as well never answer it.
PingReply(r) ==
    /\ pc[r] = "ping"
    /\ \/ r \notin gone /\ health' = [health EXCEPT ![r] = [db |-> "connected", lag |-> NULL]]
       \/ DbFailure(r) /\ health' = [health EXCEPT ![r] = [db |-> "disconnected", lag |-> NULL]]
    /\ Goto(r, "lag")
    /\ UNCHANGED <<contextVars, answerVars, lines, gone, crashes>>

\* Mutant: the request's own context.
PingWithoutTimeout(r) ==
    /\ pc[r] = "ping"
    /\ r \in gone
    /\ health' = [health EXCEPT ![r] = [db |-> "disconnected", lag |-> NULL]]
    /\ Goto(r, "lag")
    /\ UNCHANGED <<contextVars, answerVars, lines, gone, crashes>>

\* Two seconds, or the client has gone.
PingTimeout(r) ==
    /\ pc[r] = "ping"
    /\ health' = [health EXCEPT ![r] = [db |-> "disconnected", lag |-> NULL]]
    /\ Goto(r, "lag")
    /\ UNCHANGED <<contextVars, answerVars, lines, gone, crashes>>

\* The age of the newest entry, or 0 without one or after an error, and the
\* answer: always 200.
CheckLag(r) ==
    /\ pc[r] = "lag"
    /\ \E lag \in {"age", "zero"} : health' = [health EXCEPT ![r].lag = lag]
    /\ Respond(r, 200)
    /\ UNCHANGED <<contextVars, lines, gone, crashes>>

-----------------------------------------------------------------------------
(* The environment *)

Disconnect(r) ==
    /\ pc[r] \notin Resting
    /\ gone' = gone \cup {r}
    /\ UNCHANGED <<pc, contextVars, answerVars, health, lines, crashes>>

\* The process dies, or stops on a signal without waiting for its handlers.
StopServer ==
    /\ crashes < MaxCrashes
    /\ crashes' = crashes + 1
    /\ pc' = [r \in Reqs |-> IF pc[r] \in Resting THEN pc[r] ELSE "lost"]
    /\ UNCHANGED <<contextVars, answerVars, health, lines, gone>>

-----------------------------------------------------------------------------
Gate(r) ==
    \/ NotFound(r) \/ Refuse(r) \/ Admit(r)
    \/ PingTimeout(r) \/ CheckLag(r)
    \/ Log(r)

-----------------------------------------------------------------------------
(* Properties *)

LinesOf(r) == {n \in DOMAIN lines : lines[n].trace = r}

\* Every request that is over has one line in the log, with the status its
\* client was sent, and the trace id an error answer names leads to it, through
\* every early return and under interleaved requests; a request that is not
\* over, or whose process died, has none (Logger, responseWriter, respondError,
\* respondAuthError).
LogFaithful ==
    \A r \in Reqs :
        IF pc[r] = "over"
        THEN /\ code[r] # 0
             /\ \E n \in DOMAIN lines :
                   /\ LinesOf(r) = {n}
                   /\ lines[n].statusCode = code[r]
             /\ told[r] # NULL => LinesOf(told[r]) = LinesOf(r)
        ELSE LinesOf(r) = {}

==============================================================================
