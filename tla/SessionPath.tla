----------------------------- MODULE SessionPath -----------------------------
(***************************************************************************)
(* The session routes of the API server: the summary of a session, its     *)
(* debriefs, and the coaching stream (handler/session.go,                  *)
(* store/session_store.go), behind the middleware of RequestGate.          *)
(*                                                                         *)
(* Rows of the sessions table come with the seed and never change.  Trades *)
(* arrive while requests are served.  The summary is made of two           *)
(* statements, a debrief of two, and the stream looks at the context once  *)
(* per token.                                                              *)
(***************************************************************************)
EXTENDS RequestGate

CONSTANTS
    Owner,       \* rows of the sessions table: session -> user
    Malformed,   \* session ids in paths that are not UUIDs
    Moods,       \* the values of emotion_enum
    Trades,      \* rows that may be stored: sessionId, outcome
    Message,     \* the tokens of the coaching message
    Done         \* the event that ends a stream

Tokens == {Message[i] : i \in DOMAIN Message}

ASSUME SessionAssumption ==
    /\ Message \in Seq(Tokens) /\ Message # <<>> /\ Done \notin Tokens
    /\ NULL \notin 0..(Len(Message) + 1)

VARIABLES
    stored,      \* the trades table
    debriefs,    \* the debriefs table; by is the request that inserted a row
    summary,     \* trades listed in a session answer
    sent,        \* events written to each stream
    before,      \* history: the table when the request arrived
    heard        \* history: events written when the client went away, or NULL

tableVars == <<stored, debriefs>>
bodyVars == <<summary, sent>>
historyVars == <<before, heard>>
sessionVars == <<tableVars, bodyVars, historyVars>>
vars == <<gateVars, sessionVars>>

Init ==
    /\ GateInit
    /\ stored = {}
    /\ debriefs = <<>>
    /\ summary = [r \in Reqs |-> NULL]
    /\ sent = [r \in Reqs |-> <<>>]
    /\ before = [r \in Reqs |-> {}]
    /\ heard = [r \in Reqs |-> NULL]

-----------------------------------------------------------------------------
(* The statements *)

\* What a handler leaves alone when it only moves on.
Quiet == UNCHANGED <<contextVars, health, lines, gone, crashes>>

Session(r) == input[r].session

\* The row is there.  The summary reads its trades before it looks at the
\* owner; a stream writes its status before its first token.
SessionFound(r) ==
    /\ pc[r] = "session"
    /\ r \notin gone
    /\ Session(r) \in DOMAIN Owner
    /\ \/ /\ input[r].route = "summary"
          /\ Goto(r, "trades")
          /\ UNCHANGED answerVars
       \/ /\ input[r].route # "summary"
          /\ Owner[Session(r)] # sub[r]
          /\ RespondError(r, 403)
       \/ /\ input[r].route = "debrief"
          /\ Owner[Session(r)] = sub[r]
          /\ Goto(r, "decode")
          /\ UNCHANGED answerVars
       \/ /\ input[r].route = "coaching"
          /\ Owner[Session(r)] = sub[r]
          /\ Goto(r, "check")
          /\ WriteHeader(r, 200)
          /\ UNCHANGED told
    /\ Quiet /\ UNCHANGED sessionVars

SessionMissing(r) ==
    /\ pc[r] = "session"
    /\ r \notin gone
    /\ Session(r) \notin DOMAIN Owner \cup Malformed
    /\ RespondError(r, 404)
    /\ Quiet /\ UNCHANGED sessionVars

\* An id that is no UUID is an error of the statement.
SessionFails(r) ==
    /\ pc[r] = "session"
    /\ DbFailure(r) \/ Session(r) \in Malformed
    /\ RespondError(r, 500)
    /\ Quiet /\ UNCHANGED sessionVars

-----------------------------------------------------------------------------
(* GET /sessions/{sessionId} *)

\* Mutant: only closed trades are listed.
ListClosed(s) == {t \in stored : t.sessionId = s /\ t.outcome # NULL}

ListBySession(s) == {t \in stored : t.sessionId = s}

\* The counts and totals of the answer are functions of the trades it lists.
ListTrades(r) ==
    /\ pc[r] = "trades"
    /\ r \notin gone
    /\ Owner[Session(r)] = sub[r]
    /\ summary' = [summary EXCEPT ![r] = ListBySession(Session(r))]
    /\ Respond(r, 200)
    /\ Quiet /\ UNCHANGED <<tableVars, sent, historyVars>>

\* Another user's session is only refused once its trades are read.
RefuseForeign(r) ==
    /\ pc[r] = "trades"
    /\ r \notin gone
    /\ Owner[Session(r)] # sub[r]
    /\ RespondError(r, 403)
    /\ Quiet /\ UNCHANGED sessionVars

ListFails(r) ==
    /\ pc[r] = "trades"
    /\ DbFailure(r)
    /\ RespondError(r, 500)
    /\ Quiet /\ UNCHANGED sessionVars

-----------------------------------------------------------------------------
(* POST /sessions/{sessionId}/debrief *)

\* The body is read after the session, and its mood checked; NULL stands for a
\* body that cannot be decoded.  Ratings are left to the table.
Decode(r) ==
    /\ pc[r] = "decode"
    /\ IF input[r].mood \in Moods
       THEN Goto(r, "insert") /\ UNCHANGED answerVars
       ELSE RespondError(r, 400)
    /\ Quiet /\ UNCHANGED sessionVars

\* Mutant: no CHECK, and Go's zero for a missing rating.
AcceptedZero(rating) == rating = NULL \/ rating \in 0..5

Accepted(rating) == rating = NULL \/ rating \in 1..5

Save(r) ==
    debriefs' = Append(debriefs, [by |-> r, session |-> Session(r),
                                  mood |-> input[r].mood, rating |-> input[r].rating])

InsertDebrief(r) ==
    /\ pc[r] = "insert"
    /\ r \notin gone
    /\ Accepted(input[r].rating)
    /\ Save(r)
    /\ Respond(r, 201)
    /\ Quiet /\ UNCHANGED <<stored, bodyVars, historyVars>>

\* Mutant: a failed insert is tried again.
InsertRetried(r) ==
    /\ pc[r] = "insert"
    /\ DbFailure(r)
    /\ Accepted(input[r].rating)
    /\ Len(debriefs) < 4
    /\ Save(r)
    /\ UNCHANGED <<pc, answerVars>>
    /\ Quiet /\ UNCHANGED <<stored, bodyVars, historyVars>>

\* The row is kept and the reply is lost.
InsertReplyLost(r) ==
    /\ pc[r] = "insert"
    /\ DbFailure(r)
    /\ Accepted(input[r].rating)
    /\ Save(r)
    /\ RespondError(r, 500)
    /\ Quiet /\ UNCHANGED <<stored, bodyVars, historyVars>>

\* A rating the CHECK refuses is an error like any other.
InsertFails(r) ==
    /\ pc[r] = "insert"
    /\ DbFailure(r) \/ ~Accepted(input[r].rating)
    /\ RespondError(r, 500)
    /\ Quiet /\ UNCHANGED sessionVars

-----------------------------------------------------------------------------
(* GET /sessions/{sessionId}/coaching *)

\* Mutant: break leaves the select, not the loop.
StreamCheckBreaks(r) ==
    /\ pc[r] = "check"
    /\ Goto(r, "send")
    /\ Quiet /\ UNCHANGED <<answerVars, sessionVars>>

\* The head of the loop.
StreamCheck(r) ==
    /\ pc[r] = "check"
    /\ Goto(r, IF r \in gone THEN "return" ELSE "send")
    /\ Quiet /\ UNCHANGED <<answerVars, sessionVars>>

Emit(r, event) == sent' = [sent EXCEPT ![r] = Append(@, event)]

\* The next token is written and flushed; 30 ms later the loop goes on.
StreamToken(r) ==
    LET index == Len(sent[r]) + 1
    IN  /\ pc[r] = "send"
        /\ Emit(r, Message[index])
        /\ Goto(r, IF index < Len(Message) THEN "check" ELSE "finish")
        /\ Quiet /\ UNCHANGED <<answerVars, tableVars, summary, historyVars>>

\* After the last token nobody looks at the context again.
StreamDone(r) ==
    /\ pc[r] = "finish"
    /\ Emit(r, Done)
    /\ Goto(r, "return")
    /\ Quiet /\ UNCHANGED <<answerVars, tableVars, summary, historyVars>>

-----------------------------------------------------------------------------
(* The environment *)

\* A trade of some session is stored (TradeIngest).
StoreTrade(t) ==
    /\ t \notin stored
    /\ stored' = stored \cup {t}
    /\ UNCHANGED <<gateVars, debriefs, bodyVars, historyVars>>

ArriveHere(r) ==
    /\ Arrive(r)
    /\ before' = [before EXCEPT ![r] = stored]
    /\ UNCHANGED <<tableVars, bodyVars, heard>>

DisconnectHere(r) ==
    /\ Disconnect(r)
    /\ heard' = [heard EXCEPT ![r] = IF @ = NULL THEN Len(sent[r]) ELSE @]
    /\ UNCHANGED <<tableVars, bodyVars, before>>

-----------------------------------------------------------------------------
Handler(r) ==
    \/ SessionFound(r) \/ SessionMissing(r) \/ SessionFails(r)
    \/ ListTrades(r) \/ RefuseForeign(r) \/ ListFails(r)
    \/ Decode(r) \/ InsertDebrief(r) \/ InsertReplyLost(r) \/ InsertFails(r)
    \/ StreamCheck(r) \/ StreamToken(r) \/ StreamDone(r)

Step(r) == Handler(r) \/ (Gate(r) /\ UNCHANGED sessionVars)

Next ==
    \/ \E r \in Reqs :
          \/ ArriveHere(r)
          \/ Step(r)
          \/ PingReply(r) /\ UNCHANGED sessionVars
          \/ DisconnectHere(r)
    \/ StopServer /\ UNCHANGED sessionVars
    \/ \E t \in Trades : StoreTrade(t)

Spec == Init /\ [][Next]_vars

\* Handlers run and their statements return; the ping of /health need not.
FairSpec == Spec /\ \A r \in Reqs : WF_vars(Step(r))

-----------------------------------------------------------------------------
(* Properties *)

\* Types of the middleware's and the handlers' state (session.go, logger.go).
TypeOK ==
    /\ pc \in [Reqs -> Resting \cup {"auth", "notFound", "ping", "lag", "session", "trades",
                                     "decode", "insert", "check", "send", "finish", "return"}]
    /\ input \in [Reqs -> Inputs \cup {NULL}]
    /\ trace \in [Reqs -> Reqs \cup {NULL}]
    /\ sub \in [Reqs -> Users \cup {NULL}]
    /\ code \in [Reqs -> {0, 200, 201, 400, 401, 403, 404, 500}]
    /\ captured \in [Reqs -> Nat]
    /\ told \in [Reqs -> Reqs \cup {NULL}]
    /\ lines \in Seq([trace : Reqs, userId : {NULL}, statusCode : Nat])
    /\ gone \subseteq Reqs
    /\ stored \subseteq Trades
    /\ debriefs \in Seq([by : Reqs, session : DOMAIN Owner, mood : Moods, rating : {NULL} \cup 1..5])
    /\ sent \in [Reqs -> Seq(Tokens \cup {Done})]
    /\ \A r \in Reqs : Len(sent[r]) <= Len(Message) + 1
    /\ before \in [Reqs -> SUBSET Trades] /\ DOMAIN summary = Reqs
    /\ heard \in [Reqs -> {NULL} \cup 0..(Len(Message) + 1)]

\* One POST saves at most one debrief, of a session of its token's user, and
\* exactly one if it answers 201; one refused with a 4xx saves none, whatever
\* fails, is lost or is disconnected in between (Debrief, InsertDebrief).
SavedBy(r) == {n \in DOMAIN debriefs : debriefs[n].by = r}

DebriefSavedOnce ==
    /\ \A r \in Reqs :
          /\ Cardinality(SavedBy(r)) <= 1
          /\ code[r] = 201 => SavedBy(r) # {}
          /\ SavedBy(r) # {} => code[r] \in {201, 500}
    /\ \A n \in DOMAIN debriefs : Owner[debriefs[n].session] = sub[debriefs[n].by]

\* A session answer goes to the owner and has every trade of the session that
\* was stored when the request arrived, and none of another session, though it
\* is put together from two statements (GetWithTrades, ListBySession).
Summarised(r) ==
    summary[r] # NULL =>
        /\ Owner[Session(r)] = sub[r]
        /\ {t \in before[r] : t.sessionId = Session(r)} \subseteq summary[r]
        /\ summary[r] \subseteq {t \in stored : t.sessionId = Session(r)}

SummaryCurrent == \A r \in Reqs : Summarised(r)

\* What a stream has written is a beginning of the message, followed by done
\* only when it is whole; and after the client has gone at most the token the
\* loop was about to write follows, and done after the last (Coaching).
Script == Append(Message, Done)

Streamed(r) ==
    /\ sent[r] = SubSeq(Script, 1, Len(sent[r]))
    /\ sent[r] # <<>> => sub[r] = Owner[Session(r)] /\ code[r] = 200
    /\ heard[r] # NULL => Len(sent[r]) <= heard[r] + 1 \/ sent[r] = Script
    /\ heard[r] # NULL /\ Len(sent[r]) > heard[r] + 1 => heard[r] >= Len(Message) - 1

StreamFaithful == \A r \in Reqs : Streamed(r)

\* Every request that arrives ends, and every stream with it, whether the
\* client stays or goes, unless the process dies; a health check ends even if
\* the database never answers its ping ("No goroutine leak").
EveryRequestEnds ==
    \A r \in Reqs : pc[r] \notin Resting ~> pc[r] \in {"over", "lost"}

-----------------------------------------------------------------------------
(* The inductive invariant *)

Answering == {"check", "send", "finish"}
Past == {"return", "over", "lost"}

\* What each point of a handler stands for: nothing is answered before a
\* handler is done, but for a stream, which is the owner's; the trace id and
\* the status the logger holds are the request's.
Point(r) ==
    /\ pc[r] # "idle" => trace[r] = r
    /\ told[r] # NULL => told[r] = r
    /\ code[r] # 0 => captured[r] = code[r]
    /\ pc[r] \notin Answering \cup Past => code[r] = 0
    /\ pc[r] \in Answering => code[r] = 200
    /\ pc[r] \in {"return", "over"} => code[r] # 0
    /\ pc[r] \in {"decode", "insert", "trades"} \cup Answering => Session(r) \in DOMAIN Owner
    /\ pc[r] \in {"decode", "insert"} \cup Answering => Owner[Session(r)] = sub[r]
    /\ pc[r] = "insert" => input[r].mood \in Moods

Progress == \A r \in Reqs : Point(r)

\* A line stands for one request that is over, with its status.
OneLineEach ==
    /\ \A n \in DOMAIN lines :
          pc[lines[n].trace] = "over" /\ lines[n].statusCode = code[lines[n].trace]
    /\ \A m, n \in DOMAIN lines : lines[m].trace = lines[n].trace => m = n
    /\ \A r \in Reqs : pc[r] = "over" => \E n \in DOMAIN lines : lines[n].trace = r

\* A debrief stands for one answered request of the session's owner.
OneDebriefEach ==
    /\ \A n \in DOMAIN debriefs :
          LET r == debriefs[n].by
          IN  /\ pc[r] \in Past /\ code[r] \in {201, 500}
              /\ Owner[debriefs[n].session] = sub[r]
    /\ \A m, n \in DOMAIN debriefs : debriefs[m].by = debriefs[n].by => m = n
    /\ \A r \in Reqs : code[r] = 201 => \E n \in DOMAIN debriefs : debriefs[n].by = r

\* A summary is made once, of trades that were there.
SummaryOnce ==
    \A r \in Reqs : (summary[r] # NULL => pc[r] \in Past) /\ before[r] \subseteq stored

\* How far a stream is, and was when its client went away.
StreamPoint(r) ==
    /\ pc[r] \notin Answering \cup Past => sent[r] = <<>>
    /\ pc[r] \in {"check", "send"} => Len(sent[r]) < Len(Message)
    /\ pc[r] = "finish" => Len(sent[r]) = Len(Message)
    /\ heard[r] # NULL <=> r \in gone
    /\ heard[r] # NULL =>
          /\ heard[r] <= Len(sent[r])
          /\ pc[r] = "send" => Len(sent[r]) = heard[r]
          /\ pc[r] \in {"check", "finish"} => Len(sent[r]) <= heard[r] + 1

StreamAt == \A r \in Reqs : StreamPoint(r)

\* What every step of the server keeps, whatever fails, goes away or stops:
\* SessionPathProofs shows it for all constants.
SessionInv ==
    /\ TypeOK /\ Progress
    /\ OneLineEach /\ OneDebriefEach
    /\ SummaryOnce /\ SummaryCurrent
    /\ StreamAt /\ StreamFaithful

==============================================================================
