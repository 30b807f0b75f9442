-------------------------- MODULE SessionPathProofs --------------------------
(***************************************************************************)
(* Theorems about SessionPath, for all requests, users, sessions, messages *)
(* and trades, with or without failures, disconnects and stops.            *)
(***************************************************************************)
EXTENDS SessionPath, FiniteSetTheorems, SequenceTheorems, TLAPS

-----------------------------------------------------------------------------
(* The steps *)

\* What a step that is not a request's own leaves of it.
Still(q) ==
    /\ pc'[q] = pc[q] \/ (pc[q] \notin Resting /\ pc'[q] = "lost")
    /\ input'[q] = input[q] /\ trace'[q] = trace[q] /\ sub'[q] = sub[q]
    /\ code'[q] = code[q] /\ captured'[q] = captured[q] /\ told'[q] = told[q]
    /\ summary'[q] = summary[q] /\ sent'[q] = sent[q]
    /\ before'[q] = before[q] /\ heard'[q] = heard[q]
    /\ q \in gone' <=> q \in gone

\* The steps of one request.
Act(r) == ArriveHere(r) \/ Step(r) \/ (PingReply(r) /\ UNCHANGED sessionVars) \/ DisconnectHere(r)

LEMMA Steps ==
    ASSUME [Next]_vars
    PROVE  \/ \E r \in Reqs : Act(r)
           \/ StopServer /\ UNCHANGED sessionVars
           \/ \E t \in Trades : StoreTrade(t)
           \/ UNCHANGED vars
    BY DEF Next, Act

\* A request's step is its own.
LEMMA Apart ==
    ASSUME TypeOK, NEW r \in Reqs, Act(r), NEW q \in Reqs, q # r
    PROVE  Still(q)
    <1> USE DEF TypeOK, Still, Goto, Respond, RespondError, WriteHeader, contextVars, answerVars,
                tableVars, bodyVars, historyVars, sessionVars, Quiet
    <1>1. CASE ArriveHere(r)
      BY <1>1 DEF ArriveHere, Arrive
    <1>2. CASE Gate(r) /\ UNCHANGED sessionVars
      BY <1>2 DEF Gate, NotFound, Refuse, Admit, PingTimeout, CheckLag, Log
    <1>3. CASE PingReply(r) /\ UNCHANGED sessionVars
      BY <1>3 DEF PingReply
    <1>4. CASE DisconnectHere(r)
      BY <1>4 DEF DisconnectHere, Disconnect
    <1>5. CASE SessionFound(r) \/ SessionMissing(r) \/ SessionFails(r)
      BY <1>5 DEF SessionFound, SessionMissing, SessionFails
    <1>6. CASE ListTrades(r) \/ RefuseForeign(r) \/ ListFails(r)
      BY <1>6 DEF ListTrades, RefuseForeign, ListFails
    <1>7. CASE Decode(r) \/ InsertDebrief(r) \/ InsertReplyLost(r) \/ InsertFails(r)
      BY <1>7 DEF Decode, InsertDebrief, InsertReplyLost, InsertFails
    <1>8. CASE StreamCheck(r) \/ StreamToken(r) \/ StreamDone(r)
      BY <1>8 DEF StreamCheck, StreamToken, StreamDone, Emit
    <1> QED BY <1>1, <1>2, <1>3, <1>4, <1>5, <1>6, <1>7, <1>8 DEF Act, Step, Handler

LEMMA OthersStill ==
    ASSUME TypeOK, [Next]_vars, NEW q \in Reqs
    PROVE  Act(q) \/ Still(q)
    <1>1. ASSUME NEW r \in Reqs, Act(r) PROVE Act(q) \/ Still(q)
      BY <1>1, Apart
    <1>2. CASE StopServer /\ UNCHANGED sessionVars
      BY <1>2 DEF TypeOK, Still, StopServer, contextVars, answerVars, tableVars, bodyVars,
                  historyVars, sessionVars
    <1>3. CASE (\E t \in Trades : StoreTrade(t)) \/ UNCHANGED vars
      BY <1>3 DEF Still, StoreTrade, vars, gateVars, contextVars, answerVars, tableVars,
                  bodyVars, historyVars, sessionVars
    <1> QED BY <1>1, <1>2, <1>3, Steps

-----------------------------------------------------------------------------
(* One request *)

\* The answers: whatever a handler answers, it answers once and returns.
Answered(r) ==
    /\ pc[r] \notin Answering \cup Past \cup {"idle"} /\ pc'[r] = "return"
    /\ code'[r] \in {200, 201, 400, 401, 403, 404, 500} /\ captured'[r] = code'[r]
    /\ told'[r] \in {told[r], trace[r]}
    /\ input'[r] = input[r] /\ trace'[r] = trace[r] /\ sub'[r] = sub[r] /\ sent'[r] = sent[r]
    /\ heard'[r] = heard[r] /\ gone' = gone

LEMMA Answers ==
    ASSUME TypeOK, NEW r \in Reqs,
           \/ NotFound(r) \/ Refuse(r) \/ CheckLag(r)
           \/ SessionFound(r) /\ pc'[r] = "return"
           \/ SessionMissing(r) \/ SessionFails(r)
           \/ ListTrades(r) \/ RefuseForeign(r) \/ ListFails(r)
           \/ Decode(r) /\ pc'[r] = "return"
           \/ InsertDebrief(r) \/ InsertReplyLost(r) \/ InsertFails(r),
           UNCHANGED <<sent, heard>>
    PROVE  Answered(r)
    <1> USE DEF TypeOK, Answered, Goto, Respond, RespondError, WriteHeader, contextVars,
                answerVars, Quiet, Answering, Past, historyVars, sessionVars
    <1>1. CASE NotFound(r) \/ Refuse(r) \/ CheckLag(r)
      BY <1>1 DEF NotFound, Refuse, CheckLag
    <1>2. CASE SessionFound(r) /\ pc'[r] = "return"
      BY <1>2 DEF SessionFound
    <1>3. CASE SessionMissing(r) \/ SessionFails(r)
      BY <1>3 DEF SessionMissing, SessionFails
    <1>4. CASE ListTrades(r) \/ RefuseForeign(r) \/ ListFails(r)
      BY <1>4 DEF ListTrades, RefuseForeign, ListFails
    <1>5. CASE Decode(r) /\ pc'[r] = "return"
      BY <1>5 DEF Decode
    <1>6. CASE InsertDebrief(r) \/ InsertReplyLost(r) \/ InsertFails(r)
      BY <1>6 DEF InsertDebrief, InsertReplyLost, InsertFails
    <1> QED BY <1>1, <1>2, <1>3, <1>4, <1>5, <1>6

\* The other steps of a handler: it answers nothing, or opens its stream.
Moves(r) ==
    \/ (Admit(r) \/ PingTimeout(r) \/ PingReply(r) \/ Log(r)) /\ UNCHANGED sessionVars
    \/ SessionFound(r) /\ pc'[r] \in {"trades", "decode", "check"}
    \/ Decode(r) /\ pc'[r] = "insert"
    \/ StreamCheck(r) \/ StreamToken(r) \/ StreamDone(r)

LEMMA OwnSteps ==
    ASSUME TypeOK, NEW r \in Reqs, Act(r)
    PROVE  ArriveHere(r) \/ DisconnectHere(r) \/ Answered(r) \/ Moves(r)
    <1>1. SessionFound(r) => pc'[r] \in {"return", "trades", "decode", "check"}
      BY DEF SessionFound, Goto, RespondError, TypeOK
    <1>2. Decode(r) => pc'[r] \in {"return", "insert"}
      BY DEF Decode, Goto, RespondError, TypeOK
    <1>3. ASSUME \/ Gate(r) /\ UNCHANGED sessionVars
                 \/ SessionFound(r) \/ SessionMissing(r) \/ SessionFails(r)
                 \/ ListTrades(r) \/ RefuseForeign(r) \/ ListFails(r) \/ Decode(r)
                 \/ InsertDebrief(r) \/ InsertReplyLost(r) \/ InsertFails(r)
          PROVE  UNCHANGED <<sent, heard>>
      BY <1>3 DEF sessionVars, bodyVars, historyVars, SessionFound, SessionMissing, SessionFails,
                  ListTrades, RefuseForeign, ListFails, Decode, InsertDebrief, InsertReplyLost, InsertFails
    <1> QED BY <1>1, <1>2, <1>3, Answers DEF Act, Step, Handler, Gate, Moves

LEMMA ProgressStep ==
    ASSUME TypeOK, Progress, [Next]_vars
    PROVE  Progress'
    <1> SUFFICES ASSUME NEW q \in Reqs PROVE Point(q)'
      BY DEF Progress
    <1> USE DEF Point, Session
    <1>1. Point(q)
      BY DEF Progress
    <1>2. CASE Still(q)
      BY <1>1, <1>2 DEF Still, Resting, Answering, Past
    <1>3. CASE Answered(q)
      BY <1>1, <1>3 DEF Answered, Answering, Past
    <1>4. CASE ArriveHere(q) \/ DisconnectHere(q)
      BY <1>1, <1>4 DEF ArriveHere, Arrive, DisconnectHere, Disconnect, contextVars, answerVars,
                        Goto, TypeOK, Answering, Past
    <1>5. CASE Moves(q)
      <2> USE DEF TypeOK, Goto, Answering, Past, contextVars, answerVars, Quiet
      <2>1. CASE Admit(q) \/ PingTimeout(q) \/ PingReply(q)
        BY <1>1, <2>1 DEF Admit, PingTimeout, PingReply
      <2>2. CASE SessionFound(q) /\ pc'[q] \in {"trades", "decode", "check"}
        BY <1>1, <2>2 DEF SessionFound, WriteHeader, RespondError
      <2>3. CASE Decode(q) /\ pc'[q] = "insert"
        BY <1>1, <2>3 DEF Decode, RespondError, WriteHeader
      <2>4. CASE StreamCheck(q) \/ StreamToken(q) \/ StreamDone(q)
        <3>1. UNCHANGED <<contextVars, answerVars>>
          BY <2>4 DEF StreamCheck, StreamToken, StreamDone
        <3>2. /\ pc[q] \in Answering
              /\ pc'[q] \in Answering \cup {"return"}
          BY <2>4 DEF StreamCheck, StreamToken, StreamDone
        <3> QED BY <1>1, <3>1, <3>2
      <2>5. CASE Log(q)
        BY <1>1, <2>5 DEF Log
      <2> QED BY <1>5, <2>1, <2>2, <2>3, <2>4, <2>5 DEF Moves
    <1> QED BY <1>2, <1>3, <1>4, <1>5, OthersStill, OwnSteps

-----------------------------------------------------------------------------
(* Types *)

\* What a step may do to the values of TypeOK that are no functions of requests.
LEMMA DebriefSteps ==
    ASSUME [Next]_vars
    PROVE  \/ \E r \in Reqs : Save(r) /\ (InsertDebrief(r) \/ InsertReplyLost(r))
           \/ UNCHANGED debriefs
    BY Steps DEF Act, Step, Handler, ArriveHere, DisconnectHere, sessionVars, tableVars, vars,
           StoreTrade, SessionFound, SessionMissing, SessionFails, ListTrades, RefuseForeign,
           ListFails, Decode, InsertDebrief, InsertReplyLost, InsertFails, StreamCheck,
           StreamToken, StreamDone

LEMMA LineSteps ==
    ASSUME [Next]_vars
    PROVE  \/ \E r \in Reqs : Log(r) /\ UNCHANGED sessionVars
           \/ UNCHANGED lines
    BY Steps DEF Act, Step, Handler, Gate, ArriveHere, Arrive, DisconnectHere, Disconnect, vars,
           gateVars, StopServer, NotFound, Refuse, Admit, PingTimeout, CheckLag, PingReply,
           StoreTrade, SessionFound, SessionMissing, SessionFails, ListTrades, RefuseForeign,
           ListFails, Decode, InsertDebrief, InsertReplyLost, InsertFails, StreamCheck,
           StreamToken, StreamDone, Quiet

LEMMA StoredSteps ==
    ASSUME [Next]_vars
    PROVE  \/ \E t \in Trades : stored' = stored \cup {t}
           \/ UNCHANGED stored
    BY Steps DEF Act, Step, Handler, ArriveHere, DisconnectHere, sessionVars, tableVars, vars,
           StoreTrade, SessionFound, SessionMissing, SessionFails, ListTrades, RefuseForeign,
           ListFails, Decode, InsertDebrief, InsertReplyLost, InsertFails, StreamCheck,
           StreamToken, StreamDone

LEMMA EventSteps ==
    ASSUME [Next]_vars
    PROVE  \/ \E r \in Reqs : StreamToken(r) \/ StreamDone(r)
           \/ UNCHANGED sent
    BY Steps DEF Act, Step, Handler, ArriveHere, DisconnectHere, sessionVars, bodyVars, vars,
           StoreTrade, SessionFound, SessionMissing, SessionFails, ListTrades, RefuseForeign,
           ListFails, Decode, InsertDebrief, InsertReplyLost, InsertFails, StreamCheck

\* The part of TypeOK about the middleware's state, but for the log.
GateTypes ==
    /\ input \in [Reqs -> Inputs \cup {NULL}]
    /\ trace \in [Reqs -> Reqs \cup {NULL}]
    /\ sub \in [Reqs -> Users \cup {NULL}]
    /\ code \in [Reqs -> {0, 200, 201, 400, 401, 403, 404, 500}]
    /\ captured \in [Reqs -> Nat]
    /\ told \in [Reqs -> Reqs \cup {NULL}]
    /\ gone \subseteq Reqs
    /\ pc \in [Reqs -> Resting \cup {"auth", "notFound", "ping", "lag", "session", "trades",
                                     "decode", "insert", "check", "send", "finish", "return"}]

LEMMA GateTypesStep ==
    ASSUME TypeOK, [Next]_vars
    PROVE  GateTypes'
    <1> USE DEF GateTypes, Goto, contextVars, answerVars, Quiet, Resting
    <1>0. GateTypes
      BY DEF TypeOK
    <1>1. ASSUME NEW r \in Reqs, Act(r) PROVE GateTypes'
      <2>1. CASE ArriveHere(r) \/ DisconnectHere(r)
        <3>1. CASE ArriveHere(r)
          <4>1. PICK i \in Inputs : input' = [input EXCEPT ![r] = i]
            BY <3>1 DEF ArriveHere, Arrive
          <4>2. \E p \in {"ping", "notFound", "auth"} : pc' = [pc EXCEPT ![r] = p]
            BY <3>1 DEF ArriveHere, Arrive
          <4> QED BY <1>0, <3>1, <4>1, <4>2 DEF ArriveHere, Arrive
        <3>2. CASE DisconnectHere(r)
          BY <1>0, <3>2 DEF DisconnectHere, Disconnect
        <3> QED BY <2>1, <3>1, <3>2
      <2> USE DEF Respond, RespondError, WriteHeader
      <2>2. CASE NotFound(r) \/ Refuse(r) \/ Admit(r) \/ PingTimeout(r) \/ PingReply(r) \/ CheckLag(r) \/ Log(r)
        <3>1. CASE NotFound(r) \/ Refuse(r)
          BY <1>0, <3>1 DEF NotFound, Refuse
        <3>2. CASE Admit(r)
          BY <1>0, <3>2 DEF Admit
        <3>3. CASE PingTimeout(r) \/ PingReply(r)
          BY <1>0, <3>3 DEF PingTimeout, PingReply
        <3>4. CASE CheckLag(r)
          BY <1>0, <3>4 DEF CheckLag
        <3>5. CASE Log(r)
          BY <1>0, <3>5 DEF Log
        <3> QED BY <2>2, <3>1, <3>2, <3>3, <3>4, <3>5
      <2>3. CASE SessionFound(r)
        BY <1>0, <2>3 DEF SessionFound
      <2>4. CASE SessionMissing(r) \/ SessionFails(r)
        BY <1>0, <2>4 DEF SessionMissing, SessionFails
      <2>5. CASE ListTrades(r) \/ RefuseForeign(r) \/ ListFails(r)
        BY <1>0, <2>5 DEF ListTrades, RefuseForeign, ListFails
      <2>6. CASE Decode(r)
        BY <1>0, <2>6 DEF Decode
      <2>7. CASE InsertDebrief(r) \/ InsertReplyLost(r) \/ InsertFails(r)
        BY <1>0, <2>7 DEF InsertDebrief, InsertReplyLost, InsertFails
      <2>8. CASE StreamCheck(r) \/ StreamDone(r)
        BY <1>0, <2>8 DEF StreamCheck, StreamDone
      <2>9. CASE StreamToken(r)
        BY <1>0, <2>9 DEF StreamToken
      <2> QED BY <1>1, <2>1, <2>2, <2>3, <2>4, <2>5, <2>6, <2>7, <2>8, <2>9 DEF Act, Step, Handler, Gate
    <1>2. CASE StopServer
      BY <1>0, <1>2 DEF StopServer
    <1>3. CASE (\E t \in Trades : StoreTrade(t)) \/ UNCHANGED vars
      BY <1>0, <1>3 DEF StoreTrade, vars, gateVars
    <1> QED BY <1>1, <1>2, <1>3, Steps

LEMMA LogTypeStep ==
    ASSUME TypeOK, Progress, [Next]_vars
    PROVE  lines' \in Seq([trace : Reqs, userId : {NULL}, statusCode : Nat])
    <1>1. ASSUME NEW r \in Reqs, Log(r)
          PROVE  lines' \in Seq([trace : Reqs, userId : {NULL}, statusCode : Nat])
      <2>1. trace[r] = r /\ captured[r] \in Nat
        BY <1>1 DEF Log, Progress, Point, TypeOK
      <2>2. lines' = Append(lines, [trace |-> r, userId |-> NULL, statusCode |-> captured[r]])
        BY <1>1, <2>1 DEF Log
      <2> QED BY <2>1, <2>2 DEF TypeOK
    <1> QED BY <1>1, LineSteps DEF TypeOK

DebriefRow == [by : Reqs, session : DOMAIN Owner, mood : Moods, rating : {NULL} \cup 1..5]

\* A saved debrief is of a session of the table, with a mood and a rating the
\* table takes.
LEMMA SavedRow ==
    ASSUME TypeOK, Progress, NEW r \in Reqs, Save(r), InsertDebrief(r) \/ InsertReplyLost(r)
    PROVE  \E d \in DebriefRow : d.by = r /\ d.session = Session(r) /\ debriefs' = Append(debriefs, d)
    <1> DEFINE d == [by |-> r, session |-> Session(r), mood |-> input[r].mood, rating |-> input[r].rating]
    <1>1. pc[r] = "insert" /\ Accepted(input[r].rating)
      BY DEF InsertDebrief, InsertReplyLost
    <1>2. Session(r) \in DOMAIN Owner /\ input[r].mood \in Moods
      BY <1>1 DEF Progress, Point
    <1>3. input[r].rating \in {NULL} \cup 1..5
      BY <1>1 DEF Accepted
    <1>4. d \in DebriefRow
      BY <1>2, <1>3 DEF DebriefRow
    <1>5. debriefs' = Append(debriefs, d)
      BY DEF Save
    <1> QED BY <1>4, <1>5

LEMMA DebriefTypeStep ==
    ASSUME TypeOK, Progress, [Next]_vars
    PROVE  debriefs' \in Seq(DebriefRow)
    <1>1. debriefs \in Seq(DebriefRow)
      BY DEF TypeOK, DebriefRow
    <1>2. ASSUME NEW r \in Reqs, Save(r), InsertDebrief(r) \/ InsertReplyLost(r)
          PROVE  debriefs' \in Seq(DebriefRow)
      BY <1>1, <1>2, SavedRow, AppendProperties
    <1> QED BY <1>1, <1>2, DebriefSteps

\* What a step of a stream writes.
LEMMA WrittenEvent ==
    ASSUME TypeOK, StreamAt, NEW r \in Reqs, StreamToken(r) \/ StreamDone(r)
    PROVE  \E e \in Tokens \cup {Done} :
               /\ sent' = [sent EXCEPT ![r] = Append(@, e)]
               /\ Len(sent[r]) \in 0..Len(Message) /\ e = Script[Len(sent[r]) + 1]
               /\ sent'[r] \in Seq(Tokens \cup {Done}) /\ Len(sent'[r]) = Len(sent[r]) + 1
               /\ \A i \in 1..Len(sent[r]) : sent'[r][i] = sent[r][i]
               /\ sent'[r][Len(sent[r]) + 1] = e
    <1>1. sent[r] \in Seq(Tokens \cup {Done}) /\ Len(sent[r]) \in Nat
      BY DEF TypeOK
    <1>2. Message \in Seq(Tokens) /\ Len(Message) \in Nat
      BY SessionAssumption
    <1>3. /\ Len(Script) = Len(Message) + 1
          /\ \A i \in 1..Len(Message) : Script[i] = Message[i]
          /\ Script[Len(Message) + 1] = Done
      BY <1>2 DEF Script
    <1>4. PICK e : sent' = [sent EXCEPT ![r] = Append(@, e)] /\ e \in Tokens \cup {Done}
                   /\ Len(sent[r]) \in 0..Len(Message) /\ e = Script[Len(sent[r]) + 1]
      <2>1. CASE StreamToken(r)
        <3>1. Len(sent[r]) < Len(Message)
          BY <2>1 DEF StreamToken, StreamAt, StreamPoint
        <3>2. Len(sent[r]) + 1 \in 1..Len(Message)
          BY <1>1, <1>2, <3>1
        <3>3. Message[Len(sent[r]) + 1] \in Tokens
          BY <1>2, <3>2
        <3>4. sent' = [sent EXCEPT ![r] = Append(@, Message[Len(sent[r]) + 1])]
          BY <2>1 DEF StreamToken, Emit
        <3>5. Message[Len(sent[r]) + 1] = Script[Len(sent[r]) + 1]
          BY <1>3, <3>2
        <3>6. Len(sent[r]) \in 0..Len(Message)
          BY <1>1, <1>2, <3>1
        <3> QED BY <3>3, <3>4, <3>5, <3>6
      <2>2. CASE StreamDone(r)
        <3>1. Len(sent[r]) = Len(Message)
          BY <2>2 DEF StreamDone, StreamAt, StreamPoint
        <3>2. sent' = [sent EXCEPT ![r] = Append(@, Done)]
          BY <2>2 DEF StreamDone, Emit
        <3>3. Done = Script[Len(sent[r]) + 1]
          BY <1>3, <3>1
        <3>4. Len(sent[r]) \in 0..Len(Message)
          BY <1>2, <3>1
        <3> QED BY <3>2, <3>3, <3>4
      <2> QED BY <2>1, <2>2
    <1>5. sent'[r] = Append(sent[r], e)
      BY <1>4 DEF TypeOK
    <1>6. e \in Tokens \cup {Done}
      BY <1>4
    <1>7. /\ Append(sent[r], e) \in Seq(Tokens \cup {Done})
          /\ Len(Append(sent[r], e)) = Len(sent[r]) + 1
          /\ \A i \in 1..Len(sent[r]) : Append(sent[r], e)[i] = sent[r][i]
          /\ Append(sent[r], e)[Len(sent[r]) + 1] = e
      BY <1>1, <1>6, AppendProperties
    <1> QED BY <1>4, <1>5, <1>6, <1>7

LEMMA SentTypeStep ==
    ASSUME TypeOK, StreamAt, [Next]_vars
    PROVE  /\ sent' \in [Reqs -> Seq(Tokens \cup {Done})]
           /\ \A r \in Reqs : Len(sent'[r]) <= Len(Message) + 1
    <1>1. ASSUME NEW r \in Reqs, StreamToken(r) \/ StreamDone(r)
          PROVE  /\ sent' \in [Reqs -> Seq(Tokens \cup {Done})]
                 /\ \A q \in Reqs : Len(sent'[q]) <= Len(Message) + 1
      <2>1. PICK e \in Tokens \cup {Done} :
               /\ sent' = [sent EXCEPT ![r] = Append(@, e)]
               /\ Len(sent[r]) \in 0..Len(Message)
               /\ sent'[r] \in Seq(Tokens \cup {Done}) /\ Len(sent'[r]) = Len(sent[r]) + 1
        BY <1>1, WrittenEvent
      <2>2. \A q \in Reqs \ {r} : sent'[q] = sent[q]
        BY <2>1 DEF TypeOK
      <2>3. Len(Message) \in Nat
        BY SessionAssumption
      <2>4. \A q \in Reqs : Len(sent'[q]) <= Len(Message) + 1
        BY <2>1, <2>2, <2>3 DEF TypeOK
      <2> QED BY <2>1, <2>4 DEF TypeOK
    <1> QED BY <1>1, EventSteps DEF TypeOK

LEMMA HistorySteps ==
    ASSUME [Next]_vars
    PROVE  /\ \/ \E r \in Reqs : before' = [before EXCEPT ![r] = stored]
              \/ UNCHANGED before
           /\ \/ \E r \in Reqs : heard' = [heard EXCEPT ![r] = IF @ = NULL THEN Len(sent[r]) ELSE @]
              \/ UNCHANGED heard
           /\ \/ \E r \in Reqs : summary' = [summary EXCEPT ![r] = ListBySession(Session(r))]
              \/ UNCHANGED summary
    BY Steps DEF Act, Step, Handler, ArriveHere, DisconnectHere, sessionVars, bodyVars, historyVars,
           vars, StoreTrade, SessionFound, SessionMissing, SessionFails, ListTrades, RefuseForeign,
           ListFails, Decode, InsertDebrief, InsertReplyLost, InsertFails, StreamCheck, StreamToken,
           StreamDone

LEMMA TypeOKStep ==
    ASSUME TypeOK, Progress, StreamAt, [Next]_vars
    PROVE  TypeOK'
    <1>1. GateTypes' /\ lines' \in Seq([trace : Reqs, userId : {NULL}, statusCode : Nat])
      BY GateTypesStep, LogTypeStep
    <1>2. /\ debriefs' \in Seq([by : Reqs, session : DOMAIN Owner, mood : Moods, rating : {NULL} \cup 1..5])
          /\ sent' \in [Reqs -> Seq(Tokens \cup {Done})]
          /\ \A r \in Reqs : Len(sent'[r]) <= Len(Message) + 1
      BY DebriefTypeStep, SentTypeStep DEF DebriefRow
    <1>3. stored' \subseteq Trades
      BY StoredSteps DEF TypeOK
    <1>4. before' \in [Reqs -> SUBSET Trades] /\ DOMAIN summary' = Reqs
      <2>1. before \in [Reqs -> SUBSET Trades] /\ stored \in SUBSET Trades /\ DOMAIN summary = Reqs
        BY DEF TypeOK
      <2>2. (\E r \in Reqs : before' = [before EXCEPT ![r] = stored]) \/ before' = before
        BY HistorySteps
      <2>3. DOMAIN summary' = DOMAIN summary
        BY HistorySteps
      <2> QED BY <2>1, <2>2, <2>3
    <1>5. heard' \in [Reqs -> {NULL} \cup 0..(Len(Message) + 1)]
      <2>1. \A r \in Reqs : Len(sent[r]) \in 0..(Len(Message) + 1)
        BY SessionAssumption DEF TypeOK
      <2>2. heard \in [Reqs -> {NULL} \cup 0..(Len(Message) + 1)]
        BY DEF TypeOK
      <2>3. \/ \E r \in Reqs : heard' = [heard EXCEPT ![r] = IF @ = NULL THEN Len(sent[r]) ELSE @]
            \/ heard' = heard
        BY HistorySteps
      <2> QED BY <2>1, <2>2, <2>3
    <1> QED BY <1>1, <1>2, <1>3, <1>4, <1>5 DEF TypeOK, GateTypes

-----------------------------------------------------------------------------
(* The log *)

\* Over is over, and a status is not taken back.
LEMMA OverStays ==
    ASSUME TypeOK, [Next]_vars, NEW q \in Reqs, pc[q] \in Past
    PROVE  /\ code'[q] = code[q] /\ sub'[q] = sub[q] /\ pc'[q] \in Past
           /\ pc[q] = "over" => pc'[q] = "over"
    <1>1. CASE Still(q)
      BY <1>1 DEF Still, Resting, Past
    <1>2. CASE Answered(q)
      BY <1>2 DEF Answered
    <1>3. CASE ArriveHere(q) \/ DisconnectHere(q)
      BY <1>3 DEF ArriveHere, Arrive, DisconnectHere, Disconnect, Past, contextVars, answerVars, Resting
    <1>4. CASE Log(q)
      BY <1>4 DEF Log, Goto, Past, contextVars, answerVars, TypeOK
    <1>5. CASE Moves(q) /\ ~Log(q)
      BY <1>5 DEF Moves, Admit, PingTimeout, PingReply, SessionFound, Decode, StreamCheck,
                  StreamToken, StreamDone, Past
    <1> QED BY <1>1, <1>2, <1>3, <1>4, <1>5, OthersStill, OwnSteps

\* Only the logger's step ends a request.
LEMMA OverLogged ==
    ASSUME TypeOK, [Next]_vars, NEW q \in Reqs, pc'[q] = "over", pc[q] # "over"
    PROVE  Log(q)
    <1>1. CASE Still(q)
      BY <1>1 DEF Still
    <1>2. CASE Answered(q)
      BY <1>2 DEF Answered
    <1>3. CASE ArriveHere(q) \/ DisconnectHere(q)
      BY <1>3 DEF ArriveHere, Arrive, DisconnectHere, Disconnect, Goto, TypeOK
    <1>4. CASE Moves(q) /\ ~Log(q)
      BY <1>4 DEF Moves, Admit, PingTimeout, PingReply, SessionFound, Decode, StreamCheck,
                  StreamToken, StreamDone, Goto, TypeOK
    <1> QED BY <1>1, <1>2, <1>3, <1>4, OthersStill, OwnSteps

LEMMA OneLineEachStep ==
    ASSUME TypeOK, Progress, OneLineEach, [Next]_vars
    PROVE  OneLineEach'
    <1>0. lines \in Seq([trace : Reqs, userId : {NULL}, statusCode : Nat])
      BY DEF TypeOK
    <1>1. \A n \in DOMAIN lines : lines[n].trace \in Reqs
      <2>1. ASSUME NEW n \in DOMAIN lines
            PROVE  lines[n] \in [trace : Reqs, userId : {NULL}, statusCode : Nat]
        BY <1>0, ElementOfSeq, LenProperties
      <2> QED BY <2>1
    <1>2. \A n \in DOMAIN lines : /\ pc'[lines[n].trace] = "over"
                                  /\ lines[n].statusCode = code'[lines[n].trace]
      BY <1>1, OverStays DEF OneLineEach, Past
    <1>3. CASE UNCHANGED lines
      <2>1. \A r \in Reqs : pc'[r] = "over" => pc[r] = "over"
        <3> SUFFICES ASSUME NEW r \in Reqs, pc'[r] = "over", pc[r] # "over" PROVE FALSE
          OBVIOUS
        <3>1. Log(r)
          BY OverLogged
        <3>2. Len(lines') = Len(lines) + 1
          BY <3>1, <1>0, AppendProperties DEF Log
        <3> QED BY <1>0, <1>3, <3>2
      <2> QED BY <1>2, <1>3, <2>1 DEF OneLineEach
    <1>4. ASSUME NEW r \in Reqs, Log(r) PROVE OneLineEach'
      <2> DEFINE line == [trace |-> r, userId |-> NULL, statusCode |-> captured[r]]
      <2>1. /\ pc[r] = "return" /\ trace[r] = r /\ captured[r] = code[r] /\ code[r] # 0
            /\ code' = code /\ pc' = [pc EXCEPT ![r] = "over"]
        BY <1>4 DEF Log, Progress, Point, Goto, answerVars
      <2>2. lines' = Append(lines, line)
        BY <1>4, <2>1 DEF Log
      <2>3. line \in [trace : Reqs, userId : {NULL}, statusCode : Nat]
            /\ line.trace = r /\ line.statusCode = code[r]
        BY <2>1 DEF TypeOK
      <2> HIDE DEF line
      <2> DEFINE k == Len(lines) + 1
      <2>4. /\ DOMAIN lines' = DOMAIN lines \cup {k} /\ k \notin DOMAIN lines
            /\ lines'[k] = line
            /\ \A n \in DOMAIN lines : lines'[n] = lines[n]
        BY <1>0, <2>2, <2>3, AppendProperties
      <2> HIDE DEF k
      <2>5. \A n \in DOMAIN lines : lines[n].trace # r
        BY <2>1 DEF OneLineEach
      <2>6. pc'[r] = "over" /\ code'[r] = line.statusCode
        BY <2>1, <2>3 DEF TypeOK
      <2>7. \A n \in DOMAIN lines' : /\ pc'[lines'[n].trace] = "over"
                                     /\ lines'[n].statusCode = code'[lines'[n].trace]
        BY <1>2, <2>3, <2>4, <2>6
      <2>8. \A m, n \in DOMAIN lines' : lines'[m].trace = lines'[n].trace => m = n
        BY <2>3, <2>4, <2>5 DEF OneLineEach
      <2>9. \A q \in Reqs : pc'[q] = "over" => \E n \in DOMAIN lines' : lines'[n].trace = q
        <3>1. \A q \in Reqs \ {r} : pc'[q] = pc[q]
          BY <2>1 DEF TypeOK
        <3>2. \A q \in Reqs : pc[q] = "over" => \E n \in DOMAIN lines : lines[n].trace = q
          BY DEF OneLineEach
        <3> QED BY <3>1, <3>2, <2>3, <2>4
      <2> QED BY <2>7, <2>8, <2>9 DEF OneLineEach
    <1> QED BY <1>3, <1>4, LineSteps

-----------------------------------------------------------------------------
(* The debriefs *)

\* 201 is the answer to an insert that succeeded.
LEMMA CreatedSaved ==
    ASSUME TypeOK, [Next]_vars, NEW q \in Reqs, code'[q] = 201, code[q] # 201
    PROVE  InsertDebrief(q)
    <1>1. ~Still(q)
      BY DEF Still
    <1> USE DEF TypeOK, Respond, RespondError, WriteHeader, Goto, answerVars, Quiet
    <1>2. ~(ArriveHere(q) \/ DisconnectHere(q) \/ PingReply(q) \/ Gate(q))
      BY DEF ArriveHere, Arrive, DisconnectHere, Disconnect, PingReply, Gate, NotFound, Refuse,
             Admit, PingTimeout, CheckLag, Log
    <1>3. ~(SessionFound(q) \/ SessionMissing(q) \/ SessionFails(q))
      BY DEF SessionFound, SessionMissing, SessionFails
    <1>4. ~(ListTrades(q) \/ RefuseForeign(q) \/ ListFails(q) \/ Decode(q))
      BY DEF ListTrades, RefuseForeign, ListFails, Decode
    <1>5. ~(InsertReplyLost(q) \/ InsertFails(q))
      BY DEF InsertReplyLost, InsertFails
    <1>6. ~(StreamCheck(q) \/ StreamToken(q) \/ StreamDone(q))
      BY DEF StreamCheck, StreamToken, StreamDone
    <1> QED BY <1>1, <1>2, <1>3, <1>4, <1>5, <1>6, OthersStill DEF Act, Step, Handler

LEMMA OneDebriefEachStep ==
    ASSUME TypeOK, Progress, OneDebriefEach, [Next]_vars
    PROVE  OneDebriefEach'
    <1>0. debriefs \in Seq(DebriefRow) /\ Len(debriefs) \in Nat
      BY LenProperties DEF TypeOK, DebriefRow
    <1>1. \A n \in DOMAIN debriefs : debriefs[n].by \in Reqs
      <2>1. ASSUME NEW n \in DOMAIN debriefs PROVE debriefs[n] \in DebriefRow
        BY <1>0, ElementOfSeq, LenProperties
      <2> QED BY <2>1 DEF DebriefRow
    <1>2. ASSUME NEW n \in DOMAIN debriefs
          PROVE  /\ pc'[debriefs[n].by] \in Past
                 /\ code'[debriefs[n].by] \in {201, 500}
                 /\ Owner[debriefs[n].session] = sub'[debriefs[n].by]
      BY <1>1, OverStays DEF OneDebriefEach
    <1>3. CASE UNCHANGED debriefs
      <2>1. ASSUME NEW r \in Reqs, code'[r] = 201, code[r] # 201 PROVE FALSE
        <3>1. InsertDebrief(r)
          BY <2>1, CreatedSaved
        <3>2. Save(r)
          BY <3>1 DEF InsertDebrief
        <3>3. Len(debriefs') = Len(debriefs) + 1
          BY <1>0, <3>1, <3>2, SavedRow, AppendProperties
        <3> QED BY <1>0, <1>3, <3>3
      <2> QED BY <1>2, <1>3, <2>1 DEF OneDebriefEach
    <1>4. ASSUME NEW r \in Reqs, Save(r), InsertDebrief(r) \/ InsertReplyLost(r)
          PROVE  OneDebriefEach'
      <2>1. pc[r] = "insert" /\ Owner[Session(r)] = sub[r] /\ sub' = sub
        BY <1>4 DEF InsertDebrief, InsertReplyLost, Quiet, contextVars, Progress, Point
      <2>2. pc'[r] = "return" /\ code'[r] \in {201, 500}
        BY <1>4 DEF InsertDebrief, InsertReplyLost, Respond, RespondError, WriteHeader, Goto, TypeOK
      <2>3. \A q \in Reqs \ {r} : code'[q] = code[q]
        BY <1>4 DEF InsertDebrief, InsertReplyLost, Respond, RespondError, WriteHeader, TypeOK
      <2>4. PICK d \in DebriefRow : d.by = r /\ d.session = Session(r) /\ debriefs' = Append(debriefs, d)
        BY <1>4, SavedRow
      <2> DEFINE k == Len(debriefs) + 1
      <2>5. /\ DOMAIN debriefs' = DOMAIN debriefs \cup {k} /\ k \notin DOMAIN debriefs
            /\ debriefs'[k] = d
            /\ \A n \in DOMAIN debriefs : debriefs'[n] = debriefs[n]
        BY <1>0, <2>4, AppendProperties
      <2> HIDE DEF k
      <2>6. \A n \in DOMAIN debriefs : debriefs[n].by # r
        BY <2>1 DEF OneDebriefEach, Past
      <2>7. \A n \in DOMAIN debriefs' : /\ pc'[debriefs'[n].by] \in Past
                                        /\ code'[debriefs'[n].by] \in {201, 500}
                                        /\ Owner[debriefs'[n].session] = sub'[debriefs'[n].by]
        BY <1>2, <2>1, <2>2, <2>4, <2>5 DEF Past
      <2>8. \A m, n \in DOMAIN debriefs' : debriefs'[m].by = debriefs'[n].by => m = n
        BY <2>4, <2>5, <2>6 DEF OneDebriefEach
      <2>9. \A q \in Reqs : code'[q] = 201 => \E n \in DOMAIN debriefs' : debriefs'[n].by = q
        BY <2>3, <2>4, <2>5 DEF OneDebriefEach
      <2> QED BY <2>7, <2>8, <2>9 DEF OneDebriefEach
    <1> QED BY <1>3, <1>4, DebriefSteps

-----------------------------------------------------------------------------
(* The summaries *)

LEMMA SummaryOnceStep ==
    ASSUME TypeOK, SummaryOnce, [Next]_vars
    PROVE  SummaryOnce'
    <1>1. stored \subseteq stored'
      BY StoredSteps
    <1>2. \A q \in Reqs : before'[q] \subseteq stored'
      <2>1. \A q \in Reqs : before[q] \subseteq stored
        BY DEF SummaryOnce
      <2>2. \A q \in Reqs : before'[q] = before[q] \/ before'[q] = stored
        BY HistorySteps DEF TypeOK
      <2> QED BY <1>1, <2>1, <2>2
    <1>3. ASSUME NEW q \in Reqs, summary'[q] # NULL PROVE pc'[q] \in Past
      <2>1. CASE summary[q] # NULL
        BY <2>1, OverStays DEF SummaryOnce
      <2>2. CASE summary[q] = NULL /\ Act(q)
        <3>1. ListTrades(q)
          BY <1>3, <2>2 DEF Act, Step, Handler, ArriveHere, DisconnectHere, sessionVars, bodyVars,
                SessionFound, SessionMissing, SessionFails, RefuseForeign, ListFails, Decode,
                InsertDebrief, InsertReplyLost, InsertFails, StreamCheck, StreamToken, StreamDone
        <3> QED BY <3>1 DEF ListTrades, Respond, Goto, TypeOK, Past
      <2> QED BY <1>3, <2>1, <2>2, OthersStill DEF Still
    <1> QED BY <1>2, <1>3 DEF SummaryOnce

LEMMA SummaryCurrentStep ==
    ASSUME TypeOK, SummaryOnce, SummaryCurrent, [Next]_vars
    PROVE  SummaryCurrent'
    <1> SUFFICES ASSUME NEW q \in Reqs, summary'[q] # NULL PROVE Summarised(q)'
      BY DEF SummaryCurrent, Summarised
    <1>1. stored \subseteq stored' /\ Summarised(q) /\ before[q] \subseteq stored
      BY StoredSteps DEF SummaryCurrent, SummaryOnce
    <1>2. ASSUME summary[q] # NULL, summary'[q] = summary[q], before'[q] = before[q],
                 sub'[q] = sub[q], input'[q] = input[q]
          PROVE  Summarised(q)'
      BY <1>1, <1>2 DEF Summarised, Session
    <1>3. CASE Still(q)
      BY <1>2, <1>3 DEF Still
    <1>4. CASE ListTrades(q)
      <2>1. /\ Owner[Session(q)] = sub[q] /\ summary'[q] = ListBySession(Session(q))
            /\ UNCHANGED <<before, stored, contextVars>>
        BY <1>4 DEF ListTrades, Quiet, tableVars, historyVars, TypeOK
      <2> QED BY <1>1, <2>1 DEF Summarised, Session, ListBySession, contextVars
    <1>5. CASE Act(q) /\ ~ListTrades(q)
      <2>1. summary' = summary
        BY <1>5 DEF Act, Step, Handler, ArriveHere, DisconnectHere, sessionVars, bodyVars,
              SessionFound, SessionMissing, SessionFails, RefuseForeign, ListFails, Decode,
              InsertDebrief, InsertReplyLost, InsertFails, StreamCheck, StreamToken, StreamDone
      <2>2. pc[q] \in Past
        BY <2>1 DEF SummaryOnce
      <2>3. DisconnectHere(q) \/ (Log(q) /\ UNCHANGED sessionVars)
        BY <1>5, <2>2 DEF Act, Step, Handler, ArriveHere, Arrive, PingReply, Gate, NotFound, Refuse,
              Admit, PingTimeout, CheckLag, Past,
              SessionFound, SessionMissing, SessionFails, RefuseForeign, ListFails, Decode,
              InsertDebrief, InsertReplyLost, InsertFails, StreamCheck, StreamToken, StreamDone
      <2> QED BY <1>2, <2>1, <2>3 DEF DisconnectHere, Disconnect, Log, sessionVars, historyVars, contextVars
    <1> QED BY <1>3, <1>4, <1>5, OthersStill

-----------------------------------------------------------------------------
(* The streams *)

LEMMA StreamAtStep ==
    ASSUME TypeOK, StreamAt, [Next]_vars
    PROVE  StreamAt'
    <1> SUFFICES ASSUME NEW q \in Reqs PROVE StreamPoint(q)'
      BY DEF StreamAt
    <1>1. StreamPoint(q)
      BY DEF StreamAt
    <1>2. Len(sent[q]) \in 0..(Len(Message) + 1) /\ Len(Message) \in Nat /\ Len(Message) > 0
          /\ NULL \notin 0..(Len(Message) + 1)
      BY SessionAssumption, EmptySeq DEF TypeOK
    <1> USE DEF StreamPoint
    <1>3. CASE Still(q)
      BY <1>1, <1>3 DEF Still, Resting, Answering, Past
    <1>4. CASE Answered(q)
      BY <1>1, <1>4 DEF Answered, Answering, Past
    <1>5. CASE ArriveHere(q)
      <2>1. pc[q] = "idle" /\ pc'[q] \in {"ping", "notFound", "auth"} /\ UNCHANGED <<sent, heard, gone>>
        BY <1>5 DEF ArriveHere, Arrive, Goto, bodyVars, TypeOK
      <2> QED BY <1>1, <2>1 DEF Answering, Past
    <1>6. CASE DisconnectHere(q)
      <2>1. /\ UNCHANGED <<pc, sent>> /\ q \in gone'
            /\ heard'[q] = IF heard[q] = NULL THEN Len(sent[q]) ELSE heard[q]
        BY <1>6 DEF DisconnectHere, Disconnect, bodyVars, TypeOK
      <2> QED BY <1>1, <1>2, <2>1 DEF Answering, Past
    <1>7. CASE Moves(q) /\ ~StreamToken(q) /\ ~StreamDone(q)
      <2>1. UNCHANGED <<sent, heard, gone>>
        BY <1>7 DEF Moves, sessionVars, bodyVars, historyVars, Admit, PingTimeout, PingReply, Log,
                    SessionFound, Decode, StreamCheck, Quiet
      <2>2. CASE Admit(q) \/ PingTimeout(q) \/ PingReply(q) \/ Log(q)
        BY <1>1, <2>1, <2>2 DEF Admit, PingTimeout, PingReply, Log, Goto, TypeOK, Answering, Past
      <2>3. CASE SessionFound(q) /\ pc'[q] \in {"trades", "decode", "check"}
        BY <1>1, <1>2, <2>1, <2>3 DEF SessionFound, Answering, Past
      <2>4. CASE Decode(q) /\ pc'[q] = "insert"
        BY <1>1, <2>1, <2>4 DEF Decode, Answering, Past
      <2>5. CASE StreamCheck(q)
        BY <1>1, <2>1, <2>5 DEF StreamCheck, Goto, TypeOK, Answering, Past
      <2> QED BY <1>7, <2>2, <2>3, <2>4, <2>5 DEF Moves
    <1>8. CASE StreamToken(q) \/ StreamDone(q)
      <2> DEFINE n == Len(sent[q])
                 m == Len(sent'[q])
                 h == heard[q]
      <2>1. m = n + 1 /\ n \in Nat /\ h \in {NULL} \cup Nat
        BY <1>8, WrittenEvent DEF TypeOK
      <2>2. heard' = heard /\ gone' = gone
        BY <1>8 DEF StreamToken, StreamDone, historyVars, Quiet
      <2>3. CASE StreamToken(q)
        <3>1. /\ pc[q] = "send"
              /\ pc'[q] = IF n + 1 < Len(Message) THEN "check" ELSE "finish"
          BY <2>3 DEF StreamToken, Goto, TypeOK
        <3>2. n < Len(Message) /\ (h # NULL <=> q \in gone) /\ (h # NULL => h <= n /\ n = h)
          BY <1>1, <3>1
        <3>3. pc'[q] = "check" => m < Len(Message)
          BY <2>1, <3>1
        <3>4. pc'[q] = "finish" => m = Len(Message)
          BY <1>2, <2>1, <3>1, <3>2
        <3>5. h # NULL => h <= m /\ m <= h + 1
          BY <2>1, <3>2
        <3> HIDE DEF n
        <3> QED BY <2>2, <3>1, <3>2, <3>3, <3>4, <3>5 DEF Answering, Past
      <2>4. CASE StreamDone(q)
        <3>1. pc[q] = "finish" /\ pc'[q] = "return"
          BY <2>4 DEF StreamDone, Goto, TypeOK
        <3>2. (h # NULL <=> q \in gone) /\ (h # NULL => h <= n)
          BY <1>1
        <3>3. h # NULL => h <= m
          BY <2>1, <3>2
        <3> QED BY <2>2, <3>1, <3>2, <3>3 DEF Answering, Past
      <2> QED BY <1>8, <2>3, <2>4
    <1> QED BY <1>3, <1>4, <1>5, <1>6, <1>7, <1>8, OthersStill, OwnSteps

LEMMA ScriptType ==
    /\ Script \in Seq(Tokens \cup {Done}) /\ Len(Script) = Len(Message) + 1
    /\ Len(Message) \in Nat
    <1>1. Message \in Seq(Tokens \cup {Done}) /\ Len(Message) \in Nat
      BY SessionAssumption, SeqMonotonic
    <1> QED BY <1>1, AppendProperties DEF Script

\* One more event of the script.
LEMMA Prefix ==
    ASSUME NEW old \in Seq(Tokens \cup {Done}), NEW new \in Seq(Tokens \cup {Done}),
           Len(old) < Len(Script), old = SubSeq(Script, 1, Len(old)),
           Len(new) = Len(old) + 1, \A i \in 1..Len(old) : new[i] = old[i],
           new[Len(old) + 1] = Script[Len(old) + 1]
    PROVE  new = SubSeq(Script, 1, Len(new))
    <1> DEFINE part == SubSeq(Script, 1, Len(new))
    <1>1. Len(old) \in Nat /\ Len(new) \in Nat /\ Len(Script) \in Nat /\ Len(new) <= Len(Script)
      BY ScriptType
    <1>2. Len(part) = Len(new) /\ part \in Seq(Tokens \cup {Done})
          /\ \A i \in 1..Len(new) : part[i] = Script[i]
      BY <1>1, ScriptType, SubSeqProperties
    <1>3. \A i \in 1..Len(old) : old[i] = Script[i]
      BY <1>1, ScriptType, SubSeqProperties
    <1>4. \A i \in 1..Len(new) : new[i] = Script[i]
      BY <1>1, <1>3
    <1> HIDE DEF part
    <1> QED BY <1>2, <1>4, SeqEqual DEF part

\* The whole of the script.
LEMMA Whole ==
    ASSUME NEW s, s = SubSeq(Script, 1, Len(s)), Len(s) = Len(Message) + 1
    PROVE  s = Script
    <1>1. Len(s) = Len(Script) /\ Len(Script) \in Nat
      BY ScriptType
    <1>2. SubSeq(Script, 1, Len(Script)) = Script
      BY ScriptType, SubSeqFull
    <1> QED BY <1>1, <1>2

LEMMA StreamFaithfulStep ==
    ASSUME TypeOK, Progress, StreamAt, StreamFaithful, [Next]_vars
    PROVE  StreamFaithful'
    <1> SUFFICES ASSUME NEW q \in Reqs PROVE Streamed(q)'
      BY DEF StreamFaithful
    <1>1. Streamed(q) /\ StreamPoint(q) /\ Point(q)
      BY DEF StreamFaithful, StreamAt, Progress
    <1>2. sent[q] \in Seq(Tokens \cup {Done}) /\ Len(sent[q]) \in 0..(Len(Message) + 1)
          /\ NULL \notin 0..(Len(Message) + 1) /\ Len(Message) \in Nat
      BY SessionAssumption, ScriptType DEF TypeOK
    <1>3. CASE Still(q)
      BY <1>1, <1>3 DEF Still, Streamed, Session
    <1>4. ASSUME sent'[q] = <<>>, sent[q] = <<>>, heard'[q] = heard[q] PROVE Streamed(q)'
      BY <1>1, <1>4 DEF Streamed
    <1>5. CASE Answered(q) \/ ArriveHere(q)
      <2>1. sent[q] = <<>>
        BY <1>1, <1>5 DEF StreamPoint, Answered, ArriveHere, Arrive, Answering, Past
      <2> QED BY <1>4, <1>5, <2>1 DEF Answered, ArriveHere, bodyVars
    <1>6. CASE DisconnectHere(q)
      <2>1. /\ UNCHANGED <<sent, input, sub, code>>
            /\ heard'[q] = IF heard[q] = NULL THEN Len(sent[q]) ELSE heard[q]
        BY <1>6 DEF DisconnectHere, Disconnect, bodyVars, contextVars, answerVars, TypeOK
      <2> QED BY <1>1, <1>2, <2>1 DEF Streamed, Session
    <1>7. CASE Moves(q) /\ ~StreamToken(q) /\ ~StreamDone(q)
      <2>1. UNCHANGED <<sent, heard>>
        BY <1>7 DEF Moves, sessionVars, bodyVars, historyVars, SessionFound, Decode, StreamCheck
      <2>2. CASE pc[q] \notin Answering \cup Past
        BY <1>1, <1>4, <2>1, <2>2 DEF StreamPoint
      <2>3. CASE pc[q] \in Answering \cup Past
        <3>1. StreamCheck(q) \/ Log(q)
          BY <1>7, <2>3 DEF Moves, Admit, PingTimeout, PingReply, SessionFound, Decode, Answering, Past
        <3>2. UNCHANGED <<input, sub, code>>
          BY <3>1 DEF StreamCheck, Log, contextVars, answerVars, Quiet
        <3> QED BY <1>1, <2>1, <3>2 DEF Streamed, Session
      <2> QED BY <2>2, <2>3
    <1>8. CASE StreamToken(q) \/ StreamDone(q)
      <2> DEFINE n == Len(sent[q])
                 m == Len(sent'[q])
                 h == heard[q]
      <2>1. /\ n \in 0..Len(Message) /\ m = n + 1 /\ h \in {NULL} \cup Nat
            /\ sent'[q] \in Seq(Tokens \cup {Done})
            /\ \A i \in 1..Len(sent[q]) : sent'[q][i] = sent[q][i]
            /\ sent'[q][Len(sent[q]) + 1] = Script[Len(sent[q]) + 1]
        BY <1>8, WrittenEvent DEF TypeOK
      <2>2. sent'[q] = SubSeq(Script, 1, Len(sent'[q]))
        <3>1. sent[q] = SubSeq(Script, 1, Len(sent[q]))
          BY <1>1 DEF Streamed
        <3>2. Len(sent[q]) < Len(Script) /\ Len(sent'[q]) = Len(sent[q]) + 1
          BY <1>2, <2>1, ScriptType
        <3> QED BY <1>2, <2>1, <3>1, <3>2, Prefix
      <2>3. pc[q] \in Answering /\ UNCHANGED <<input, sub, code, heard>>
        BY <1>8 DEF StreamToken, StreamDone, Answering, contextVars, answerVars, historyVars, Quiet
      <2>4. sub'[q] = Owner[Session(q)]' /\ code'[q] = 200
        BY <1>1, <2>3 DEF Point, Session
      <2>5. CASE StreamToken(q)
        <3>1. h # NULL => n = h
          BY <1>1, <2>5 DEF StreamPoint, StreamToken
        <3>2. h # NULL => m <= h + 1 /\ ~(m > h + 1)
          BY <2>1, <3>1
        <3> HIDE DEF m
        <3> QED BY <2>2, <2>3, <2>4, <3>2 DEF Streamed, m
      <2>6. CASE StreamDone(q)
        <3>1. n = Len(Message) /\ (h # NULL => n <= h + 1)
          BY <1>1, <2>6 DEF StreamPoint, StreamDone
        <3>2. m = Len(Message) + 1 /\ (h # NULL => h >= Len(Message) - 1)
          BY <1>2, <2>1, <3>1
        <3>3. sent'[q] = Script
          BY <2>2, <3>2, Whole
        <3> HIDE DEF m
        <3> QED BY <2>2, <2>3, <2>4, <3>2, <3>3 DEF Streamed
      <2> QED BY <1>8, <2>5, <2>6
    <1> QED BY <1>3, <1>5, <1>6, <1>7, <1>8, OthersStill, OwnSteps

-----------------------------------------------------------------------------
(* The theorems *)

LEMMA InitInv == Init => SessionInv
    <1> SUFFICES ASSUME Init PROVE SessionInv
      OBVIOUS
    <1>1. TypeOK
      <2>1. Len(Message) \in Nat
        BY ScriptType
      <2> QED BY <2>1, EmptySeq DEF Init, GateInit, TypeOK, Resting
    <1>2. Progress /\ OneLineEach /\ OneDebriefEach
      BY DEF Init, GateInit, Progress, Point, OneLineEach, OneDebriefEach, Answering, Past
    <1>3. SummaryOnce /\ SummaryCurrent
      BY DEF Init, GateInit, SummaryOnce, SummaryCurrent, Summarised
    <1>4. StreamAt /\ StreamFaithful
      <2> SUFFICES ASSUME NEW r \in Reqs PROVE StreamPoint(r) /\ Streamed(r)
        BY DEF StreamAt, StreamFaithful
      <2>1. pc[r] = "idle" /\ sent[r] = <<>> /\ heard[r] = NULL /\ gone = {}
        BY DEF Init, GateInit
      <2>2. Len(sent[r]) = 0 /\ SubSeq(Script, 1, 0) = <<>>
        BY <2>1, ScriptType, SubSeqProperties
      <2> QED BY <2>1, <2>2 DEF StreamPoint, Streamed, Answering
    <1> QED BY <1>1, <1>2, <1>3, <1>4 DEF SessionInv

\* The invariant holds in every behaviour, although statements fail, replies are
\* lost, clients go away and the process stops (session.go, logger.go, auth.go).
THEOREM Inductive == Spec => []SessionInv
    <1>1. SessionInv /\ [Next]_vars => SessionInv'
      BY TypeOKStep, ProgressStep, OneLineEachStep, OneDebriefEachStep, SummaryOnceStep,
         SummaryCurrentStep, StreamAtStep, StreamFaithfulStep DEF SessionInv
    <1> QED BY InitInv, <1>1, PTL DEF Spec

\* The state of the middleware and of the handlers has its types; in particular
\* only ratings and moods the table takes are stored.
THEOREM TypeCorrect == Spec => []TypeOK
    <1>1. SessionInv => TypeOK
      BY DEF SessionInv
    <1> QED BY Inductive, <1>1, PTL

\* Every request that is over has its one line, with the status the client was
\* sent, and an error's trace id leads to it (Logger, respondError).
THEOREM LogFaithfulAlways == Spec => []LogFaithful
    <1>1. ASSUME SessionInv PROVE LogFaithful
      <2> SUFFICES ASSUME NEW r \in Reqs
                   PROVE  IF pc[r] = "over"
                          THEN /\ code[r] # 0
                               /\ \E n \in DOMAIN lines :
                                     /\ LinesOf(r) = {n}
                                     /\ lines[n].statusCode = code[r]
                               /\ told[r] # NULL => LinesOf(told[r]) = LinesOf(r)
                          ELSE LinesOf(r) = {}
        BY DEF LogFaithful
      <2>1. OneLineEach /\ Point(r)
        BY <1>1 DEF SessionInv, Progress
      <2>2. CASE pc[r] = "over"
        <3>1. PICK n \in DOMAIN lines : lines[n].trace = r
          BY <2>1, <2>2 DEF OneLineEach
        <3>2. LinesOf(r) = {n} /\ lines[n].statusCode = code[r]
          BY <2>1, <3>1 DEF OneLineEach, LinesOf
        <3>3. code[r] # 0 /\ (told[r] # NULL => told[r] = r)
          BY <2>1, <2>2 DEF Point
        <3> QED BY <2>2, <3>2, <3>3
      <2>3. CASE pc[r] # "over"
        BY <2>1, <2>3 DEF OneLineEach, LinesOf
      <2> QED BY <2>2, <2>3
    <1> QED BY Inductive, <1>1, PTL

\* One POST saves at most one debrief, of a session of the caller, exactly one
\* if it answers 201 and none if it answers a 4xx (Debrief, InsertDebrief).
THEOREM DebriefSavedOnceAlways == Spec => []DebriefSavedOnce
    <1>1. ASSUME SessionInv PROVE DebriefSavedOnce
      <2>1. OneDebriefEach
        BY <1>1 DEF SessionInv
      <2>2. ASSUME NEW r \in Reqs
            PROVE  /\ Cardinality(SavedBy(r)) <= 1
                   /\ code[r] = 201 => SavedBy(r) # {}
                   /\ SavedBy(r) # {} => code[r] \in {201, 500}
        <3>1. SavedBy(r) = {} \/ \E n : SavedBy(r) = {n}
          <4>1. \A m, n \in DOMAIN debriefs : debriefs[m].by = debriefs[n].by => m = n
            BY <2>1 DEF OneDebriefEach
          <4>2. CASE \E n \in DOMAIN debriefs : debriefs[n].by = r
            <5>1. PICK n \in DOMAIN debriefs : debriefs[n].by = r
              BY <4>2
            <5>2. SavedBy(r) = {n}
              BY <4>1, <5>1 DEF SavedBy
            <5> QED BY <5>2
          <4>3. CASE \A n \in DOMAIN debriefs : debriefs[n].by # r
            BY <4>3 DEF SavedBy
          <4> QED BY <4>2, <4>3
        <3>2. Cardinality(SavedBy(r)) <= 1
          BY <3>1, FS_EmptySet, FS_Singleton
        <3>3. /\ code[r] = 201 => SavedBy(r) # {}
              /\ SavedBy(r) # {} => code[r] \in {201, 500}
          BY <2>1 DEF OneDebriefEach, SavedBy
        <3> QED BY <3>2, <3>3
      <2>3. \A n \in DOMAIN debriefs : Owner[debriefs[n].session] = sub[debriefs[n].by]
        BY <2>1 DEF OneDebriefEach
      <2> QED BY <2>2, <2>3 DEF DebriefSavedOnce
    <1> QED BY Inductive, <1>1, PTL

\* A session answer is the owner's and has all of the session's trades that were
\* stored when the request came, and no other (GetWithTrades, ListBySession).
THEOREM SummaryCurrentAlways == Spec => []SummaryCurrent
    <1>1. SessionInv => SummaryCurrent
      BY DEF SessionInv
    <1> QED BY Inductive, <1>1, PTL

\* A stream writes a beginning of its message to the owner, done only after the
\* whole, and next to nothing once the client has gone (Coaching).
THEOREM StreamFaithfulAlways == Spec => []StreamFaithful
    <1>1. SessionInv => StreamFaithful
      BY DEF SessionInv
    <1> QED BY Inductive, <1>1, PTL

=============================================================================
