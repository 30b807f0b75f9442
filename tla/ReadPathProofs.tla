---------------------------- MODULE ReadPathProofs ----------------------------
(***************************************************************************)
(* Theorems about ReadPath, for all users, requests, evidence queries and  *)
(* bounds, with failing statements, Redis faults, disconnects and expiry.  *)
(***************************************************************************)
EXTENDS ReadPath, SequenceTheorems, TLAPS

-----------------------------------------------------------------------------
(* Lemmas about the operators *)

LEMMA InFront ==
    ASSUME NEW S, NEW x \in S, NEW s \in Seq(S)
    PROVE  /\ <<x>> \o s \in Seq(S) /\ Len(<<x>> \o s) = 1 + Len(s)
           /\ (<<x>> \o s)[1] = x
           /\ \A j \in 1..Len(s) : (<<x>> \o s)[j + 1] = s[j]
    <1>1. <<x>> \in Seq(S) /\ Len(<<x>>) = 1 /\ <<x>>[1] = x
      OBVIOUS
    <1>2. Len(s) \in Nat
      OBVIOUS
    <1>3. \A i \in 1..(1 + Len(s)) :
             (<<x>> \o s)[i] = IF i <= 1 THEN <<x>>[i] ELSE s[i - 1]
      BY <1>1, ConcatProperties
    <1>4. <<x>> \o s \in Seq(S) /\ Len(<<x>> \o s) = 1 + Len(s)
      BY <1>1, ConcatProperties
    <1>5. \A j \in 1..Len(s) : (<<x>> \o s)[j + 1] = s[j]
      <2> TAKE j \in 1..Len(s)
      <2>1. j + 1 \in 1..(1 + Len(s)) /\ ~(j + 1 <= 1) /\ (j + 1) - 1 = j
        BY <1>2
      <2> QED BY <1>3, <2>1
    <1> QED BY <1>1, <1>2, <1>3, <1>4, <1>5

\* A plan is a list of statements, and that of a profile begins with the user.
LEMMA PlanFacts ==
    /\ \A kind \in {"metrics", "profile"} :
          /\ Len(Plan(kind)) \in Nat \ {0}
          /\ DOMAIN Plan(kind) = 1..Len(Plan(kind))
          /\ ToSet(Plan(kind)) = {Plan(kind)[j] : j \in 1..Len(Plan(kind))}
    /\ Plan("profile")[1] = "user"
    /\ ToSet(Pathologies) \subseteq ToSet(Plan("profile"))
    <1> DEFINE S == ToSet(Pathologies) \cup {"user"}
               m == <<"buckets", "emotions", "revenge", "overtrading">>
               f == <<"user">> \o Pathologies
    <1>1. Len(m) = 4 /\ DOMAIN m = 1..4
      OBVIOUS
    <1>2. Plan("metrics") = m
      BY DEF Plan
    <1>0. Plan("profile") = f
      BY DEF Plan
    <1>3. Pathologies \in Seq(S) /\ Len(Pathologies) \in Nat /\ DOMAIN Pathologies = 1..Len(Pathologies)
      BY ValueAssumption
    <1>4. /\ Plan("profile") \in Seq(S) /\ Len(Plan("profile")) = 1 + Len(Pathologies)
          /\ Plan("profile")[1] = "user"
          /\ \A j \in 1..Len(Pathologies) : Plan("profile")[j + 1] = Pathologies[j]
      <2>1. "user" \in S
        OBVIOUS
      <2> HIDE DEF S
      <2>2. /\ f \in Seq(S) /\ Len(f) = 1 + Len(Pathologies) /\ f[1] = "user"
            /\ \A j \in 1..Len(Pathologies) : f[j + 1] = Pathologies[j]
        BY <1>3, <2>1, InFront
      <2> HIDE DEF f
      <2> QED BY <1>0, <2>2
    <1>5. DOMAIN Plan("profile") = 1..(1 + Len(Pathologies))
      BY <1>4
    <1>6. ToSet(Pathologies) \subseteq ToSet(Plan("profile"))
      <2>1. \A j \in 1..Len(Pathologies) : j + 1 \in 1..(1 + Len(Pathologies))
        BY <1>3
      <2> QED BY <1>3, <1>4, <1>5, <2>1 DEF ToSet
    <1>7. Len(Plan("metrics")) \in Nat \ {0} /\ DOMAIN Plan("metrics") = 1..Len(Plan("metrics"))
      <2> HIDE DEF m
      <2> QED BY <1>1, <1>2
    <1>8. Len(Plan("profile")) \in Nat \ {0} /\ DOMAIN Plan("profile") = 1..Len(Plan("profile"))
      BY <1>3, <1>4, <1>5
    <1> QED BY <1>4, <1>6, <1>7, <1>8 DEF ToSet

\* What was read up to one version was read up to a later one.
LEMMA OfUserLater ==
    ASSUME NEW a, NEW u, NEW n \in Nat, NEW m \in Nat, n <= m, OfUser(a, u, n)
    PROVE  OfUser(a, u, m)
    BY DEF OfUser

LEMMA IsAnswerOf ==
    ASSUME NEW a, NEW kind \in {"metrics", "profile"}, NEW u \in Users,
           NEW n \in 0..MaxWrites, DOMAIN a \subseteq ToSet(Plan(kind)), OfUser(a, u, n)
    PROVE  IsAnswer(a)
    <1>1. [user : {u}, version : 0..n] \subseteq [user : Users, version : 0..MaxWrites]
      BY ValueAssumption
    <1> QED BY <1>1 DEF IsAnswer, OfUser, Values

-----------------------------------------------------------------------------
(* The invariant *)

Types ==
    /\ version \in [Users -> 0..MaxWrites]
    /\ pc \in [Reqs -> {"idle", "done"} \cup InFlight]
    /\ input \in [Reqs -> Inputs \cup {NULL}]
    /\ code \in [Reqs -> {0, 200, 400, 403, 404, 500}]
    /\ \A r \in Reqs : code[r] # 0 <=> pc[r] = "done"
    /\ cancelled \subseteq Reqs
    /\ faults \in 0..MaxRedisFaults
    /\ seen \in [Users -> [ToSet(Pathologies) -> 0..MaxWrites]]
    /\ overlap \subseteq Users
    /\ DOMAIN at = Reqs /\ DOMAIN answer = Reqs /\ DOMAIN pending = Reqs /\ DOMAIN floor = Reqs

\* The invariant without what follows from the rest of it.
Core ==
    /\ Types
    /\ \A r \in Reqs : Progress(r) /\ PendingSound(r)
    /\ CacheSound /\ SeenStored
    /\ faults = 0 => \A u \in Users \ overlap : OneByOne(u)

LEMMA InputFields ==
    ASSUME Core, NEW r \in Reqs, pc[r] \in InFlight
    PROVE  /\ input[r] \in Inputs /\ input[r].user = input[r].sub
           /\ input[r].kind \in {"metrics", "profile"} /\ input[r].user \in Users
           /\ input[r].kind = "profile" => KeyOf(input[r]) = ProfileKey(input[r].user)
           /\ KeyOf(input[r]) \in Keys
           /\ KeyOf(input[r])[1] = input[r].kind /\ KeyOf(input[r])[2] = input[r].user
    BY InputAssumption DEF Core, Progress, KeyOf, ProfileKey, Keys

LEMMA KeyFields ==
    \A k \in Keys : k[1] \in {"metrics", "profile"} /\ k[2] \in Users
    BY InputAssumption DEF Keys, KeyOf

LEMMA CoreIsReadInv == Core <=> ReadInv
    <1>1. ASSUME Core PROVE ReadInv
      <2>1. \A u \in Users : version[u] \in 0..MaxWrites
        BY <1>1 DEF Core, Types
      <2>2. \A k \in DOMAIN cache : IsAnswer(cache[k])
        BY <1>1, <2>1, KeyFields, IsAnswerOf DEF Core, CacheSound, Complete
      <2>3. ASSUME NEW r \in Reqs PROVE IsAnswer(answer[r])
        <3>1. CASE pc[r] \in {"idle", "done", "lookup"}
          BY <1>1, <3>1 DEF Core, Progress, IsAnswer, EmptyMap
        <3>2. CASE pc[r] = "query"
          <4>1. input[r].kind \in {"metrics", "profile"} /\ input[r].user \in Users
            BY <1>1, <3>2, InputFields DEF InFlight
          <4>2. DOMAIN answer[r] \subseteq ToSet(Plan(input[r].kind))
            BY <1>1, <3>2, <4>1, PlanFacts DEF Core, Progress
          <4> QED BY <1>1, <2>1, <3>2, <4>1, <4>2, IsAnswerOf DEF Core, Progress
        <3>3. CASE pc[r] \in {"store", "respond"}
          <4>1. input[r].kind \in {"metrics", "profile"} /\ input[r].user \in Users
            BY <1>1, <3>3, InputFields DEF InFlight
          <4> QED BY <1>1, <2>1, <3>3, <4>1, IsAnswerOf DEF Core, Progress, Complete
        <3> QED BY <1>1, <3>1, <3>2, <3>3 DEF Core, Types, InFlight
      <2>4. ASSUME NEW r \in Reqs, pending[r] # NULL PROVE IsAnswer(pending[r])
        <3>1. input[r].user \in Users /\ Complete(pending[r], "metrics", input[r].user)
          BY <1>1, <2>4, InputAssumption DEF Core, PendingSound
        <3> QED BY <2>1, <3>1, IsAnswerOf DEF Complete
      <2>5. ASSUME NEW r \in Reqs, pc[r] = "query" PROVE at[r] \in DOMAIN Plan(input[r].kind)
        <3>1. input[r].kind \in {"metrics", "profile"}
          BY <1>1, <2>5, InputFields DEF InFlight
        <3> QED BY <1>1, <2>5, <3>1, PlanFacts DEF Core, Progress
      <2> QED BY <1>1, <2>2, <2>3, <2>4, <2>5 DEF Core, Types, ReadInv, TypeOK
    <1>2. ReadInv => Core
      BY DEF Core, Types, ReadInv, TypeOK
    <1> QED BY <1>1, <1>2

-----------------------------------------------------------------------------
(* What a step does to the handlers *)

\* Whose turn it is.
LEMMA Steps ==
    ASSUME [Next]_vars
    PROVE  \/ \E r \in Reqs : Receive(r) \/ Handler(r) \/ SetMetrics(r) \/ Disconnect(r)
           \/ \E u \in Users : Write(u)
           \/ \E k \in DOMAIN cache : Expire(k)
           \/ UNCHANGED vars
    BY DEF Next

\* A version a later one takes the place of.
LEMMA LaterType ==
    ASSUME NEW v \in 0..MaxWrites, NEW u \in Users, NEW n \in 0..MaxWrites,
           NEW value, value = NULL \/ value \in [user : {u}, version : 0..n]
    PROVE  /\ Later(v, value) \in 0..MaxWrites
           /\ v <= n => Later(v, value) <= n
           /\ value # NULL /\ value.version >= v => Later(v, value) = value.version
           /\ value = NULL => Later(v, value) = v
    BY ValueAssumption DEF Later

\* The evidence of a complete profile is of its user.
LEMMA ProfileValues ==
    ASSUME Core, NEW r \in Reqs, pc[r] = "respond", input[r].kind = "profile",
           NEW q \in ToSet(Pathologies)
    PROVE  \/ answer[r][q] = NULL
           \/ answer[r][q] \in [user : {input[r].user}, version : 0..version[input[r].user]]
    <1>1. q \in DOMAIN answer[r] /\ OfUser(answer[r], input[r].user, version[input[r].user])
      BY PlanFacts DEF Core, Progress, Complete
    <1> QED BY <1>1 DEF OfUser

LEMMA TypesStep ==
    ASSUME Core, [Next]_vars
    PROVE  Types'
    <1> USE DEF Types, InFlight, handlerVars, historyVars
    <1>0. Types
      BY DEF Core
    <1>1. ASSUME NEW r \in Reqs, Receive(r) PROVE Types'
      <2>1. PICK i \in Inputs :
               /\ input' = [input EXCEPT ![r] = i]
               /\ \/ Fail(r, 403)
                  \/ Fail(r, 400)
                  \/ pc' = [pc EXCEPT ![r] = "lookup"] /\ code' = [code EXCEPT ![r] = 0]
               /\ floor' = [floor EXCEPT ![r] = IF i.kind = "profile" THEN seen[i.user] ELSE EmptyMap]
               /\ overlap' = overlap \cup
                     {i.user : q \in {q \in Reqs \ {r} : /\ pc[q] \in InFlight
                                                      /\ input[q].kind = "profile"
                                                      /\ input[q].user = i.user}}
        BY <1>1 DEF Receive
      <2>2. overlap' \subseteq Users
        BY <1>0, <2>1, InputAssumption
      <2>3. /\ pc' \in [Reqs -> {"idle", "done"} \cup InFlight]
            /\ code' \in [Reqs -> {0, 200, 400, 403, 404, 500}]
            /\ \A q \in Reqs : code'[q] # 0 <=> pc'[q] = "done"
        <3>1. PICK p \in {"lookup", "done"}, c \in {0, 400, 403} :
                 /\ pc' = [pc EXCEPT ![r] = p] /\ code' = [code EXCEPT ![r] = c]
                 /\ c # 0 <=> p = "done"
          BY <2>1 DEF Fail
        <3> QED BY <1>0, <3>1
      <2>4. input' \in [Reqs -> Inputs \cup {NULL}] /\ DOMAIN floor' = Reqs
        BY <1>0, <2>1
      <2> QED BY <1>0, <1>1, <2>2, <2>3, <2>4 DEF Receive
    <1>2. ASSUME NEW r \in Reqs, Hit(r) \/ Miss(r) PROVE Types'
      <2>1. CASE Hit(r)
        BY <1>0, <2>1 DEF Hit
      <2>2. CASE Miss(r)
        <3>1. faults' \in 0..MaxRedisFaults
          BY <1>0, <2>2, ValueAssumption DEF Miss, RedisFault
        <3> QED BY <1>0, <2>2, <3>1 DEF Miss
      <2> QED BY <1>2, <2>1, <2>2
    <1>3. ASSUME NEW r \in Reqs, QueryOk(r) \/ QueryFails(r) PROVE Types'
      <2>1. ASSUME NEW v, Record(r, v)
            PROVE  /\ pc' \in [Reqs -> {"idle", "done"} \cup InFlight] /\ code' = code
                   /\ DOMAIN at' = Reqs /\ DOMAIN answer' = Reqs
                   /\ \A q \in Reqs : pc'[q] # pc[q] => q = r /\ pc'[q] # "done"
        BY <1>0, <2>1 DEF Record
      <2>2. CASE QueryOk(r)
        BY <1>0, <2>1, <2>2 DEF QueryOk
      <2>3. CASE QueryFails(r) /\ OnError(Statement(r)) = 0
        BY <1>0, <2>1, <2>3 DEF QueryFails
      <2>4. CASE QueryFails(r) /\ OnError(Statement(r)) # 0
        <3>1. OnError(Statement(r)) \in {404, 500}
          BY <2>4 DEF OnError
        <3>2. /\ pc' \in [Reqs -> {"idle", "done"} \cup InFlight]
              /\ code' \in [Reqs -> {0, 200, 400, 403, 404, 500}]
              /\ \A q \in Reqs : code'[q] # 0 <=> pc'[q] = "done"
          BY <1>0, <2>4, <3>1 DEF QueryFails, Fail
        <3> QED BY <1>0, <2>4, <3>2 DEF QueryFails
      <2> QED BY <1>3, <2>2, <2>3, <2>4
    <1>4. ASSUME NEW r \in Reqs, StoreMetrics(r) \/ StoreProfile(r) PROVE Types'
      BY <1>0, <1>4, ValueAssumption DEF StoreMetrics, StoreProfile, RedisFault
    <1>5. ASSUME NEW r \in Reqs, Respond(r) PROVE Types'
      <2>1. seen' \in [Users -> [ToSet(Pathologies) -> 0..MaxWrites]]
        <3>1. CASE input[r].kind = "profile"
          <4> DEFINE u == input[r].user
          <4>1. u \in Users /\ version[u] \in 0..MaxWrites /\ DOMAIN seen[u] = ToSet(Pathologies)
            BY <1>0, <1>5, InputFields DEF Respond
          <4>2. \A q \in ToSet(Pathologies) : Later(seen[u][q], answer[r][q]) \in 0..MaxWrites
            BY <1>0, <1>5, <3>1, <4>1, LaterType, ProfileValues DEF Respond
          <4>3. [q \in DOMAIN seen[u] |-> Later(seen[u][q], answer[r][q])]
                    \in [ToSet(Pathologies) -> 0..MaxWrites]
            BY <4>1, <4>2
          <4> QED BY <1>0, <1>5, <3>1, <4>1, <4>3 DEF Respond
        <3>2. CASE input[r].kind # "profile"
          BY <1>0, <1>5, <3>2 DEF Respond
        <3> QED BY <3>1, <3>2
      <2> QED BY <1>0, <1>5, <2>1 DEF Respond
    <1>6. ASSUME NEW r \in Reqs, SetMetrics(r) \/ Disconnect(r) PROVE Types'
      BY <1>0, <1>6, ValueAssumption DEF SetMetrics, Disconnect, RedisFault
    <1>7. ASSUME NEW u \in Users, Write(u) PROVE Types'
      BY <1>0, <1>7, ValueAssumption DEF Write
    <1>8. ASSUME NEW k, Expire(k) PROVE Types'
      BY <1>0, <1>8 DEF Expire
    <1>9. CASE UNCHANGED vars
      BY <1>0, <1>9 DEF vars
    <1> QED BY <1>1, <1>2, <1>3, <1>4, <1>5, <1>6, <1>7, <1>8, <1>9, Steps DEF Handler

\* Versions only grow.
LEMMA VersionGrows ==
    ASSUME Core, [Next]_vars
    PROVE  \A u \in Users : version[u] \in Nat /\ version'[u] \in Nat /\ version[u] <= version'[u]
    <1>1. version \in [Users -> Nat]
      BY ValueAssumption DEF Core, Types
    <1>2. version' = version \/ \E u \in Users : version' = [version EXCEPT ![u] = @ + 1]
      BY Steps DEF Receive, Handler, Hit, Miss, QueryOk, QueryFails, StoreMetrics, StoreProfile,
                   Respond, SetMetrics, Disconnect, Write, Expire, vars
    <1> QED BY <1>1, <1>2

\* So what is complete stays so.
LEMMA StaysComplete ==
    ASSUME Core, [Next]_vars, NEW a, NEW kind, NEW u \in Users, Complete(a, kind, u)
    PROVE  DOMAIN a = ToSet(Plan(kind)) /\ OfUser(a, u, version'[u])
    BY VersionGrows, OfUserLater DEF Complete

-----------------------------------------------------------------------------
(* Progress and PendingSound *)

\* A handler whose part of the state stays is where it was.
LEMMA OthersStay ==
    ASSUME Core, [Next]_vars, NEW q \in Reqs,
           pc'[q] = pc[q], input'[q] = input[q], at'[q] = at[q],
           answer'[q] = answer[q], pending'[q] = pending[q]
    PROVE  Progress(q)' /\ PendingSound(q)'
    <1>0. Progress(q) /\ PendingSound(q)
      BY DEF Core
    <1>1. pc[q] \in InFlight => input[q].user \in Users
      BY InputFields
    <1>2. pc[q] = "query" => OfUser(answer[q], input[q].user, version'[input[q].user])
      BY <1>0, <1>1, VersionGrows, OfUserLater DEF Progress, InFlight
    <1>3. pc[q] \in {"store", "respond"} =>
             /\ DOMAIN answer[q] = ToSet(Plan(input[q].kind))
             /\ OfUser(answer[q], input[q].user, version'[input[q].user])
      BY <1>0, <1>1, StaysComplete DEF Progress, InFlight
    <1>4. Progress(q)'
      BY <1>0, <1>2, <1>3 DEF Progress, Complete
    <1>5. pending[q] # NULL =>
             /\ DOMAIN pending[q] = ToSet(Plan("metrics"))
             /\ OfUser(pending[q], input[q].user, version'[input[q].user])
      BY <1>0, StaysComplete, InputAssumption DEF PendingSound
    <1>6. PendingSound(q)'
      BY <1>0, <1>5 DEF PendingSound, Complete
    <1> QED BY <1>4, <1>6

\* A statement adds its answer to those before it.
LEMMA RecordStep ==
    ASSUME Core, NEW r \in Reqs, pc[r] = "query", NEW v, Record(r, v),
           version' = version, input' = input,
           \/ v = NULL /\ OnError(Statement(r)) = 0
           \/ v = [user |-> input[r].user, version |-> version[input[r].user]]
    PROVE  /\ Progress(r)' /\ pc'[r] \in {"query", "store"} /\ at'[r] = at[r] + 1
           /\ DOMAIN answer'[r] = DOMAIN answer[r] \cup {Statement(r)}
           /\ answer'[r][Statement(r)] = v
           /\ \A s \in DOMAIN answer[r] \ {Statement(r)} : answer'[r][s] = answer[r][s]
    <1> DEFINE u == input[r].user
               P == Plan(input[r].kind)
    <1>1. /\ Types /\ input[r] \in Inputs /\ input[r].user = input[r].sub
          /\ at[r] \in 1..Len(P) /\ DOMAIN answer[r] = {P[j] : j \in 1..(at[r] - 1)}
          /\ OfUser(answer[r], u, version[u])
      BY DEF Core, Progress, InFlight
    <1>2. u \in Users /\ Len(P) \in Nat \ {0} /\ ToSet(P) = {P[j] : j \in 1..Len(P)}
      BY InputFields, PlanFacts DEF InFlight
    <1>3. /\ pc'[r] = IF at[r] = Len(P) THEN "store" ELSE "query"
          /\ at'[r] = at[r] + 1
          /\ answer'[r] = [s \in DOMAIN answer[r] \cup {Statement(r)} |->
                              IF s = Statement(r) THEN v ELSE answer[r][s]]
      BY <1>1 DEF Record, Types
    <1>4. DOMAIN answer'[r] = {P[j] : j \in 1..at[r]}
      <2>1. \A j \in 1..at[r] : j \in 1..(at[r] - 1) \/ j = at[r]
        BY <1>1, <1>2
      <2>2. \A j \in 1..(at[r] - 1) : j \in 1..at[r]
        BY <1>1, <1>2
      <2>3. at[r] \in 1..at[r]
        BY <1>1, <1>2
      <2> QED BY <1>1, <1>3, <2>1, <2>2, <2>3 DEF Statement
    <1>5. OfUser(answer'[r], u, version[u])
      <2>1. version[u] \in 0..MaxWrites /\ version[u] \in Nat
        BY <1>1, <1>2, ValueAssumption DEF Types
      <2>2. v # NULL => v \in [user : {u}, version : 0..version[u]]
        BY <2>1
      <2>3. v = NULL => OnError(Statement(r)) = 0
        BY <2>1, <1>2, ValueAssumption
      <2> QED BY <1>1, <1>3, <2>2, <2>3 DEF OfUser
    <1>6. CASE at[r] = Len(P)
      <2>1. pc'[r] = "store" /\ Complete(answer'[r], input[r].kind, u)
        BY <1>2, <1>3, <1>4, <1>5, <1>6 DEF Complete
      <2> QED BY <1>1, <1>3, <2>1 DEF Progress, Complete, InFlight
    <1>7. CASE at[r] # Len(P)
      <2>1. at[r] \in 1..Len(P) /\ Len(P) \in Nat
        BY <1>1, <1>2
      <2>2. at[r] + 1 \in 1..Len(P) /\ (at[r] + 1) - 1 = at[r]
        BY <1>7, <2>1
      <2>3. pc'[r] = "query" /\ at'[r] = at[r] + 1
        BY <1>3, <1>7
      <2>4. /\ at'[r] \in 1..Len(P)
            /\ DOMAIN answer'[r] = {P[j] : j \in 1..(at'[r] - 1)}
        BY <1>4, <2>2, <2>3
      <2>5. Progress(r)'
        BY <1>1, <1>5, <2>3, <2>4 DEF Progress, InFlight
      <2> QED BY <1>3, <2>3, <2>5
    <1> QED BY <1>6, <1>7, <1>3

LEMMA ProgressStep ==
    ASSUME Core, [Next]_vars, NEW q \in Reqs
    PROVE  Progress(q)' /\ PendingSound(q)'
    <1> USE DEF handlerVars, historyVars
    <1>0. Types /\ Progress(q) /\ PendingSound(q)
      BY DEF Core
    <1>1. ASSUME NEW r \in Reqs, Receive(r) PROVE Progress(q)' /\ PendingSound(q)'
      <2>1. CASE q = r
        <3>1. /\ pending'[q] = NULL /\ answer'[q] = EmptyMap /\ at'[q] = 1
              /\ pc'[q] \in {"done", "lookup"} /\ input'[q] \in Inputs
              /\ pc'[q] = "lookup" => input'[q].user = input'[q].sub
          BY <1>0, <1>1, <2>1 DEF Receive, Fail, Types, Progress
        <3> QED BY <3>1 DEF Progress, PendingSound, InFlight
      <2>2. CASE q # r
        BY <1>0, <1>1, <2>2, OthersStay DEF Receive, Fail, Types
      <2> QED BY <2>1, <2>2
    <1>2. ASSUME NEW r \in Reqs, Hit(r) PROVE Progress(q)' /\ PendingSound(q)'
      <2>1. CASE q = r
        <3>1. /\ Complete(cache[KeyOf(input[q])], input[q].kind, input[q].user)
              /\ input[q] \in Inputs /\ input[q].user = input[q].sub
          BY <1>2, <2>1, InputFields DEF Core, CacheSound, Hit, InFlight
        <3>2. /\ pc'[q] = "respond" /\ answer'[q] = cache[KeyOf(input[q])]
              /\ input' = input /\ version' = version /\ pending'[q] = NULL
          BY <1>0, <1>2, <2>1 DEF Hit, Types, PendingSound
        <3> QED BY <3>1, <3>2 DEF Progress, PendingSound, Complete
      <2>2. CASE q # r
        BY <1>0, <1>2, <2>2, OthersStay DEF Hit, Types
      <2> QED BY <2>1, <2>2
    <1>3. ASSUME NEW r \in Reqs, Miss(r) PROVE Progress(q)' /\ PendingSound(q)'
      <2>1. CASE q = r
        <3>1. /\ input[q] \in Inputs /\ input[q].user = input[q].sub
              /\ at[q] = 1 /\ answer[q] = EmptyMap /\ pending[q] = NULL
          BY <1>0, <1>3, <2>1 DEF Miss, Progress, PendingSound, InFlight
        <3>2. 1 \in 1..Len(Plan(input[q].kind)) /\ 1..(1 - 1) = {}
          BY <1>3, <2>1, InputFields, PlanFacts DEF Miss, InFlight
        <3>3. DOMAIN answer[q] = {Plan(input[q].kind)[j] : j \in 1..(1 - 1)}
              /\ OfUser(answer[q], input[q].user, version[input[q].user])
          BY <3>1, <3>2 DEF EmptyMap, OfUser
        <3>4. pc'[q] = "query" /\ UNCHANGED <<input, at, answer, pending, version>>
          BY <1>0, <1>3, <2>1 DEF Miss, Types
        <3> QED BY <3>1, <3>2, <3>3, <3>4 DEF Progress, PendingSound
      <2>2. CASE q # r
        BY <1>0, <1>3, <2>2, OthersStay DEF Miss, Types
      <2> QED BY <2>1, <2>2
    <1>4. ASSUME NEW r \in Reqs, QueryOk(r) \/ QueryFails(r) PROVE Progress(q)' /\ PendingSound(q)'
      <2>1. pc[r] = "query" /\ UNCHANGED <<input, version, pending>>
        BY <1>4 DEF QueryOk, QueryFails
      <2>2. CASE q # r
        BY <1>0, <1>4, <2>1, <2>2, OthersStay DEF QueryOk, QueryFails, Record, Fail, Types
      <2>3. CASE q = r
        <3>1. pending'[q] = NULL
          BY <1>0, <2>1, <2>3 DEF PendingSound
        <3>2. ASSUME QueryOk(r) PROVE Progress(q)'
          BY <2>1, <2>3, <3>2, RecordStep DEF QueryOk
        <3>3. ASSUME QueryFails(r) PROVE Progress(q)'
          <4>1. CASE OnError(Statement(r)) = 0
            BY <2>1, <2>3, <3>3, <4>1, RecordStep DEF QueryFails
          <4>2. CASE OnError(Statement(r)) # 0
            <5>1. pc'[r] = "done" /\ answer'[r] = EmptyMap
              BY <1>0, <3>3, <4>2 DEF QueryFails, Fail, Types
            <5> QED BY <2>3, <5>1 DEF Progress, InFlight
          <4> QED BY <4>1, <4>2
        <3> QED BY <1>4, <3>1, <3>2, <3>3 DEF PendingSound
      <2> QED BY <2>2, <2>3
    <1>5. ASSUME NEW r \in Reqs, StoreMetrics(r) \/ StoreProfile(r)
          PROVE  Progress(q)' /\ PendingSound(q)'
      <2>1. CASE q # r
        BY <1>0, <1>5, <2>1, OthersStay DEF StoreMetrics, StoreProfile, Types
      <2>2. CASE q = r
        <3>1. /\ input[q] \in Inputs /\ input[q].user = input[q].sub
              /\ Complete(answer[q], input[q].kind, input[q].user)
              /\ pc'[q] = "respond" /\ UNCHANGED <<input, answer, version>>
          BY <1>0, <1>5, <2>2 DEF StoreMetrics, StoreProfile, Progress, InFlight, Types
        <3>2. pending'[q] = NULL \/ (pending'[q] = answer[q] /\ input[q].kind = "metrics")
          BY <1>0, <1>5, <2>2 DEF StoreMetrics, StoreProfile, PendingSound, Types
        <3> QED BY <3>1, <3>2 DEF Progress, PendingSound, Complete
      <2> QED BY <2>1, <2>2
    <1>6. ASSUME NEW r \in Reqs, Respond(r) PROVE Progress(q)' /\ PendingSound(q)'
      <2>1. CASE q # r
        BY <1>0, <1>6, <2>1, OthersStay DEF Respond, Types
      <2>2. CASE q = r
        <3>1. pc'[q] = "done" /\ answer'[q] = EmptyMap /\ UNCHANGED <<input, pending, version>>
          BY <1>0, <1>6, <2>2 DEF Respond, Types
        <3> QED BY <1>0, <3>1 DEF Progress, PendingSound, InFlight, Complete
      <2> QED BY <2>1, <2>2
    <1>7. ASSUME NEW r \in Reqs, SetMetrics(r) PROVE Progress(q)' /\ PendingSound(q)'
      <2>1. CASE q # r
        BY <1>0, <1>7, <2>1, OthersStay DEF SetMetrics, Types
      <2>2. CASE q = r
        <3>1. pending'[q] = NULL /\ UNCHANGED <<pc, input, at, answer, version>>
          BY <1>0, <1>7, <2>2 DEF SetMetrics, Types
        <3> QED BY <1>0, <3>1 DEF Progress, PendingSound, Complete
      <2> QED BY <2>1, <2>2
    <1>8. ASSUME \/ \E r \in Reqs : Disconnect(r)
                 \/ \E u \in Users : Write(u)
                 \/ \E k \in DOMAIN cache : Expire(k)
                 \/ UNCHANGED vars
          PROVE  Progress(q)' /\ PendingSound(q)'
      BY <1>8, OthersStay DEF Disconnect, Write, Expire, vars
    <1> QED BY <1>1, <1>2, <1>3, <1>4, <1>5, <1>6, <1>7, <1>8, Steps DEF Handler

-----------------------------------------------------------------------------
(* CacheSound and SeenStored *)

\* Where an entry of the cache comes from.
LEMMA CacheSteps ==
    ASSUME Core, [Next]_vars, NEW k \in DOMAIN cache'
    PROVE  \/ k \in DOMAIN cache /\ cache'[k] = cache[k]
           \/ \E r \in Reqs : /\ StoreProfile(r) /\ k = KeyOf(input[r])
                              /\ cache'[k] = answer[r]
           \/ \E r \in Reqs : /\ SetMetrics(r) /\ k = KeyOf(input[r])
                              /\ cache'[k] = pending[r]
    <1>1. ASSUME NEW r \in Reqs, StoreProfile(r)
          PROVE  \/ k \in DOMAIN cache /\ cache'[k] = cache[k]
                 \/ k = KeyOf(input[r]) /\ cache'[k] = answer[r]
      BY <1>1 DEF StoreProfile, Put
    <1>2. ASSUME NEW r \in Reqs, SetMetrics(r)
          PROVE  \/ k \in DOMAIN cache /\ cache'[k] = cache[k]
                 \/ k = KeyOf(input[r]) /\ cache'[k] = pending[r]
      BY <1>2 DEF SetMetrics, Put
    <1>3. ASSUME NEW x, Expire(x)
          PROVE  k \in DOMAIN cache /\ cache'[k] = cache[k]
      BY <1>3 DEF Expire
    <1>4. ASSUME cache' = cache
          PROVE  k \in DOMAIN cache /\ cache'[k] = cache[k]
      BY <1>4
    <1>5. ASSUME NEW r \in Reqs, Receive(r) \/ Hit(r) \/ Miss(r) \/ QueryOk(r) \/ QueryFails(r)
                                 \/ StoreMetrics(r) \/ Respond(r) \/ Disconnect(r)
          PROVE  cache' = cache
      BY <1>5 DEF Receive, Hit, Miss, QueryOk, QueryFails, StoreMetrics, Respond, Disconnect
    <1>6. ASSUME (\E u \in Users : Write(u)) \/ UNCHANGED vars
          PROVE  cache' = cache
      BY <1>6 DEF Write, vars
    <1> QED BY <1>1, <1>2, <1>3, <1>4, <1>5, <1>6, Steps DEF Handler

LEMMA CacheSoundStep ==
    ASSUME Core, [Next]_vars
    PROVE  CacheSound'
    <1> SUFFICES ASSUME NEW k \in DOMAIN cache'
                 PROVE  /\ k \in Keys /\ DOMAIN cache'[k] = ToSet(Plan(k[1]))
                        /\ OfUser(cache'[k], k[2], version'[k[2]])
      BY DEF CacheSound, Complete
    <1>1. CASE k \in DOMAIN cache /\ cache'[k] = cache[k]
      <2>1. k \in Keys /\ Complete(cache[k], k[1], k[2]) /\ k[2] \in Users
        BY <1>1, KeyFields DEF Core, CacheSound
      <2> QED BY <1>1, <2>1, StaysComplete
    <1>2. ASSUME NEW r \in Reqs, StoreProfile(r), k = KeyOf(input[r]), cache'[k] = answer[r]
          PROVE  /\ k \in Keys /\ DOMAIN cache'[k] = ToSet(Plan(k[1]))
                 /\ OfUser(cache'[k], k[2], version'[k[2]])
      <2>1. pc[r] = "store" /\ Complete(answer[r], input[r].kind, input[r].user)
        BY <1>2 DEF StoreProfile, Core, Progress
      <2>2. k \in Keys /\ k[1] = input[r].kind /\ k[2] = input[r].user /\ input[r].user \in Users
        BY <1>2, <2>1, InputFields DEF InFlight
      <2> QED BY <1>2, <2>1, <2>2, StaysComplete
    <1>3. ASSUME NEW r \in Reqs, SetMetrics(r), k = KeyOf(input[r]), cache'[k] = pending[r]
          PROVE  /\ k \in Keys /\ DOMAIN cache'[k] = ToSet(Plan(k[1]))
                 /\ OfUser(cache'[k], k[2], version'[k[2]])
      <2>1. /\ input[r] \in Inputs /\ input[r].kind = "metrics"
            /\ Complete(pending[r], "metrics", input[r].user)
        BY <1>3 DEF SetMetrics, Core, PendingSound
      <2>2. k \in Keys /\ k[1] = "metrics" /\ k[2] = input[r].user /\ input[r].user \in Users
        BY <1>3, <2>1, InputAssumption DEF KeyOf, Keys
      <2> QED BY <1>3, <2>1, <2>2, StaysComplete
    <1> QED BY <1>1, <1>2, <1>3, CacheSteps

\* Only a profile that is answered moves what was seen, and of its user only.
LEMMA SeenSteps ==
    ASSUME Core, [Next]_vars, NEW u \in Users
    PROVE  \/ seen'[u] = seen[u]
           \/ \E r \in Reqs :
                 /\ Respond(r) /\ input[r].kind = "profile" /\ input[r].user = u
                 /\ \A p \in ToSet(Pathologies) : seen'[u][p] = Later(seen[u][p], answer[r][p])
    <1>0. Types
      BY DEF Core
    <1>1. ASSUME NEW r \in Reqs, Respond(r)
          PROVE  \/ seen'[u] = seen[u]
                 \/ /\ input[r].kind = "profile" /\ input[r].user = u
                    /\ \A p \in ToSet(Pathologies) : seen'[u][p] = Later(seen[u][p], answer[r][p])
      BY <1>0, <1>1 DEF Respond, Types
    <1>2. ASSUME NEW r \in Reqs, Receive(r) \/ Hit(r) \/ Miss(r) \/ QueryOk(r) \/ QueryFails(r)
                                 \/ StoreMetrics(r) \/ StoreProfile(r) \/ SetMetrics(r) \/ Disconnect(r)
          PROVE  seen' = seen
      BY <1>2 DEF Receive, Hit, Miss, QueryOk, QueryFails, StoreMetrics, StoreProfile, SetMetrics,
                  Disconnect, handlerVars, historyVars
    <1>3. ASSUME \/ \E x \in Users : Write(x)
                 \/ \E k \in DOMAIN cache : Expire(k)
                 \/ UNCHANGED vars
          PROVE  seen' = seen
      BY <1>3 DEF Write, Expire, vars, handlerVars, historyVars
    <1> QED BY <1>1, <1>2, <1>3, Steps DEF Handler

LEMMA SeenStoredStep ==
    ASSUME Core, [Next]_vars
    PROVE  SeenStored'
    <1> SUFFICES ASSUME NEW u \in Users, NEW p \in ToSet(Pathologies)
                 PROVE  seen'[u][p] <= version'[u]
      BY DEF SeenStored
    <1>1. /\ seen[u][p] \in 0..MaxWrites /\ version[u] \in 0..MaxWrites
          /\ version'[u] \in Nat /\ version[u] <= version'[u] /\ seen[u][p] <= version[u]
      BY VersionGrows DEF Core, Types, SeenStored
    <1>2. CASE seen'[u] = seen[u]
      BY <1>1, <1>2, ValueAssumption
    <1>3. ASSUME NEW r \in Reqs, Respond(r), input[r].kind = "profile", input[r].user = u,
                 seen'[u][p] = Later(seen[u][p], answer[r][p])
          PROVE  seen'[u][p] <= version'[u]
      <2>1. \/ answer[r][p] = NULL
            \/ answer[r][p] \in [user : {u}, version : 0..version[u]]
        BY <1>3, ProfileValues DEF Respond
      <2>2. Later(seen[u][p], answer[r][p]) <= version[u]
            /\ Later(seen[u][p], answer[r][p]) \in 0..MaxWrites
        BY <1>1, <2>1, LaterType
      <2> QED BY <1>1, <1>3, <2>2, ValueAssumption
    <1> QED BY <1>2, <1>3, SeenSteps

-----------------------------------------------------------------------------
(* OneByOne *)

\* The histories only grow, so what is asked after a step was asked before it.
LEMMA OneByOneBefore ==
    ASSUME Core, [Next]_vars, faults' = 0, NEW u \in Users \ overlap'
    PROVE  faults = 0 /\ u \notin overlap /\ OneByOne(u)
    <1>0. faults \in Nat
      BY ValueAssumption DEF Core, Types
    <1>1. faults' = faults \/ faults' = faults + 1
      BY Steps DEF Receive, Handler, Hit, Miss, QueryOk, QueryFails, StoreMetrics, StoreProfile,
                   Respond, SetMetrics, Disconnect, Write, Expire, RedisFault, vars
    <1>2. overlap \subseteq overlap'
      BY Steps DEF Receive, Handler, Hit, Miss, QueryOk, QueryFails, StoreMetrics, StoreProfile,
                   Respond, SetMetrics, Disconnect, Write, Expire, vars, handlerVars, historyVars
    <1> QED BY <1>0, <1>1, <1>2 DEF Core

\* A step that leaves the newest profile seen, the handlers at work on one and
\* the cached one alone, but for dropping it.
LEMMA OneByOneStays ==
    ASSUME NEW u \in Users, OneByOne(u), seen'[u] = seen[u],
           ProfileKey(u) \in DOMAIN cache' =>
               ProfileKey(u) \in DOMAIN cache /\ cache'[ProfileKey(u)] = cache[ProfileKey(u)],
           \A q \in Reqs : Serving(q, u)' =>
               /\ Serving(q, u)
               /\ pc'[q] = pc[q] /\ at'[q] = at[q] /\ answer'[q] = answer[q] /\ floor'[q] = floor[q]
               /\ q \in cancelled => q \in cancelled'
    PROVE  OneByOne(u)'
    <1>1. \A q, r \in Reqs : Serving(q, u)' /\ Serving(r, u)' => q = r
      BY DEF OneByOne
    <1>2. ProfileKey(u) \in DOMAIN cache' => NotOlder(cache[ProfileKey(u)], u)'
      BY DEF OneByOne, NotOlder
    <1>3. ASSUME NEW r \in Reqs, Serving(r, u)'
          PROVE  /\ floor'[r] = seen'[u]
                 /\ pc'[r] = "query" =>
                       /\ ProfileKey(u) \in DOMAIN cache' => at'[r] = 1 /\ r \in cancelled'
                       /\ \A p \in ToSet(Pathologies) \cap DOMAIN answer'[r] :
                             answer'[r][p] # NULL => answer'[r][p].version >= seen'[u][p]
                 /\ pc'[r] = "store" => ProfileKey(u) \notin DOMAIN cache'
                 /\ pc'[r] \in {"store", "respond"} => NotOlder(answer[r], u)'
                 /\ pc'[r] = "respond" /\ ProfileKey(u) \in DOMAIN cache' =>
                       cache'[ProfileKey(u)] = answer'[r]
      BY <1>3 DEF OneByOne, NotOlder
    <1> QED BY <1>1, <1>2, <1>3 DEF OneByOne, ProfileKey

\* A step of the one handler at work on a profile of u.
LEMMA OneByOneOwn ==
    ASSUME NEW u \in Users, OneByOne(u), NEW r \in Reqs, Serving(r, u), input' = input,
           \A q \in Reqs \ {r} : pc'[q] = pc[q],
           ProfileKey(u) \in DOMAIN cache' => NotOlder(cache[ProfileKey(u)], u)',
           pc'[r] \in InFlight =>
               /\ floor'[r] = seen'[u]
               /\ pc'[r] = "query" =>
                     /\ ProfileKey(u) \in DOMAIN cache' => at'[r] = 1 /\ r \in cancelled'
                     /\ \A p \in ToSet(Pathologies) \cap DOMAIN answer'[r] :
                           answer'[r][p] # NULL => answer'[r][p].version >= seen'[u][p]
               /\ pc'[r] = "store" => ProfileKey(u) \notin DOMAIN cache'
               /\ pc'[r] \in {"store", "respond"} => NotOlder(answer[r], u)'
               /\ pc'[r] = "respond" /\ ProfileKey(u) \in DOMAIN cache' =>
                     cache'[ProfileKey(u)] = answer'[r]
    PROVE  OneByOne(u)'
    <1>1. \A q \in Reqs : Serving(q, u)' => q = r
      BY DEF OneByOne, Serving
    <1>2. Serving(r, u)' => pc'[r] \in InFlight
      BY DEF Serving
    <1> QED BY <1>1, <1>2 DEF OneByOne, ProfileKey

\* A step of a handler at work on something else.
LEMMA OneByOneOther ==
    ASSUME Core, NEW u \in Users, OneByOne(u), NEW r \in Reqs, Handler(r), ~Serving(r, u)
    PROVE  OneByOne(u)'
    <1> USE DEF historyVars
    <1>0. Types
      BY DEF Core
    <1>1. /\ pc[r] \in InFlight /\ input' = input
          /\ \A q \in Reqs : q \in cancelled => q \in cancelled'
      BY DEF Handler, Hit, Miss, QueryOk, QueryFails, StoreMetrics, StoreProfile, Respond, InFlight
    <1>2. floor' = floor
      BY DEF Handler, Hit, Miss, QueryOk, QueryFails, StoreMetrics, StoreProfile, Respond
    <1>3. \A q \in Reqs \ {r} : pc'[q] = pc[q] /\ at'[q] = at[q] /\ answer'[q] = answer[q]
      BY <1>0 DEF Handler, Hit, Miss, QueryOk, QueryFails, StoreMetrics, StoreProfile, Respond,
              Record, Fail, Types
    <1>4. ~Serving(r, u)'
      BY <1>1 DEF Serving
    <1>5. ASSUME NEW q \in Reqs, Serving(q, u)'
          PROVE  /\ Serving(q, u)
                 /\ pc'[q] = pc[q] /\ at'[q] = at[q] /\ answer'[q] = answer[q] /\ floor'[q] = floor[q]
                 /\ q \in cancelled => q \in cancelled'
      <2>1. q # r
        BY <1>4, <1>5
      <2> QED BY <1>1, <1>2, <1>3, <1>5, <2>1 DEF Serving
    <1>6. seen'[u] = seen[u]
      <2>1. CASE Respond(r)
        <3>1. input[r].kind = "profile" => input[r].user # u
          BY <1>1 DEF Serving
        <3> QED BY <1>0, <2>1, <3>1 DEF Respond, Types
      <2> QED BY <2>1 DEF Handler, Hit, Miss, QueryOk, QueryFails, StoreMetrics, StoreProfile
    <1>7. ProfileKey(u) \in DOMAIN cache' =>
              ProfileKey(u) \in DOMAIN cache /\ cache'[ProfileKey(u)] = cache[ProfileKey(u)]
      <2>1. CASE StoreProfile(r)
        <3>1. KeyOf(input[r]) # ProfileKey(u)
          BY <1>1, <2>1 DEF StoreProfile, Serving, KeyOf, ProfileKey
        <3> QED BY <2>1, <3>1 DEF StoreProfile, Put
      <2> QED BY <2>1 DEF Handler, Hit, Miss, QueryOk, QueryFails, StoreMetrics, Respond
    <1> QED BY <1>5, <1>6, <1>7, OneByOneStays

\* A profile handler reads the cache and the tables.
LEMMA ReadsOneByOne ==
    ASSUME Core, faults' = 0, NEW u \in Users, OneByOne(u), NEW r \in Reqs, Serving(r, u),
           Hit(r) \/ Miss(r) \/ QueryOk(r) \/ QueryFails(r)
    PROVE  OneByOne(u)'
    <1> USE DEF historyVars
    <1> DEFINE k == ProfileKey(u)
    <1>0. /\ Types /\ input[r].kind = "profile" /\ input[r].user = u /\ KeyOf(input[r]) = k
          /\ Progress(r) /\ faults \in Nat
      BY InputFields, ValueAssumption DEF Core, Serving, Types
    <1>1. UNCHANGED <<input, seen, floor, cache, cancelled>>
      BY DEF Hit, Miss, QueryOk, QueryFails
    <1>2. \A q \in Reqs \ {r} : pc'[q] = pc[q]
      BY <1>0 DEF Hit, Miss, QueryOk, QueryFails, Record, Fail, Types
    <1>3. /\ floor[r] = seen[u]
          /\ k \in DOMAIN cache => NotOlder(cache[k], u)
          /\ k \in DOMAIN cache' => NotOlder(cache[k], u)'
      BY <1>1 DEF OneByOne, NotOlder
    <1>4. ASSUME Hit(r) PROVE OneByOne(u)'
      <2>1. pc'[r] = "respond" /\ answer'[r] = cache[k] /\ k \in DOMAIN cache
        BY <1>0, <1>4 DEF Hit, Types
      <2>2. NotOlder(answer[r], u)'
        BY <1>1, <1>3, <2>1 DEF NotOlder
      <2> QED BY <1>1, <1>2, <1>3, <2>1, <2>2, OneByOneOwn
    <1>5. ASSUME Miss(r) PROVE OneByOne(u)'
      <2>1. /\ pc'[r] = "query" /\ at'[r] = 1 /\ answer'[r] = EmptyMap
            /\ k \in DOMAIN cache => r \in cancelled
        BY <1>0, <1>5 DEF Miss, RedisFault, Types, Progress
      <2>2. ToSet(Pathologies) \cap DOMAIN answer'[r] = {}
        BY <2>1 DEF EmptyMap
      <2> QED BY <1>1, <1>2, <1>3, <2>1, <2>2, OneByOneOwn
    \* A value as new as the tables, or none.
    <1>6. ASSUME NEW v, Record(r, v), pc[r] = "query", version' = version, k \notin DOMAIN cache,
                 \/ v = NULL /\ OnError(Statement(r)) = 0
                 \/ v = [user |-> u, version |-> version[u]]
          PROVE  OneByOne(u)'
      <2>1. /\ pc'[r] \in {"query", "store"}
            /\ DOMAIN answer'[r] = DOMAIN answer[r] \cup {Statement(r)}
            /\ answer'[r][Statement(r)] = v
            /\ \A s \in DOMAIN answer[r] \ {Statement(r)} : answer'[r][s] = answer[r][s]
            /\ Progress(r)'
        BY <1>0, <1>1, <1>6, RecordStep
      <2>2. ASSUME NEW p \in ToSet(Pathologies), p \in DOMAIN answer'[r], answer'[r][p] # NULL
            PROVE  answer'[r][p].version >= seen'[u][p]
        <3>1. CASE p = Statement(r)
          <4>1. seen[u][p] <= version[u] /\ answer'[r][p].version = version[u]
            BY <1>6, <2>1, <2>2, <3>1 DEF Core, SeenStored
          <4>2. seen[u][p] \in Nat /\ version[u] \in Nat
            BY <1>0, ValueAssumption DEF Types
          <4> QED BY <1>1, <4>1, <4>2
        <3>2. CASE p # Statement(r)
          BY <1>1, <1>6, <2>1, <2>2, <3>2 DEF OneByOne
        <3> QED BY <3>1, <3>2
      <2>3. pc'[r] = "store" => NotOlder(answer[r], u)'
        <3>1. pc'[r] = "store" => ToSet(Pathologies) \subseteq DOMAIN answer'[r]
          BY <1>0, <1>1, <2>1, PlanFacts DEF Progress, Complete
        <3> QED BY <2>2, <3>1 DEF NotOlder
      <2> QED BY <1>1, <1>2, <1>3, <1>6, <2>1, <2>2, <2>3, OneByOneOwn
    <1>7. ASSUME QueryOk(r) PROVE OneByOne(u)'
      <2>1. pc[r] = "query" /\ r \notin cancelled /\ version' = version
            /\ Record(r, [user |-> u, version |-> version[u]])
        BY <1>0, <1>7 DEF QueryOk
      <2>2. k \notin DOMAIN cache
        BY <2>1 DEF OneByOne
      <2> QED BY <1>6, <2>1, <2>2
    <1>8. ASSUME QueryFails(r) PROVE OneByOne(u)'
      <2>1. CASE OnError(Statement(r)) # 0
        <3>1. pc'[r] = "done"
          BY <1>0, <1>8, <2>1 DEF QueryFails, Fail, Types
        <3> QED BY <1>1, <1>2, <1>3, <3>1, OneByOneOwn DEF InFlight
      <2>2. CASE OnError(Statement(r)) = 0
        <3>1. pc[r] = "query" /\ version' = version /\ Record(r, NULL)
          BY <1>8, <2>2 DEF QueryFails
        <3>2. at[r] # 1
          BY <1>0, <2>2, PlanFacts DEF Statement, OnError
        <3>3. k \notin DOMAIN cache
          BY <3>1, <3>2 DEF OneByOne
        <3> QED BY <1>6, <2>2, <3>1, <3>3
      <2> QED BY <2>1, <2>2
    <1> QED BY <1>4, <1>5, <1>7, <1>8

\* A profile handler writes its answer back, then to the client.
LEMMA WritesOneByOne ==
    ASSUME Core, faults' = 0, NEW u \in Users, OneByOne(u), NEW r \in Reqs, Serving(r, u),
           StoreProfile(r) \/ Respond(r)
    PROVE  OneByOne(u)'
    <1> DEFINE k == ProfileKey(u)
    <1>0. /\ Types /\ input[r].kind = "profile" /\ input[r].user = u /\ KeyOf(input[r]) = k
          /\ faults \in Nat
      BY InputFields, ValueAssumption DEF Core, Serving, Types
    <1>1. input' = input /\ \A q \in Reqs \ {r} : pc'[q] = pc[q]
      BY <1>0 DEF StoreProfile, Respond, Types
    <1>2. floor[r] = seen[u] /\ NotOlder(answer[r], u)
      BY DEF OneByOne, StoreProfile, Respond
    <1>3. ASSUME StoreProfile(r) PROVE OneByOne(u)'
      <2>1. /\ pc'[r] = "respond" /\ UNCHANGED <<answer, seen, floor>>
            /\ k \notin DOMAIN cache
        BY <1>0, <1>3 DEF StoreProfile, historyVars, Types, OneByOne
      <2>2. k \in DOMAIN cache' => cache'[k] = answer[r]
        BY <1>0, <1>3, <2>1 DEF StoreProfile, Put, RedisFault
      <2>3. NotOlder(answer[r], u)'
        BY <1>2, <2>1 DEF NotOlder
      <2>4. k \in DOMAIN cache' => NotOlder(cache[k], u)'
        BY <2>1, <2>2, <2>3 DEF NotOlder
      <2> QED BY <1>1, <1>2, <2>1, <2>2, <2>3, <2>4, OneByOneOwn
    <1>4. ASSUME Respond(r) PROVE OneByOne(u)'
      <2>1. /\ pc[r] = "respond" /\ pc'[r] = "done" /\ cache' = cache
            /\ seen' = [seen EXCEPT ![u] = [p \in DOMAIN @ |-> Later(@[p], answer[r][p])]]
        BY <1>0, <1>4 DEF Respond, Types
      <2>2. ASSUME NEW p \in ToSet(Pathologies), answer[r][p] # NULL
            PROVE  answer[r][p].version >= seen'[u][p]
        <3>1. /\ seen[u][p] \in 0..MaxWrites /\ version[u] \in 0..MaxWrites
              /\ seen'[u][p] = Later(seen[u][p], answer[r][p])
          BY <1>0, <2>1 DEF Types
        <3>2. answer[r][p] \in [user : {u}, version : 0..version[u]]
          BY <1>0, <2>1, <2>2, ProfileValues
        <3>3. answer[r][p].version >= seen[u][p]
          BY <1>2, <2>2 DEF NotOlder
        <3>4. seen'[u][p] = answer[r][p].version
          BY <2>2, <3>1, <3>2, <3>3, LaterType
        <3>5. answer[r][p].version \in Nat
          BY <3>1, <3>2, ValueAssumption
        <3> QED BY <3>4, <3>5
      <2>3. k \in DOMAIN cache' => cache'[k] = answer[r]
        BY <2>1 DEF OneByOne
      <2>4. k \in DOMAIN cache' => NotOlder(cache[k], u)'
        BY <2>2, <2>3 DEF NotOlder
      <2> QED BY <1>1, <2>1, <2>4, OneByOneOwn DEF InFlight
    <1> QED BY <1>3, <1>4

\* A request for a profile of u arrives, and no other is at work on one.
LEMMA ReceiveOneByOne ==
    ASSUME Core, NEW u \in Users \ overlap', OneByOne(u), NEW r \in Reqs, Receive(r)
    PROVE  OneByOne(u)'
    <1> USE DEF historyVars
    <1>0. /\ Types /\ pc[r] \notin InFlight
      BY DEF Core, Receive, InFlight
    <1>1. UNCHANGED <<version, cache, seen, answer>>
          /\ \A q \in Reqs \ {r} : /\ pc'[q] = pc[q] /\ input'[q] = input[q] /\ at'[q] = at[q]
                                   /\ floor'[q] = floor[q]
                                   /\ q \in cancelled => q \in cancelled'
      BY <1>0 DEF Receive, Fail, Types
    <1>2. CASE ~Serving(r, u)'
      <2>1. \A q \in Reqs : Serving(q, u)' => q # r /\ Serving(q, u)
        BY <1>1, <1>2 DEF Serving
      <2> QED BY <1>1, <2>1, OneByOneStays
    <1>3. CASE Serving(r, u)'
      <2>1. PICK i \in Inputs :
               /\ input' = [input EXCEPT ![r] = i]
               /\ pc' = [pc EXCEPT ![r] = "lookup"] \/ pc'[r] \notin InFlight
               /\ floor' = [floor EXCEPT ![r] = IF i.kind = "profile" THEN seen[i.user] ELSE EmptyMap]
               /\ overlap' = overlap \cup
                     {i.user : q \in {q \in Reqs \ {r} : /\ pc[q] \in InFlight
                                                      /\ input[q].kind = "profile"
                                                      /\ input[q].user = i.user}}
        <3>1. \A status : Fail(r, status) => pc'[r] \notin InFlight
          BY <1>0 DEF Fail, Types, InFlight
        <3> QED BY <3>1 DEF Receive
      <2>2. i.kind = "profile" /\ i.user = u /\ pc'[r] = "lookup" /\ floor'[r] = seen[u]
        BY <1>0, <1>3, <2>1 DEF Serving, Types
      <2>3. ASSUME NEW q \in Reqs, q # r PROVE ~Serving(q, u)'
        <3>1. ~Serving(q, u)
          BY <2>1, <2>2, <2>3 DEF Serving
        <3> QED BY <1>1, <2>3, <3>1 DEF Serving
      <2>4. ProfileKey(u) \in DOMAIN cache' => NotOlder(cache[ProfileKey(u)], u)'
        BY <1>1 DEF OneByOne, NotOlder
      <2> QED BY <1>1, <2>2, <2>3, <2>4 DEF OneByOne, ProfileKey
    <1> QED BY <1>2, <1>3

\* The background SET is of metrics.
LEMMA SetOneByOne ==
    ASSUME Core, NEW u \in Users, OneByOne(u), NEW r \in Reqs, SetMetrics(r)
    PROVE  OneByOne(u)'
    <1>1. KeyOf(input[r]) # ProfileKey(u)
      BY DEF Core, PendingSound, SetMetrics, KeyOf, ProfileKey
    <1>2. ProfileKey(u) \in DOMAIN cache' =>
              ProfileKey(u) \in DOMAIN cache /\ cache'[ProfileKey(u)] = cache[ProfileKey(u)]
      BY <1>1 DEF SetMetrics, Put
    <1>3. UNCHANGED <<pc, input, at, answer, seen, floor, cancelled>>
      BY DEF SetMetrics, handlerVars, historyVars
    <1> QED BY <1>2, <1>3, OneByOneStays DEF Serving

LEMMA OneByOneStep ==
    ASSUME Core, [Next]_vars, faults' = 0, NEW u \in Users \ overlap'
    PROVE  OneByOne(u)'
    <1>0. u \in Users /\ OneByOne(u)
      BY OneByOneBefore
    <1>1. ASSUME NEW r \in Reqs, Handler(r) PROVE OneByOne(u)'
      <2>1. CASE ~Serving(r, u)
        BY <1>0, <1>1, <2>1, OneByOneOther
      <2>2. CASE Serving(r, u)
        <3>1. ~StoreMetrics(r)
          BY <2>2 DEF Serving, StoreMetrics
        <3> QED BY <1>0, <1>1, <2>2, <3>1, ReadsOneByOne, WritesOneByOne DEF Handler
      <2> QED BY <2>1, <2>2
    <1>2. ASSUME NEW r \in Reqs, Receive(r) \/ SetMetrics(r) PROVE OneByOne(u)'
      BY <1>0, <1>2, ReceiveOneByOne, SetOneByOne
    <1>3. ASSUME \/ \E r \in Reqs : Disconnect(r)
                 \/ \E x \in Users : Write(x)
                 \/ \E k \in DOMAIN cache : Expire(k)
                 \/ UNCHANGED vars
          PROVE  OneByOne(u)'
      <2>1. UNCHANGED <<pc, input, at, answer, seen, floor>> /\ cancelled \subseteq cancelled'
        BY <1>3 DEF Disconnect, Write, Expire, vars, handlerVars, historyVars
      <2>2. \A k \in DOMAIN cache' : k \in DOMAIN cache /\ cache'[k] = cache[k]
        BY <1>3 DEF Disconnect, Write, Expire, vars
      <2> QED BY <1>0, <2>1, <2>2, OneByOneStays DEF Serving
    <1> QED BY <1>1, <1>2, <1>3, Steps

-----------------------------------------------------------------------------
(* The theorems *)

LEMMA CoreInit ==
    ASSUME Init
    PROVE  Core
    <1> USE DEF Init
    <1>1. Types
      BY ValueAssumption DEF Types
    <1>2. \A r \in Reqs : Progress(r) /\ PendingSound(r)
      BY DEF Progress, PendingSound, InFlight
    <1>3. CacheSound /\ DOMAIN cache = {}
      BY DEF CacheSound, EmptyMap
    <1>4. SeenStored
      BY DEF SeenStored
    <1>5. \A u \in Users : OneByOne(u)
      BY <1>3 DEF OneByOne, Serving, InFlight
    <1> QED BY <1>1, <1>2, <1>3, <1>4, <1>5 DEF Core

LEMMA CoreStep ==
    ASSUME Core, [Next]_vars
    PROVE  Core'
    BY TypesStep, ProgressStep, CacheSoundStep, SeenStoredStep, OneByOneStep DEF Core

\* What a handler holds, what waits to be cached and what is cached is complete
\* and of its user, and of a user who asks one at a time the cache holds the
\* newest profile shown, or none (metrics.go, profile.go, cache/metrics.go).
THEOREM Inductive == Spec => []ReadInv
    <1>1. Init => Core
      BY CoreInit
    <1>2. Core /\ [Next]_vars => Core'
      BY CoreStep
    <1>3. Core => ReadInv
      BY CoreIsReadInv
    <1> QED BY <1>1, <1>2, <1>3, PTL DEF Spec

\* Every answer, cached entry and handler has the type its code gives it.
THEOREM TypeCorrect == Spec => []TypeOK
    <1>1. ReadInv => TypeOK
      BY DEF ReadInv
    <1> QED BY <1>1, Inductive, PTL

\* An answer with 200 goes to the owner, is of that user only, and lacks
\* nothing but what the handlers do without (metrics.go, profile.go).
THEOREM AnswerSoundAlways == Spec => []AnswerSound
    <1>1. ReadInv => AnswerSound
      <2> SUFFICES ASSUME ReadInv, NEW r \in Reqs, pc[r] = "respond"
                   PROVE  /\ input[r].user = input[r].sub
                          /\ DOMAIN answer[r] = ToSet(Plan(input[r].kind))
                          /\ \A s \in DOMAIN answer[r] :
                                IF answer[r][s] = NULL THEN OnError(s) = 0
                                                       ELSE answer[r][s].user = input[r].user
        BY DEF AnswerSound
      <2>1. /\ input[r].user = input[r].sub
            /\ Complete(answer[r], input[r].kind, input[r].user)
        BY DEF ReadInv, Progress, InFlight
      <2> QED BY <2>1 DEF Complete, OfUser
    <1> QED BY <1>1, Inductive, PTL

\* One profile request at a time, and no fault of Redis: what a profile shows
\* is as new as what one before it showed (profile.go:148-153).
THEOREM ProfileNeverBackAlways == Spec => []ProfileNeverBack
    <1>1. Core => ProfileNeverBack
      <2> SUFFICES ASSUME Core, NEW r \in Reqs,
                          pc[r] = "respond", input[r].kind = "profile",
                          input[r].user \notin overlap, faults = 0,
                          NEW p \in DOMAIN floor[r], answer[r][p] # NULL
                   PROVE  answer[r][p].version >= floor[r][p]
        BY DEF ProfileNeverBack
      <2>1. input[r].user \in Users /\ Serving(r, input[r].user)
        BY InputFields DEF Serving, InFlight
      <2>2. OneByOne(input[r].user)
        BY <2>1 DEF Core
      <2>3. floor[r] = seen[input[r].user] /\ NotOlder(answer[r], input[r].user)
        BY <2>1, <2>2 DEF OneByOne
      <2>4. DOMAIN floor[r] = ToSet(Pathologies)
        BY <2>1, <2>3 DEF Core, Types
      <2> QED BY <2>3, <2>4 DEF NotOlder
    <1>2. ReadInv => Core
      BY CoreIsReadInv
    <1> QED BY <1>1, <1>2, Inductive, PTL

===============================================================================
