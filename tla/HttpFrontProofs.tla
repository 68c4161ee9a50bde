-------------------------- MODULE HttpFrontProofs --------------------------
(***************************************************************************)
(* Theorems about HttpFront: what /health says, and what a missing Redis   *)
(* may refuse.  Both compare the answer with the services as they were     *)
(* during the request, so the invariant says what of them each step of a   *)
(* request has still in its hands.                                         *)
(***************************************************************************)
EXTENDS HttpFront, TLAPS

\* While a request is under way, what answers now has answered during it, and
\* what does not has failed during it.
Remembers ==
  pc # "receive" =>
    /\ up \subseteq wasUp /\ Services \ up \subseteq wasDown
    /\ response = NoResponse

\* Which routes come where.
OnRoute ==
  /\ pc = "limit" => request.route \in Searches \cup SyncRoutes
  /\ pc = "serve" => request.route # "health"
  /\ pc \in {"check_database", "check_redis"} => request.route = "health"

\* What /health knows when it turns to Redis: the database and a connection were
\* there, or one of them was not, at some time of the request.
FirstCheck ==
  pc = "check_redis" =>
    \/ checked = {"database"} /\ {"database", "pool"} \subseteq wasUp
    \/ checked = {} /\ {"database", "pool"} \cap wasDown # {}

IInv ==
  /\ up \subseteq Services
  /\ settings \in [configured : BOOLEAN, requireRedis : BOOLEAN]
  /\ Remembers /\ OnRoute /\ FirstCheck
  /\ HealthIsHonest /\ RedisIsOptional

LEMMA InitIInv == Init => IInv
BY DEF Init, IInv, Remembers, OnRoute, FirstCheck, HealthIsHonest, RedisIsOptional, Answered

-----------------------------------------------------------------------------
(* The steps before the answer. *)

\* A step that answers nothing has nothing to justify.
LEMMA Unanswered ==
  ASSUME response' = NoResponse PROVE HealthIsHonest' /\ RedisIsOptional'
BY DEF HealthIsHonest, RedisIsOptional, Answered

LEMMA ReceiveKeeps == ASSUME IInv, Receive PROVE IInv'
<1>1. response' = NoResponse /\ pc' \in {"limit", "validate"}
  BY DEF Receive
<1>2. Remembers'
  BY <1>1 DEF Receive, Remembers
<1>3. OnRoute' /\ FirstCheck'
  BY <1>1 DEF Receive, OnRoute, FirstCheck
<1> QED BY <1>1, <1>2, <1>3, Unanswered DEF Receive, IInv

LEMMA OutageKeeps == ASSUME IInv, Outage PROVE IInv'
<1>1. up' \subseteq Services /\ wasUp' = wasUp \cup up' /\ wasDown' = wasDown \cup (Services \ up')
  BY DEF IInv, Outage
<1>2. UNCHANGED <<settings, pc, request, checked, response>> /\ pc # "receive"
  BY DEF Outage
<1>3. response' = NoResponse
  BY <1>2 DEF IInv, Remembers
<1>4. Remembers' /\ OnRoute' /\ FirstCheck'
  BY <1>1, <1>2, <1>3 DEF IInv, Remembers, OnRoute, FirstCheck
<1> QED BY <1>1, <1>2, <1>3, <1>4, Unanswered DEF IInv

LEMMA CheckDatabaseKeeps == ASSUME IInv, CheckDatabase PROVE IInv'
<1>1. /\ pc = "check_database" /\ pc' = "check_redis"
      /\ checked' = IF Reachable THEN {"database"} ELSE {}
      /\ UNCHANGED <<settings, up, wasUp, wasDown, request, response>>
  BY DEF CheckDatabase
<1>2. response' = NoResponse
  BY <1>1 DEF IInv, Remembers
<1>3. FirstCheck'
  BY <1>1 DEF IInv, Remembers, FirstCheck, Services, Reachable
<1>4. Remembers' /\ OnRoute'
  BY <1>1 DEF IInv, Remembers, OnRoute
<1> QED BY <1>1, <1>2, <1>3, <1>4, Unanswered DEF IInv

-----------------------------------------------------------------------------
(* The answers. *)

\* An answer that neither property forbids; failed says whether it is that of a
\* statement that failed on its own.
Due(status, failed) ==
  /\ request.route # "health"
  /\ \/ status \in {404, 422}
     \/ status = 200 /\ request.route \notin SyncRoutes
     \/ status \in {202, 303, 503} /\ request.route \in SyncRoutes
     \/ ~ settings.configured \/ failed
     \/ "redis" \in up \/ ~ Reachable

LEMMA Answering ==
  ASSUME IInv, pc # "receive", NEW status, NEW code, NEW failed, Due(status, failed),
         pc' = "receive", response' = [status |-> status, code |-> code, failed |-> failed],
         UNCHANGED <<settings, up, wasUp, wasDown, request>>
  PROVE  IInv'
<1>1. response'.status = status /\ response'.failed = failed
  OBVIOUS
<1>2. HealthIsHonest'
  BY DEF Due, HealthIsHonest
<1>3. RedisIsOptional'
  <2>1. ASSUME OnlyRedisMissing'
        PROVE  \/ status \in {404, 422}
               \/ status = 200 /\ request.route \notin SyncRoutes
               \/ status \in {202, 303, 503} /\ request.route \in SyncRoutes
    <3>1. settings.configured /\ ~ failed /\ "redis" \notin up /\ Reachable
      BY <1>1, <2>1 DEF OnlyRedisMissing, IInv, Remembers, Reachable, Services
    <3> QED BY <3>1 DEF Due
  <2>2. request.route # "health" /\ request' = request
    BY DEF Due
  <2> QED BY <1>1, <2>1, <2>2 DEF RedisIsOptional
<1> QED BY <1>2, <1>3 DEF IInv, Remembers, OnRoute, FirstCheck

LEMMA Responding ==
  ASSUME IInv, pc # "receive", NEW status, NEW code, Respond(status, code),
         Due(status, FALSE), UNCHANGED <<settings, up, wasUp, wasDown, request>>
  PROVE  IInv'
BY Answering DEF Respond

\* An endpoint without a database, or with a statement that fails.
LEMMA Unexpected ==
  ASSUME IInv, pc # "receive", request.route # "health", NEW may, StatementFails(may),
         UNCHANGED <<settings, up, wasUp, wasDown, request>>
  PROVE  IInv'
<1>1. CASE ~ Reachable /\ RespondUnexpected(FALSE)
  BY <1>1, Answering DEF RespondUnexpected, Due
<1>2. CASE RespondUnexpected(TRUE)
  BY <1>2, Answering DEF RespondUnexpected, Due
<1> QED BY <1>1, <1>2 DEF StatementFails

LEMMA LimitKeeps == ASSUME IInv, Limit PROVE IInv'
<1>1. CASE "redis" \in up /\ Respond(429, "rate_limit_exceeded")
  <2>1. request.route # "health"
    BY DEF Limit, IInv, OnRoute, Searches, SyncRoutes
  <2> QED BY <1>1, <2>1, Responding DEF Limit, Due
<1>2. CASE pc' = "validate" /\ UNCHANGED response
  <2>1. response' = NoResponse
    BY <1>2 DEF Limit, IInv, Remembers
  <2> QED BY <1>2, <2>1, Unanswered DEF Limit, IInv, Remembers, OnRoute, FirstCheck
<1> QED BY <1>1, <1>2 DEF Limit

LEMMA ValidateKeeps == ASSUME IInv, Validate PROVE IInv'
<1>1. CASE ~ Valid(request.route, request.with) /\ Respond(422, "validation_error")
  <2>1. request.route # "health"
    BY <1>1 DEF Valid
  <2> QED BY <1>1, <2>1, Responding DEF Validate, Due
<1>2. CASE /\ pc' = IF request.route = "health" THEN "check_database" ELSE "serve"
           /\ UNCHANGED response
  <2>1. response' = NoResponse
    BY <1>2 DEF Validate, IInv, Remembers
  <2> QED BY <1>2, <2>1, Unanswered DEF Validate, IInv, Remembers, OnRoute, FirstCheck
<1> QED BY <1>1, <1>2 DEF Validate

\* The endpoints: 503 is for want of providers, or of a queue.
LEMMA ServeKeeps ==
  ASSUME IInv, ServeSearch \/ ServeUi \/ ServeDetail \/ ServeSync PROVE IInv'
<1>1. /\ pc = "serve" /\ request.route # "health"
      /\ UNCHANGED <<settings, up, wasUp, wasDown, request>>
  BY DEF IInv, OnRoute, ServeSearch, ServeUi, ServeDetail, ServeSync, Serving
<1>2. ASSUME NEW may, StatementFails(may) PROVE IInv'
  BY <1>1, <1>2, Unexpected
<1>3. ASSUME NEW code, Respond(404, code) PROVE IInv'
  BY <1>1, <1>3, Responding DEF Due
<1>4. ASSUME request.route \notin SyncRoutes, NEW code, Respond(200, code) PROVE IInv'
  BY <1>1, <1>4, Responding DEF Due
<1>5. CASE ~ settings.configured /\ Respond(503, "search_providers_unavailable")
  BY <1>1, <1>5, Responding DEF Due
<1>6. ASSUME request.route \in SyncRoutes, NEW status \in {202, 303, 503}, NEW code,
             Respond(status, code)
      PROVE  IInv'
  BY <1>1, <1>6, Responding DEF Due
<1>7. CASE ServeSearch
  <2>1. request.route \notin SyncRoutes
    BY <1>7 DEF ServeSearch, Serving, SyncRoutes
  <2> QED BY <1>2, <1>4, <1>5, <1>7, <2>1 DEF ServeSearch
<1>8. CASE ServeUi
  <2>1. request.route \notin SyncRoutes
    BY <1>8 DEF ServeUi, Serving, SyncRoutes
  <2> QED BY <1>2, <1>4, <1>8, <2>1 DEF ServeUi
<1>9. CASE ServeDetail
  <2>1. request.route \notin SyncRoutes
    BY <1>9 DEF ServeDetail, Serving, SyncRoutes
  <2>2. CASE Respond(404, "not_found")
    BY <1>3, <2>2
  <2>3. CASE Respond(200, "none")
    BY <1>4, <2>1, <2>3
  <2>4. CASE StatementFails(FALSE)
    BY <1>2, <2>4
  <2> QED BY <1>9, <2>2, <2>3, <2>4 DEF ServeDetail
<1>10. CASE ServeSync
  <2>1. request.route \in SyncRoutes
    BY <1>10 DEF ServeSync, Serving, SyncRoutes
  <2>2. (IF request.route = "sync" THEN 202 ELSE 303) \in {202, 303, 503}
    OBVIOUS
  <2>3. 503 \in {202, 303, 503}
    OBVIOUS
  <2>4. CASE Respond(404, "not_found")
    BY <1>3, <2>4
  <2>5. CASE Respond(IF request.route = "sync" THEN 202 ELSE 303, "none")
    BY <1>6, <2>1, <2>2, <2>5
  <2>6. CASE Respond(503, "sync_queue_unavailable")
    BY <1>6, <2>1, <2>3, <2>6
  <2>7. CASE StatementFails(FALSE)
    BY <1>2, <2>7
  <2> QED BY <1>10, <2>4, <2>5, <2>6, <2>7 DEF ServeSync
<1> QED BY <1>7, <1>8, <1>9, <1>10

\* The verdict of /health: each part of it was found true at its moment.
LEMMA CheckRedisKeeps == ASSUME IInv, CheckRedis PROVE IInv'
<1>1. /\ pc = "check_redis" /\ checked' = checked \cup (up \cap {"redis"})
      /\ UNCHANGED <<settings, up, wasUp, wasDown, request>>
  BY DEF CheckRedis
<1>2. /\ "database" \in checked' => {"database", "pool"} \subseteq wasUp
      /\ "database" \notin checked' => {"database", "pool"} \cap wasDown # {}
      /\ "redis" \in checked' => "redis" \in wasUp
      /\ "redis" \notin checked' => "redis" \in wasDown
  BY <1>1 DEF IInv, Remembers, FirstCheck, Services
<1>3. request.route = "health"
  BY <1>1 DEF IInv, OnRoute
<1>4. /\ pc' = "receive"
      /\ response'.status = IF Healthy(checked') THEN 200 ELSE 503
  BY DEF CheckRedis, Respond
<1>5. HealthIsHonest'
  BY <1>1, <1>2, <1>4 DEF HealthIsHonest, Healthy
<1>6. RedisIsOptional'
  <2> SUFFICES ASSUME OnlyRedisMissing'
               PROVE  /\ "redis" \notin checked'
                      /\ response'.status = IF settings.requireRedis THEN 503 ELSE 200
    BY <1>1, <1>3 DEF RedisIsOptional, SyncRoutes
  <2>1. "redis" \notin checked' /\ "database" \in checked'
    BY <1>1, <1>2 DEF OnlyRedisMissing
  <2> QED BY <1>4, <2>1 DEF Healthy
<1> QED BY <1>1, <1>4, <1>5, <1>6 DEF IInv, Remembers, OnRoute, FirstCheck

LEMMA NextIInv == IInv /\ [Next]_vars => IInv'
<1> SUFFICES ASSUME IInv, [Next]_vars PROVE IInv'
  OBVIOUS
<1>1. CASE UNCHANGED vars
  BY <1>1 DEF vars, IInv, Remembers, OnRoute, FirstCheck, HealthIsHonest, RedisIsOptional,
             OnlyRedisMissing, Answered
<1> QED BY <1>1, ReceiveKeeps, OutageKeeps, CheckDatabaseKeeps, LimitKeeps, ValidateKeeps,
           ServeKeeps, CheckRedisKeeps DEF Next

LEMMA Invariance == Spec => []IInv
BY InitIInv, NextIInv, PTL DEF Spec

\* /health looks at the database and at Redis at two moments, and services and
\* free connections come and go between them: 200 still means that each of what
\* is required was there during the request, 503 that one was not, which may be
\* no more than a free connection.
THEOREM HealthTellsTheTruth == Spec => []HealthIsHonest
<1>1. IInv => HealthIsHonest
  BY DEF IInv
<1> QED BY <1>1, Invariance, PTL

\* When nothing but Redis is missing, and that for the whole request, syncs may
\* be refused with 503 and nothing else is; nobody is answered 429 or 500, and
\* /health reports it, with 503 exactly if Redis is required.
THEOREM RedisRefusesOnlySyncs == Spec => []RedisIsOptional
<1>1. IInv => RedisIsOptional
  BY DEF IInv
<1> QED BY <1>1, Invariance, PTL
=============================================================================
