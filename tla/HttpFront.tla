----------------------------- MODULE HttpFront -----------------------------
(***************************************************************************)
(* The way of a request through the application: the correlation-id        *)
(* middleware, the rate limit, the validation of its parameters, the       *)
(* endpoint, and the exception handlers, while PostgreSQL and Redis come   *)
(* and go, and so do the free connections of the pool, which the requests  *)
(* share: a search keeps its connection while it waits for the providers.  *)
(* One request is followed at a time; what others do to it is that one of  *)
(* the three goes.  What the endpoints do is the matter of the other       *)
(* modules; here it is which of their outcomes reach the client and how.   *)
(***************************************************************************)
EXTENDS Naturals

VARIABLES
  settings,    \* configured: some provider has a token; requireRedis
  up,          \* which services answer
  wasUp,       \* history: which of them did at some time of this request
  wasDown,     \* history: and which did not
  pc, request,
  checked,     \* what /health has found to be ok
  response

vars == <<settings, up, wasUp, wasDown, pc, request, checked, response>>

-----------------------------------------------------------------------------
\* pool: the pool of SQLAlchemy has a connection to give, before its time-out.
Services == {"database", "pool", "redis"}

\* What a statement needs.
Reachable == {"database", "pool"} \subseteq up

Searches == {"search", "ui"}
SyncRoutes == {"sync", "ui_sync"}
Routes   == Searches \cup SyncRoutes \cup {"entity", "job", "health"}

\* The parameters, as far as their validation tells them apart: those of a
\* query string, and those of a path.
Query ==
  [q : {"none", "empty", "text"}, kind : {"none", "empty", "listed", "other"},
   limit : {"none", "empty", "zero", "positive"}]

Path == [kind : {"listed", "other"}, id : {"number", "text"}]

\* What the search form of the page can submit: the query is required, the kind
\* is one of the options, the limit is a number from 1 on or is left empty.
SearchForm ==
  [q : {"text"}, kind : {"empty", "listed"}, limit : {"empty", "positive"}]

\* by is who sends it: a form of a page of this program, or anybody.
Request ==
  [route : Searches, by : {"client"}, with : Query]
    \cup [route : Routes \ Searches, by : {"client"}, with : Path]
    \cup [route : {"ui"}, by : {"form"}, with : SearchForm]
    \cup [route : {"ui_sync"}, by : {"form"}, with : [kind : {"listed"}, id : {"number"}]]

\* failed is history: a statement failed that had reached the database.
NoResponse == [status |-> 0, code |-> "none", failed |-> FALSE]

Init ==
  /\ settings \in [configured : BOOLEAN, requireRedis : BOOLEAN]
  /\ up \in SUBSET Services
  /\ wasUp = {} /\ wasDown = {}
  /\ pc = "receive" /\ request = <<>> /\ checked = {}
  /\ response = NoResponse

\* Mutants, here and below, are definitions changed as a plausible bug would.
-----------------------------------------------------------------------------
(* Responses *)

\* A response, or an exception that a handler of the application turns into one.
Respond(status, code) ==
  /\ response' = [status |-> status, code |-> code, failed |-> FALSE]
  /\ pc' = "receive"

\* Any other exception passes the middleware; the handler that answers it is
\* outside.
RespondUnexpected(failed) ==
  /\ response' = [status |-> 500, code |-> "internal_server_error", failed |-> failed]
  /\ pc' = "receive"

Receive ==
  /\ pc = "receive"
  /\ request' \in Request
  /\ pc' = IF request'.route \in Searches \cup SyncRoutes THEN "limit" ELSE "validate"
  /\ wasUp' = up /\ wasDown' = Services \ up
  /\ checked' = {} /\ response' = NoResponse
  /\ UNCHANGED <<settings, up>>

\* Mutant: the limiter lets the error of Redis out.
MutLimit ==
  /\ pc = "limit"
  /\ \/ "redis" \in up /\ pc' = "validate" /\ UNCHANGED response
     \/ "redis" \in up /\ Respond(429, "rate_limit_exceeded")
     \/ "redis" \notin up /\ RespondUnexpected(FALSE)
  /\ UNCHANGED <<settings, up, wasUp, wasDown, request, checked>>

\* RateLimiter decides before anything is validated; without Redis it lets
\* everybody through.
Limit ==
  /\ pc = "limit"
  /\ \/ pc' = "validate" /\ UNCHANGED response
     \/ "redis" \in up /\ Respond(429, "rate_limit_exceeded")
  /\ UNCHANGED <<settings, up, wasUp, wasDown, request, checked>>

QueryValid(p) ==
  /\ p.kind \in {"none", "listed"}
  /\ p.limit \in {"none", "positive"}

Valid(route, p) ==
  CASE route = "search"  -> p.q = "text" /\ QueryValid(p)
    [] route = "ui"      -> p.q \in {"none", "text"} /\ QueryValid(p)
    [] route = "sync"    -> p.kind = "listed" /\ p.id = "number"
    [] route = "ui_sync" -> p.id = "number"
    [] route = "entity"  -> p.id = "number"
    [] OTHER             -> TRUE

Validate ==
  /\ pc = "validate"
  /\ \/ /\ ~ Valid(request.route, request.with)
        /\ Respond(422, "validation_error")
     \/ /\ Valid(request.route, request.with)
        /\ pc' = IF request.route = "health" THEN "check_database" ELSE "serve"
        /\ UNCHANGED response
  /\ UNCHANGED <<settings, up, wasUp, wasDown, request, checked>>

-----------------------------------------------------------------------------
(* The endpoints *)

Serving(route) == pc = "serve" /\ request.route = route

\* The form alone, or with the notice that there are no providers: the cache
\* is not asked.
UiFormOnly == request.with.q = "none" \/ ~ settings.configured

\* The database does not answer or the pool has no connection, or a statement
\* fails (Linking, SearchCache).
StatementFails(may) ==
  \/ ~ Reachable /\ RespondUnexpected(FALSE)
  \/ Reachable /\ may /\ RespondUnexpected(TRUE)

ServeSearch ==
  /\ Serving("search")
  /\ \/ Reachable /\ Respond(200, "none")
     \/ /\ Reachable /\ ~ settings.configured
        /\ Respond(503, "search_providers_unavailable")
     \/ StatementFails(settings.configured)
  /\ UNCHANGED <<settings, up, wasUp, wasDown, request, checked>>

ServeUi ==
  /\ Serving("ui")
  /\ \/ (UiFormOnly \/ Reachable) /\ Respond(200, "none")
     \/ ~ UiFormOnly /\ StatementFails(TRUE)
  /\ UNCHANGED <<settings, up, wasUp, wasDown, request, checked>>

\* A page or its JSON: of an entity, of a job.
ServeDetail ==
  /\ Serving("entity") \/ Serving("job")
  /\ \/ Reachable /\ (Respond(200, "none") \/ Respond(404, "not_found"))
     \/ StatementFails(FALSE)
  /\ UNCHANGED <<settings, up, wasUp, wasDown, request, checked>>

\* The page's route takes any kind, and enqueue finds that there is no such.
\* A job that is there already is answered without Redis.
ServeSync ==
  /\ Serving("sync") \/ Serving("ui_sync")
  /\ \/ Respond(404, "not_found") /\ (request.with.kind # "listed" \/ Reachable)
     \/ /\ request.with.kind = "listed" /\ Reachable
        /\ \/ Respond(IF request.route = "sync" THEN 202 ELSE 303, "none")
           \/ "redis" \notin up /\ Respond(503, "sync_queue_unavailable")
     \/ request.with.kind = "listed" /\ StatementFails(FALSE)
  /\ UNCHANGED <<settings, up, wasUp, wasDown, request, checked>>

\* Any error of SQLAlchemy counts, that of an exhausted pool too.
CheckDatabase ==
  /\ pc = "check_database"
  /\ checked' = IF Reachable THEN {"database"} ELSE {}
  /\ pc' = "check_redis"
  /\ UNCHANGED <<settings, up, wasUp, wasDown, request, response>>

\* Mutant: Redis decides alone when it is required.
MutHealthy(found) == IF settings.requireRedis THEN "redis" \in found ELSE "database" \in found

Healthy(found) == "database" \in found /\ ("redis" \in found \/ ~ settings.requireRedis)

CheckRedis ==
  /\ pc = "check_redis"
  /\ checked' = checked \cup (up \cap {"redis"})
  /\ IF Healthy(checked') THEN Respond(200, "none") ELSE Respond(503, "none")
  /\ UNCHANGED <<settings, up, wasUp, wasDown, request>>

\* A service goes or comes back; other requests take the last connection of the
\* pool, or return one.
Outage ==
  /\ \E s \in Services : up' \in {up \cup {s}, up \ {s}} \ {up}
  /\ wasUp' = wasUp \cup up' /\ wasDown' = wasDown \cup (Services \ up')
  /\ pc # "receive"
  /\ UNCHANGED <<settings, pc, request, checked, response>>

Next ==
  \/ Receive \/ Limit \/ Validate
  \/ ServeSearch \/ ServeUi \/ ServeDetail \/ ServeSync
  \/ CheckDatabase \/ CheckRedis
  \/ Outage

Spec == Init /\ [][Next]_vars

-----------------------------------------------------------------------------
(* Properties *)

Answered == response # NoResponse

\* /health answers 200 or 503.  Whoever reads 200 knows that what is required,
\* a free connection included, was there at some time of the request, and
\* whoever reads 503 that some of it was not, be it only the connection,
\* although the two checks see two moments.
HealthIsHonest ==
  Answered /\ request.route = "health" =>
    LET required == {"database", "pool"}
                      \cup (IF settings.requireRedis THEN {"redis"} ELSE {}) IN
    /\ response.status \in {200, 503}
    /\ response.status = 200 => required \subseteq wasUp
    /\ response.status = 503 => required \cap wasDown # {}

\* Nothing but Redis was missing, and that for the whole of the request.
OnlyRedisMissing ==
  /\ settings.configured /\ ~ response.failed
  /\ "redis" \notin wasUp /\ wasDown \subseteq {"redis"}

\* Redis is a comfort: an outage of Redis alone is no error (500) and no limit
\* (429) to anybody, and refuses (503) nothing but syncs; /health reports it,
\* and fails by it exactly when the settings require Redis.
RedisIsOptional ==
  Answered /\ OnlyRedisMissing =>
    CASE request.route \in SyncRoutes -> response.status \in {202, 303, 404, 422, 503}
      [] request.route = "health" ->
           /\ "redis" \notin checked
           /\ response.status = IF settings.requireRedis THEN 503 ELSE 200
      [] OTHER -> response.status \in {200, 404, 422}

\* What a page of the program offers to submit, the program takes.
OfferedIsAccepted == Answered /\ request.by = "form" => response.status # 422
=============================================================================
