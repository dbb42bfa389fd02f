------------------------------- MODULE Admission -------------------------------
(***************************************************************************)
(* What stands before the handlers on the two routes of cmd/server/main.go *)
(* (lines 114-123): POST /v1/chat/completions passes APIKeyAuth            *)
(* (internal/middleware/auth.go) and then RateLimit, POST /v1/embeddings   *)
(* passes APIKeyAuth only.  APIKeyAuth looks keys up in Redis, where no    *)
(* code of the gateway writes them.                                        *)
(***************************************************************************)
EXTENDS RateLimit, Errors

CONSTANTS Keys,   \* API keys, known by their hashes
          NoKey   \* no Authorization header, or no bearer token in it

ASSUME KeysAssumption == NoKey \notin Keys

VARIABLES redis,        \* whether there is a Redis client; none only in debug mode
          provisioned,  \* the keys with a hash api_key:... in Redis
          asking        \* locals of each request on its way to its handler

auth == <<redis, provisioned, asking>>
admission == <<vars, limits, auth>>

\* status is that of a refusal.  seen and spent are a history: whether its key was
\* in Redis while the request was before APIKeyAuth, and the tokens it was given.
NotAsking == [stage |-> "idle", route |-> "chat", key |-> NoKey, status |-> 0,
              seen |-> FALSE, spent |-> 0]

AdmissionInit == /\ LimitInit
                 /\ redis \in BOOLEAN
                 /\ provisioned \in SUBSET Keys
                 /\ asking = [r \in Requests |-> NotAsking]

Abort(r, e) == asking' = [asking EXCEPT ![r].stage = "refused",
                                        ![r].status = HTTPStatus(e)]

\* Faulty variant: the limiter comes first, so that strangers meet it, too.
FollowingSwapped(stage, route) ==
    CASE stage = "idle"  -> IF route = "chat" THEN "limit" ELSE "auth"
      [] stage = "limit" -> "auth"
      [] stage = "auth"  -> "handler"

\* The order of a route's handlers.
Following(stage, route) ==
    CASE stage = "idle"  -> "auth"
      [] stage = "auth"  -> IF route = "chat" THEN "limit" ELSE "handler"
      [] stage = "limit" -> "handler"

Arrive(r, route, k) ==
    /\ asking[r].stage = "idle"
    /\ asking' = [asking EXCEPT ![r] =
                    [NotAsking EXCEPT !.stage = Following("idle", route), !.route = route,
                                      !.key = k, !.seen = k \in provisioned]]
    /\ UNCHANGED <<vars, limits, redis, provisioned>>

Proceed(r, tokens) ==
    asking' = [asking EXCEPT ![r].stage = Following(@, asking[r].route),
                             ![r].spent = @ + tokens]

\* Without a Redis client every request passes.
SkipAuth(r) == /\ asking[r].stage = "auth" /\ ~ redis
               /\ Proceed(r, 0)
               /\ UNCHANGED <<vars, limits, redis, provisioned>>

RefuseHeader(r) == /\ asking[r].stage = "auth" /\ redis /\ asking[r].key = NoKey
                   /\ \E e \in {MissingAPIKey, InvalidAPIKey} : Abort(r, e)
                   /\ UNCHANGED <<vars, limits, redis, provisioned>>

Found(r) == asking[r].key \in provisioned

LookUp(r) == /\ asking[r].stage = "auth" /\ redis /\ asking[r].key # NoKey
             /\ Found(r)
             /\ Proceed(r, 0)
             /\ UNCHANGED <<vars, limits, redis, provisioned>>

\* checkAPIKey: nothing found.
LookUpMisses(r) == /\ asking[r].stage = "auth" /\ redis /\ asking[r].key # NoKey
                   /\ ~ Found(r)
                   /\ Abort(r, InvalidAPIKey)
                   /\ UNCHANGED <<vars, limits, redis, provisioned>>

\* Faulty variant: a lookup that fails lets the request pass.
LookUpFailsOpen(r) == /\ asking[r].stage = "auth" /\ redis /\ asking[r].key # NoKey
                      /\ Proceed(r, 0)
                      /\ UNCHANGED <<vars, limits, redis, provisioned>>

\* checkAPIKey: an error of HGETALL counts as nothing found.
LookUpFails(r) == /\ asking[r].stage = "auth" /\ redis /\ asking[r].key # NoKey
                  /\ Abort(r, InvalidAPIKey)
                  /\ UNCHANGED <<vars, limits, redis, provisioned>>

\* RateLimit, for a request that has come to it.
Limit(r) ==
    /\ asking[r].stage = "limit"
    /\ \/ \E m \in Models : \/ EnterUnlimited(r, m) /\ UNCHANGED asking
                            \/ /\ PassModel(r, m)
                               /\ asking' = [asking EXCEPT ![r].spent = @ + 1]
                            \/ /\ RefuseModel(r, m)
                               /\ Abort(r, RateLimitExceeded)
       \/ PassGlobal(r) /\ Proceed(r, 1)
       \/ RefuseGlobal(r) /\ Abort(r, RateLimitExceeded)
    /\ UNCHANGED <<redis, provisioned>>

\* A request is refused, or served by its handler.
Leave(r) == /\ asking[r].stage \in {"refused", "handler"}
            /\ asking' = [asking EXCEPT ![r] = NotAsking]
            /\ UNCHANGED <<vars, limits, redis, provisioned>>

\* Keys come into Redis, and go, from outside the gateway.
Provide(keys) ==
    /\ provisioned' = keys
    /\ asking' = [r \in Requests |->
                    IF asking[r].stage # "auth" THEN asking[r]
                    ELSE [asking[r] EXCEPT !.seen = @ \/ asking[r].key \in keys]]
    /\ UNCHANGED <<vars, limits, redis>>

AdmissionStep(r) ==
    \/ \E route \in {"chat", "embeddings"}, k \in Keys \cup {NoKey} : Arrive(r, route, k)
    \/ SkipAuth(r) \/ RefuseHeader(r) \/ LookUp(r) \/ LookUpMisses(r) \/ LookUpFails(r)
    \/ Limit(r) \/ Leave(r)

AdmissionNext == \/ Passing /\ UNCHANGED auth
                 \/ \E keys \in SUBSET Keys : Provide(keys)
                 \/ \E r \in Requests : AdmissionStep(r)

AdmissionSpec == AdmissionInit /\ [][AdmissionNext]_admission
-------------------------------------------------------------------------------
\* A request costs the limiters what became of it: nothing when APIKeyAuth refused
\* it or it is for embeddings, a token of the global limiter and one of its model's
\* when it is served, and never more than its model's token when it gets 429
\* (main.go:114-123, ratelimit.go:110-124).
SpendingExplained ==
    \A r \in Requests : LET a == asking[r] IN
        /\ a.stage = "refused" =>
             \/ a.status = 401 /\ a.spent = 0
             \/ a.status = 429 /\ a.route = "chat" /\ a.spent <= 1
        /\ a.stage = "handler" => a.spent \in IF a.route = "chat" THEN {1, 2} ELSE {0}

\* auth.go:73-75: with Redis there, a request that reaches its handler had a key
\* that was in Redis while APIKeyAuth looked: a key withdrawn from Redis, or a
\* failing Redis, admits no request that comes later.  Without, nobody gets 401.
AuthExplained ==
    \A r \in Requests : LET a == asking[r] IN
        /\ redis /\ a.stage = "handler" => a.seen
        /\ a.stage = "refused" /\ a.status = 401 => redis
=================================================================================
