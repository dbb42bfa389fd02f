----------------------------- MODULE ChatCompletion -----------------------------
(***************************************************************************)
(* The chat handler of internal/handler/chat.go: concurrent requests that  *)
(* share the exact cache (L1), the semantic cache (L2), the embedding      *)
(* worker and the providers.  The parts have modules of their own; here    *)
(* each may answer or fail at any call.  A lookup that misses stands for   *)
(* an entry that was never stored, has expired, was evicted or could not   *)
(* be read, so the caches only forget by missing.                          *)
(***************************************************************************)
EXTENDS Errors, FiniteSets, Functions

CONSTANTS Requests,   \* goroutines, each serving one request after the other
          Models, Steps,
          Prompts,    \* messages together with the sampling parameters
          Meaning,    \* vector of a prompt's messages: equal when L2 finds them
                      \* similar enough
          Policy,     \* Workflow.RoutePolicies: from some Steps to Models
          Chain,      \* the models that may answer for a model: itself, fallbacks
          Questions,  \* the requests that clients send
          Upstream,   \* the registry's UpstreamErrors: a status, and whether the
                      \* message says that every circuit is open
          Tokens,     \* usage.total_tokens of providers' answers
          MaxRequests, \* bound on the number of requests
          None

Keys == Models \X Prompts

\* What a provider answered, with the key it was asked for and its usage.
Replies == [asked : Keys, by : Models, tokens : Tokens]

ASSUME ChatAssumption ==
    /\ Policy \in [DOMAIN Policy -> Models] /\ DOMAIN Policy \subseteq Steps
    /\ DOMAIN Meaning = Prompts /\ None \notin Range(Meaning)
    /\ None \notin Models \cup Prompts \cup Replies
    /\ \A m \in Models : m \in Chain[m] /\ Chain[m] \subseteq Models
    /\ \A q \in Questions : /\ q.model \in Models \cup {None}
                            /\ q.step \in Steps \cup {None}
                            /\ q.prompt \in Prompts \cup {None}
    /\ \A e \in Upstream : e.status \in Nat /\ e.open \in BOOLEAN
    /\ Tokens \subseteq Nat /\ MaxRequests \in Nat

Sources == {"cache_l1", "cache_l2", "provider"}
Origins == {"cache", "provider"}

\* What the recorder is told of one request.
Records == [status : Nat, code : ErrorCodes \cup {None}, cacheHit : BOOLEAN,
            model : Models \cup {None}, tokens : Nat]

ASSUME NoneAssumption == None \notin Nat \cup ErrorCodes \cup Sources \cup Records

ASSUME RequestsAssumption == IsFiniteSet(Requests)

VARIABLES enabled,   \* cfg.Cache.Enabled, with Redis there
          l1,        \* from the keys stored to replies
          l2,        \* from the keys stored to replies, as the VectorEntry
          req,       \* locals of each request
          received,  \* requests so far
          given,     \* history: tokens of the answers that requests got, by
                     \* origin
          counted    \* history: tokens recorded with cacheHit, and without

vars == <<enabled, l1, l2, req, received, given, counted>>
caches == <<enabled, l1, l2>>
totals == <<given, counted>>

\* model is req.Model after the policy; sent and record are what the client and
\* the statistics got: nothing, or one status and the details recorded.
NoRequest == [stage |-> "idle", requested |-> None, model |-> None,
              prompt |-> None, vector |-> None, reply |-> None, source |-> None,
              status |-> 200, code |-> None, sent |-> None, record |-> None]

Stages == {"idle", "l1", "l2", "search", "forward", "setL1", "setL2", "store",
           "reply", "record", "recover", "done"}

\* The stages of the handler and what its locals hold.
TypeOK ==
    /\ enabled \in BOOLEAN
    /\ DOMAIN l1 \subseteq Keys /\ Range(l1) \subseteq Replies
    /\ DOMAIN l2 \subseteq Keys /\ Range(l2) \subseteq Replies
    /\ \A r \in Requests :
         /\ req[r].stage \in Stages
         /\ req[r].source \in Sources \cup {None}
         /\ req[r].reply \in Replies \cup {None}
         /\ req[r].stage \in {"search", "store"} => req[r].vector # None
         /\ req[r].stage \in {"setL1", "setL2", "store"} => req[r].source = "provider"
    /\ received \in 0..MaxRequests
    /\ given \in [Origins -> Nat] /\ counted \in [Origins -> Nat]

Init == /\ enabled \in BOOLEAN
        /\ l1 = [k \in {} |-> None]
        /\ l2 = [k \in {} |-> None]
        /\ req = [r \in Requests |-> NoRequest]
        /\ received = 0
        /\ given = [origin \in Origins |-> 0]
        /\ counted = [origin \in Origins |-> 0]

At(r, stage) == req[r].stage = stage
With(f, k, v) == [x \in DOMAIN f \cup {k} |-> IF x = k THEN v ELSE f[x]]

\* applyWorkflowRoutePolicy: the model that a step's policy names, if there is one.
RoutedModel(q) == IF q.step \in DOMAIN Policy THEN Policy[q.step] ELSE q.model

\* validateChatRequest, after the policy; no prompt stands for unacceptable
\* messages or parameters.
Valid(q) == RoutedModel(q) # None /\ q.prompt # None

\* Faulty variant: the key is made with the model that the client asked for.
KeyOfRequested(r) == <<req[r].requested, req[r].prompt>>

\* GenerateCacheKey.
Key(r) == <<req[r].model, req[r].prompt>>

Receive(r, q) ==
    /\ At(r, "idle") /\ received < MaxRequests
    /\ req' = [req EXCEPT ![r] =
                 [NoRequest EXCEPT !.requested = q.model, !.model = RoutedModel(q),
                                   !.prompt = q.prompt,
                                   !.stage = IF Valid(q) THEN "l1" ELSE "reply",
                                   !.status = IF Valid(q) THEN 200 ELSE 400,
                                   !.code = IF Valid(q) THEN None ELSE "invalid_request"]]
    /\ received' = received + 1
    /\ UNCHANGED <<caches, totals>>

\* ShouldBindJSON fails.
ReceiveMalformed(r) ==
    /\ At(r, "idle") /\ received < MaxRequests
    /\ req' = [req EXCEPT ![r].stage = "reply", ![r].status = 400,
                          ![r].code = "invalid_request"]
    /\ received' = received + 1
    /\ UNCHANGED <<caches, totals>>

Move(r, stage) == req' = [req EXCEPT ![r].stage = stage]
Skip(r, from, to) == At(r, from) /\ Move(r, to) /\ UNCHANGED <<caches, received, totals>>

\* A cached answer goes straight to the client, with the usage stored in it.
Hit(r, reply, source) ==
    /\ req' = [req EXCEPT ![r].stage = "reply", ![r].reply = reply,
                          ![r].source = source]
    /\ given' = [given EXCEPT !["cache"] = @ + reply.tokens]
    /\ UNCHANGED <<caches, received, counted>>

L1Hit(r) == /\ At(r, "l1") /\ enabled /\ Key(r) \in DOMAIN l1
            /\ Hit(r, l1[Key(r)], "cache_l1")
L1Miss(r) == Skip(r, "l1", IF enabled THEN "l2" ELSE "forward")

\* fetchSemanticVector, before the lookup and once more before the store.
Embed(r, from, to) ==
    /\ At(r, from)
    /\ req' = [req EXCEPT ![r].stage = to, ![r].vector = Meaning[req[r].prompt]]
    /\ UNCHANGED <<caches, received, totals>>

\* The worker is not healthy, or was not when last asked, or does not answer.
L2Skip(r) == Skip(r, "l2", "forward")
L2Embed(r) == Embed(r, "l2", "search")

\* Search: the entries for the model that are similar enough.
Similar(r) == {k \in DOMAIN l2 : k[1] = req[r].model /\ Meaning[k[2]] = req[r].vector}

L2Hit(r) == /\ At(r, "search")
            /\ \E k \in Similar(r) : Hit(r, l2[k], "cache_l2")
L2Miss(r) == Skip(r, "search", "forward")

\* forwardToProvider: the model itself or one of its fallbacks answers.
Answered(r, m, n) ==
    /\ At(r, "forward") /\ m \in Chain[req[r].model]
    /\ req' = [req EXCEPT ![r].reply = [asked |-> <<req[r].model, req[r].prompt>>,
                                        by |-> m, tokens |-> n],
                          ![r].source = "provider",
                          ![r].stage = IF enabled THEN "setL1" ELSE "reply"]
    /\ given' = [given EXCEPT !["provider"] = @ + n]
    /\ UNCHANGED <<caches, received, counted>>

mapUpstreamError(e) ==
    CASE e.status = 400 -> InvalidRequest
      [] e.status = 401 -> InvalidAPIKey
      [] e.status = 403 -> KeyDisabled
      [] e.status = 429 -> RateLimitExceeded
      [] e.status = 502 -> BadGateway
      [] e.status = 503 -> IF e.open THEN CircuitOpen ELSE ModelOverloaded
      [] e.status = 504 -> ServiceUnavailable
      [] OTHER -> IF e.status >= 500 THEN ProviderError ELSE InternalError

\* Faulty variant: the error goes to the client but not into statusCode.
RefusedUnnoted(r, e) ==
    /\ At(r, "forward")
    /\ req' = [req EXCEPT ![r].stage = "record",
                          ![r].sent = HTTPStatus(mapUpstreamError(e))]
    /\ UNCHANGED <<caches, received, totals>>

Refused(r, e) ==
    /\ At(r, "forward")
    /\ LET mapped == mapUpstreamError(e)
       IN  req' = [req EXCEPT ![r].stage = "reply", ![r].status = HTTPStatus(mapped),
                              ![r].code = mapped.code]
    /\ UNCHANGED <<caches, received, totals>>

SetL1(r) == /\ At(r, "setL1")
            /\ l1' = With(l1, Key(r), req[r].reply)
            /\ Move(r, IF req[r].vector = None THEN "setL2" ELSE "store")
            /\ UNCHANGED <<enabled, l2, received, totals>>
SetL1Fails(r) == Skip(r, "setL1", IF req[r].vector = None THEN "setL2" ELSE "store")

\* The second attempt at a vector.
EmbedAgain(r) == Embed(r, "setL2", "store")
SkipStore(r) == Skip(r, "setL2", "reply")

StoreL2(r) == /\ At(r, "store")
              /\ l2' = With(l2, Key(r), req[r].reply)
              /\ Move(r, "reply")
              /\ UNCHANGED <<enabled, l1, received, totals>>
StoreFails(r) == Skip(r, "store", "reply")

\* l2.go:217 indexes past the entries it could read: the deferred recorder runs,
\* then Recovery answers.
StorePanics(r) == DOMAIN l2 # {} /\ Skip(r, "store", "record")

Reply(r) ==
    /\ At(r, "reply")
    /\ req' = [req EXCEPT ![r].sent = req[r].status, ![r].stage = "record"]
    /\ UNCHANGED <<caches, received, totals>>

\* Faulty variant: an answer from L2 is recorded as a miss.
CacheHitL1Only(r) == req[r].source = "cache_l1"

CacheHit(r) == req[r].source \in {"cache_l1", "cache_l2"}

\* The locals that say who answered, and with which usage.
RecordedModel(q) == IF q.reply = None THEN q.model ELSE q.reply.by
TotalTokens(q) == IF q.reply = None THEN 0 ELSE q.reply.tokens

\* The deferred function records the locals as they are.
Record(r) ==
    /\ At(r, "record")
    /\ req' = [req EXCEPT
                 ![r].record = [status |-> req[r].status, code |-> req[r].code,
                                cacheHit |-> CacheHit(r),
                                model |-> RecordedModel(req[r]),
                                tokens |-> TotalTokens(req[r])],
                 ![r].stage = IF req[r].sent = None THEN "recover" ELSE "done"]
    /\ LET origin == IF CacheHit(r) THEN "cache" ELSE "provider"
       IN  counted' = [counted EXCEPT ![origin] = @ + TotalTokens(req[r])]
    /\ UNCHANGED <<caches, received, given>>

StatusInternalServerError == 500

Recover(r) ==
    /\ At(r, "recover")
    /\ req' = [req EXCEPT ![r].sent = StatusInternalServerError, ![r].stage = "done"]
    /\ UNCHANGED <<caches, received, totals>>

Finish(r) == /\ At(r, "done")
             /\ req' = [req EXCEPT ![r] = NoRequest]
             /\ UNCHANGED <<caches, received, totals>>

Progress(r) ==
    \/ L1Hit(r) \/ L1Miss(r) \/ L2Skip(r) \/ L2Embed(r) \/ L2Hit(r) \/ L2Miss(r)
    \/ \E m \in Models, n \in Tokens : Answered(r, m, n)
    \/ \E e \in Upstream : Refused(r, e)
    \/ SetL1(r) \/ SetL1Fails(r) \/ EmbedAgain(r) \/ SkipStore(r)
    \/ StoreL2(r) \/ StoreFails(r) \/ StorePanics(r)
    \/ Reply(r) \/ Record(r) \/ Recover(r) \/ Finish(r)

Next == \E r \in Requests : \/ Progress(r) \/ ReceiveMalformed(r)
                            \/ \E q \in Questions : Receive(r, q)

Spec == Init /\ [][Next]_vars
-------------------------------------------------------------------------------
\* docs/SPEC.md, "L1 exact cache" and "L2 semantic cache": whatever other
\* requests store meanwhile, an answer was given for the model that the request
\* is routed to, by that model or a fallback of it, and for the same prompt or,
\* from L2 only, for one of the same meaning (chat.go:134-199).
AnswerMatches ==
    \A r \in Requests : LET q == req[r] IN
        q.reply # None =>
            /\ q.reply.by \in Chain[q.model] /\ q.reply.asked[1] = q.model
            /\ IF q.source = "cache_l2"
               THEN Meaning[q.reply.asked[2]] = Meaning[q.prompt]
               ELSE q.reply.asked[2] = q.prompt

\* What the deferred recorder (chat.go:45-97) reports is what the client got,
\* with the model that answered and its usage, or the error code that
\* docs/SPEC.md:361-374 lists for the status; except that a panic after the
\* answer is recorded as the success it would have been.
RecordsMatch ==
    \A r \in Requests : LET q == req[r] IN
        At(r, "done") =>
            /\ \/ q.record.status = q.sent
               \/ q.sent = 500 /\ q.record.status = 200 /\ q.source = "provider"
            /\ q.record.status = 200 <=> q.reply # None
            /\ q.record.code = None <=> q.reply # None
            /\ q.record.code \in DOMAIN Documented
                 => q.sent = Documented[q.record.code]
            /\ q.record.cacheHit <=> q.source \in {"cache_l1", "cache_l2"}
            /\ q.record.tokens # 0 => q.reply # None
            /\ q.reply # None => /\ q.record.model = q.reply.by
                                 /\ q.record.tokens = q.reply.tokens

\* The tokens that a request with an answer of that origin is still to record.
Due(q, origin) ==
    IF /\ q.reply # None /\ q.record = None
       /\ q.source = "provider" <=> origin = "provider"
    THEN q.reply.tokens
    ELSE 0

\* One pair for each token that is still to be recorded.
Unrecorded(origin) == UNION {{r} \X (1..Due(req[r], origin)) : r \in Requests}

\* The tokens that the recorder reports as no cache hit are those the providers
\* spent, whatever panics or fails after an answer; a cached answer adds the
\* tokens of the call that filled the cache once more, each time it is used, as a
\* cache hit.  Either kind is recorded once for each answer given
\* (chat.go:62-69, 93-95, 145-150, 179-184, 221-223).
TokensCounted ==
    \A origin \in Origins :
        given[origin] = counted[origin] + Cardinality(Unrecorded(origin))
=================================================================================
