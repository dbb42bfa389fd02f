--------------------------- MODULE ProviderRegistry ---------------------------
(***************************************************************************)
(* provider/registry.go: concurrent requests, each walking its queue of    *)
(* routes with ChatCompletion.  A route is a circuit key                   *)
(* <<provider, model>>.  NewRegistry creates the breakers of the           *)
(* configured routes; ensureCircuit adds one, without a lock, for a route  *)
(* that has none.  A breaker is therefore named by its route and by who    *)
(* created it: Boot or the request that ran ensureCircuit.                 *)
(***************************************************************************)
EXTENDS Breaker, Routing

CONSTANTS Config,         \* cfg.Models
          Clients,        \* providers that have a client
          Requests,       \* slots: a slot serves one request after the other
          UpstreamErrors, \* errors the provider clients return
          HealthyRoutes,  \* assumption: routes whose calls succeed
          MaxLatency,     \* longest time from reading the clock to the report
          LastStart,      \* bound: no clock reading of a request after this time
          MaxClock,       \* bound: the clock stops here
          WatchedRoute,   \* the configured route of the refinement
          Boot, Nobody, NoError

ASSUME RegistryAssumption ==
          /\ IsConfig(Config)
          /\ MaxLatency \in Nat /\ LastStart \in Nat /\ MaxClock \in Nat
          /\ Boot \notin Requests /\ Nobody \notin Requests \cup {Boot}

VARIABLES clock,
          up,         \* the process is alive
          circuits, breaker,
          trippedAt,  \* history: when each breaker last reached its threshold
          abandoned,  \* history: failures of healthy routes, counted up to the
                      \* threshold
          req

vars == <<clock, up, circuits, breaker, trippedAt, abandoned, req>>

Queues == [m \in Models |-> RouteQueues(Config, m)]
Routes == UNION {UNION {ToSet(q) : q \in Queues[m]} : m \in Models}
Owners == Requests \cup {Boot}

\* client.Do fails when the request's context is cancelled (http_provider.go:86).
Cancelled == [status |-> 503, wrapped |-> TRUE]
\* provider client is not configured
NoClient == [status |-> 503, wrapped |-> FALSE]
Errors == UpstreamErrors \cup {Cancelled, NoClient}

ASSUME NoErrorAssumption == NoError \notin Errors

shouldTripCircuit(err) == err.wrapped \/ err.status \in {429, 500, 502, 503, 504}

\* Client request errors fail fast.  (Faulty variant: every 4xx does.)
FailFastOn4xx(err) == err.status >= 500
shouldFallback(err) == err.status # 400

Replies == [kind : {"none", "ok", "circuitOpen", "allFailed"}]
             \cup [kind : {"error"}, err : Errors]

Idle == [pc |-> "idle", queue |-> <<>>, pos |-> 1, at |-> 0, mine |-> Nobody,
         skipped |-> 0, lastErr |-> NoError, cancelled |-> FALSE,
         reply |-> [kind |-> "none"]]

\* Types of the registry's state and of the locals of ChatCompletion.
TypeOK ==
    /\ clock \in 0..MaxClock
    /\ up \in BOOLEAN
    /\ circuits \in [Routes -> Owners \cup {Nobody}]
    /\ breaker \in [Routes -> [Owners -> BreakerType]]
    /\ trippedAt \in [Routes -> [Owners -> Nat \cup {ZeroTime}]]
    /\ abandoned \in [HealthyRoutes -> 0..FailureThreshold]
    /\ \A r \in Requests :
         /\ req[r].pc \in {"idle", "routing", "creating", "asking", "calling"}
         /\ req[r].queue \in {<<>>} \cup UNION {Queues[m] : m \in Models}
         /\ req[r].pos \in 1..(Len(req[r].queue) + 1)
         /\ req[r].at \in 0..clock
         /\ req[r].mine \in Owners \cup {Nobody}
         /\ req[r].skipped \in 0..(req[r].pos - 1)
         /\ req[r].lastErr \in Errors \cup {NoError}
         /\ req[r].cancelled \in BOOLEAN
         /\ req[r].reply \in Replies

Init == /\ clock = 0
        /\ up = TRUE
        /\ circuits = [k \in Routes |->
                          IF k \in InitialCircuits(Config) THEN Boot ELSE Nobody]
        /\ breaker = [k \in Routes |-> [o \in Owners |-> NewCircuitBreaker]]
        /\ trippedAt = [k \in Routes |-> [o \in Owners |-> ZeroTime]]
        /\ abandoned = [k \in HealthyRoutes |-> 0]
        /\ req = [r \in Requests |-> Idle]
-------------------------------------------------------------------------------
More(r) == req[r].pos <= Len(req[r].queue)
Route(r) == req[r].queue[req[r].pos]
Mine(r) == breaker[Route(r)][req[r].mine]
Running(r, pc) == up /\ req[r].pc = pc

SetBreaker(r, b, tripped) ==
    /\ breaker' = [breaker EXCEPT ![Route(r)][req[r].mine] = b]
    /\ trippedAt' = [trippedAt EXCEPT ![Route(r)][req[r].mine] = tripped]

\* The request goes on to the candidate at pos, with these two locals.
GoTo(r, pos, skipped, lastErr) ==
    req' = [req EXCEPT ![r] = [@ EXCEPT !.pc = "routing", !.pos = pos, !.at = 0,
                                        !.mine = Nobody, !.skipped = skipped,
                                        !.lastErr = lastErr]]
NextCandidate(r, skipped, lastErr) == GoTo(r, req[r].pos + 1, skipped, lastErr)

\* Where the request goes from here with breaker owner's, at this reading.
Ask(r, owner) ==
    req' = [req EXCEPT ![r] = [@ EXCEPT !.pc = "asking", !.mine = owner, !.at = clock]]

Answer(r, reply) == req' = [req EXCEPT ![r] = [Idle EXCEPT !.reply = reply]]

Tick == /\ clock < MaxClock
        /\ \A r \in Requests :
             req[r].pc \in {"asking", "calling"} => clock - req[r].at < MaxLatency
        /\ clock' = clock + 1
        /\ UNCHANGED <<up, circuits, breaker, trippedAt, abandoned, req>>

Arrive(r) ==
    /\ Running(r, "idle")
    /\ clock <= LastStart
    /\ \E m \in Models : \E queue \in Queues[m] :
         req' = [req EXCEPT ![r] = [Idle EXCEPT !.pc = "routing", !.queue = queue]]
    /\ UNCHANGED <<clock, up, circuits, breaker, trippedAt, abandoned>>

\* The client goes away: its context is cancelled, the handler runs on.
Disconnect(r) ==
    /\ up /\ req[r].pc # "idle"
    /\ ~ req[r].cancelled
    /\ req' = [req EXCEPT ![r].cancelled = TRUE]
    /\ UNCHANGED <<clock, up, circuits, breaker, trippedAt, abandoned>>

\* Faulty variant: a missing client counts as an open breaker.
SkipNoClientCounted(r) ==
    /\ Running(r, "routing") /\ More(r)
    /\ Route(r)[1] \notin Clients
    /\ NextCandidate(r, req[r].skipped + 1, req[r].lastErr)
    /\ UNCHANGED <<clock, up, circuits, breaker, trippedAt, abandoned>>

SkipNoClient(r) ==
    /\ Running(r, "routing") /\ More(r)
    /\ Route(r)[1] \notin Clients
    /\ NextCandidate(r, req[r].skipped, NoClient)
    /\ UNCHANGED <<clock, up, circuits, breaker, trippedAt, abandoned>>

\* Faulty variant: ensureCircuit does not look.
LookupMisses(r) ==
    /\ Running(r, "routing") /\ More(r)
    /\ Route(r)[1] \in Clients
    /\ req' = [req EXCEPT ![r].pc = "creating"]
    /\ UNCHANGED <<clock, up, circuits, breaker, trippedAt, abandoned>>

\* ensureCircuit looks the route up, and the request reads the clock.
Lookup(r) ==
    /\ Running(r, "routing") /\ More(r)
    /\ Route(r)[1] \in Clients
    /\ IF circuits[Route(r)] # Nobody
       THEN Ask(r, circuits[Route(r)])
       ELSE req' = [req EXCEPT ![r].pc = "creating"]
    /\ UNCHANGED <<clock, up, circuits, breaker, trippedAt, abandoned>>

\* ensureCircuit stores a new breaker, whatever the map holds by now.
Create(r) ==
    /\ Running(r, "creating")
    /\ circuits' = [circuits EXCEPT ![Route(r)] = r]
    /\ Ask(r, r)
    /\ UNCHANGED <<clock, up, breaker, trippedAt, abandoned>>

\* Two goroutines use the map at once, one of them writing: the runtime may
\* notice and kill the process, with every request that is under way.
MapFault(r) ==
    /\ Running(r, "creating")
    /\ \E s \in Requests \ {r} :
         \/ Running(s, "creating")
         \/ Running(s, "routing") /\ More(s) /\ Route(s)[1] \in Clients
    /\ up' = FALSE
    /\ UNCHANGED <<clock, circuits, breaker, trippedAt, abandoned, req>>

Admit(r) ==
    /\ Running(r, "asking")
    /\ Allow(Mine(r), req[r].at)
    /\ LET b == AfterAllow(Mine(r), req[r].at)
       IN  SetBreaker(r, b, IF b.openedAt = ZeroTime THEN ZeroTime
                            ELSE trippedAt[Route(r)][req[r].mine])
    /\ req' = [req EXCEPT ![r].pc = "calling"]
    /\ UNCHANGED <<clock, up, circuits, abandoned>>

\* Faulty variant: an open breaker counts twice.
SkipOpenTwice(r) ==
    /\ Running(r, "asking")
    /\ ~ Allow(Mine(r), req[r].at)
    /\ NextCandidate(r, req[r].skipped + 2, req[r].lastErr)
    /\ UNCHANGED <<clock, up, circuits, breaker, trippedAt, abandoned>>

SkipOpen(r) ==
    /\ Running(r, "asking")
    /\ ~ Allow(Mine(r), req[r].at)
    /\ NextCandidate(r, req[r].skipped + 1, req[r].lastErr)
    /\ UNCHANGED <<clock, up, circuits, breaker, trippedAt, abandoned>>

CallSucceeds(r) ==
    /\ Running(r, "calling")
    /\ ~ req[r].cancelled
    /\ SetBreaker(r, AfterSuccess(Mine(r)), ZeroTime)
    /\ Answer(r, [kind |-> "ok"])
    /\ UNCHANGED <<clock, up, circuits, abandoned>>

\* Faulty variant: an error that does not trip leaves the count as it is.
ReportKeepsCount(r, err) ==
    IF shouldTripCircuit(err)
    THEN SetBreaker(r, AfterFailure(Mine(r), req[r].at),
                    IF Mine(r).openedAt = ZeroTime THEN clock
                    ELSE trippedAt[Route(r)][req[r].mine])
    ELSE UNCHANGED <<breaker, trippedAt>>

Report(r, err) ==
    LET old == Mine(r)
        b == IF shouldTripCircuit(err) THEN AfterFailure(old, req[r].at)
                                       ELSE AfterSuccess(old)
    IN  SetBreaker(r, b, CASE b.openedAt = ZeroTime -> ZeroTime
                           [] old.openedAt = ZeroTime /\ b.openedAt # ZeroTime -> clock
                           [] OTHER -> trippedAt[Route(r)][req[r].mine])

\* A healthy route fails only calls whose client has gone away.
NoteFailure(r) ==
    abandoned' = [k \in HealthyRoutes |->
                    IF k = Route(r) /\ abandoned[k] < FailureThreshold
                    THEN abandoned[k] + 1 ELSE abandoned[k]]

CallFails(r) ==
    /\ Running(r, "calling")
    /\ \E err \in (IF req[r].cancelled THEN {Cancelled}
                   ELSE IF Route(r) \in HealthyRoutes THEN {} ELSE UpstreamErrors) :
         /\ Report(r, err)
         /\ NoteFailure(r)
         /\ IF shouldFallback(err) THEN NextCandidate(r, req[r].skipped, err)
                                   ELSE Answer(r, [kind |-> "error", err |-> err])
    /\ UNCHANGED <<clock, up, circuits>>

GiveUp(r) ==
    /\ Running(r, "routing") /\ ~ More(r)
    /\ Answer(r, IF req[r].skipped = Len(req[r].queue) THEN [kind |-> "circuitOpen"]
                 ELSE IF req[r].lastErr # NoError
                      THEN [kind |-> "error", err |-> req[r].lastErr]
                      ELSE [kind |-> "allFailed"])
    /\ UNCHANGED <<clock, up, circuits, breaker, trippedAt, abandoned>>

Step(r) == \/ SkipNoClient(r) \/ Lookup(r) \/ Create(r) \/ Admit(r) \/ SkipOpen(r)
           \/ CallSucceeds(r) \/ CallFails(r) \/ GiveUp(r)

Next == \/ Tick
        \/ \E r \in Requests : Arrive(r) \/ Disconnect(r) \/ MapFault(r) \/ Step(r)

Spec == Init /\ [][Next]_vars
-------------------------------------------------------------------------------
Consulting(r) == req[r].pc \in {"asking", "calling"}

\* A route has one breaker (README.md:44 "circuit breaker (per provider/model
\* route)"): requests on the same route consult and report to the same one.
OneBreakerPerRoute ==
    \A r, s \in Requests :
        Consulting(r) /\ Consulting(s) /\ Route(r) = Route(s)
        => req[r].mine = req[s].mine

\* What holds instead while requests create breakers for other routes, all in
\* one map and without a lock: everyone on a configured route consults and
\* reports to the breaker that NewRegistry made (registry.go:71, 277-285).
OneBreakerPerKnownRoute ==
    \A r \in Requests :
        Consulting(r) /\ Route(r) \in InitialCircuits(Config) => req[r].mine = Boot

\* A request that has a healthy route in its queue, as a candidate or as a
\* fallback, is answered by it: no interleaving with other requests, no state
\* of other breakers and no missing client turns into an error for the caller,
\* short of a 400 from an earlier candidate (docs/SPEC.md:129 automatic
\* switch-over).  It must not have hung up, and not as many calls may have been
\* abandoned on that route as trip a breaker (registry.go:145 counts them).
HealthyRouteServes ==
    [][\A r \in Requests :
          /\ req[r].pc # "idle" /\ req'[r].pc = "idle" /\ ~ req[r].cancelled
          /\ \E k \in ToSet(req[r].queue) \cap HealthyRoutes :
               abandoned[k] < FailureThreshold
          => \/ req'[r].reply.kind = "ok"
             \/ req'[r].reply.kind = "error" /\ req'[r].reply.err.status = 400]_vars

\* The error a caller gets says what happened (registry.go:151-165): "all
\* candidate routes are circuit-open" means that no call was made and no client
\* is missing, however the breakers changed while the queue was walked, and
\* "all routes failed" is never reached.
ReplyExplained ==
    [][\A r \in Requests : GiveUp(r) =>
          /\ req'[r].reply.kind # "allFailed"
          /\ req'[r].reply.kind = "circuitOpen" =>
                /\ \A i \in DOMAIN req[r].queue : req[r].queue[i][1] \in Clients
                /\ req[r].lastErr = NoError]_vars

\* A configured route's breaker, with the requests that are on that route as
\* its callers, is the breaker of module CircuitBreaker.
OnWatchedRoute(r) ==
    Consulting(r) /\ Route(r) = WatchedRoute

WatchedBreaker ==
    INSTANCE CircuitBreaker WITH
        Callers <- Requests, LastStart <- MaxClock,
        breaker <- breaker[WatchedRoute][Boot],
        trippedAt <- trippedAt[WatchedRoute][Boot],
        pc <- [r \in Requests |-> IF OnWatchedRoute(r) THEN req[r].pc ELSE "idle"],
        at <- [r \in Requests |-> IF OnWatchedRoute(r) THEN req[r].at ELSE 0]

BreakerImplemented == WatchedBreaker!Spec
===============================================================================
