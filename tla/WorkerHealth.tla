------------------------------ MODULE WorkerHealth ------------------------------
(***************************************************************************)
(* Client.Healthy of internal/service/embeddingworker/client.go: requests  *)
(* ask whether the embedding worker is up and share one cached answer.  A  *)
(* request reads the clock, then the cache under the read lock; when the   *)
(* cached answer is too old it probes the worker without any lock and then *)
(* stores what it found with the reading from before the probe.            *)
(***************************************************************************)
EXTENDS Integers

CONSTANTS Requests,
          HealthTTL,   \* healthTTL
          MaxLatency,  \* longest time from reading the clock to the answer:
                       \* the two probes' timeouts
          MaxClock     \* bound: the clock stops here

ASSUME HealthAssumption == /\ HealthTTL \in Nat \ {0} /\ MaxLatency \in Nat
                           /\ MaxClock \in Nat

VARIABLES clock,
          lastHealthAt, lastHealthValue,
          pc, now, healthy,   \* locals of each request
          worker,             \* whether the worker answers a probe
          since               \* history: when the worker last changed, or
                              \* last looked down to an abandoned probe

vars == <<clock, lastHealthAt, lastHealthValue, pc, now, healthy, worker, since>>
cache == <<lastHealthAt, lastHealthValue>>

ZeroTime == -1

\* Healthy works on one clock: the cached answer is dated no later than now,
\* and every request is in one of Healthy's five stages.
TypeOK == /\ clock \in Nat
          /\ lastHealthAt \in Nat \cup {ZeroTime} /\ lastHealthAt <= clock
          /\ lastHealthValue \in BOOLEAN
          /\ pc \in [Requests -> {"idle", "asking", "probing", "storing", "answer"}]
          /\ now \in [Requests -> Nat]
          /\ healthy \in [Requests -> BOOLEAN]
          /\ worker \in BOOLEAN
          /\ since \in Nat

Init == /\ clock = 0
        /\ lastHealthAt = ZeroTime
        /\ lastHealthValue = FALSE
        /\ pc = [r \in Requests |-> "idle"]
        /\ now = [r \in Requests |-> 0]
        /\ healthy = [r \in Requests |-> FALSE]
        /\ worker \in BOOLEAN
        /\ since = 0

Tick == /\ clock < MaxClock
        /\ \A r \in Requests : pc[r] # "idle" => clock - now[r] < MaxLatency
        /\ clock' = clock + 1
        /\ UNCHANGED <<cache, pc, now, healthy, worker, since>>

\* The worker goes down or comes back.
Change == /\ worker' = ~ worker
          /\ since' = clock
          /\ UNCHANGED <<clock, cache, pc, now, healthy>>

ReadClock(r) == /\ pc[r] = "idle"
                /\ pc' = [pc EXCEPT ![r] = "asking"]
                /\ now' = [now EXCEPT ![r] = clock]
                /\ UNCHANGED <<clock, cache, healthy, worker, since>>

Fresh(r) == lastHealthAt # ZeroTime /\ now[r] - lastHealthAt < HealthTTL

UseCached(r) == /\ pc[r] = "asking" /\ Fresh(r)
                /\ healthy' = [healthy EXCEPT ![r] = lastHealthValue]
                /\ pc' = [pc EXCEPT ![r] = "answer"]
                /\ UNCHANGED <<clock, cache, now, worker, since>>

StartProbe(r) == /\ pc[r] = "asking" /\ ~ Fresh(r)
                 /\ pc' = [pc EXCEPT ![r] = "probing"]
                 /\ UNCHANGED <<clock, cache, now, healthy, worker, since>>

Probed(r, answer) == /\ pc[r] = "probing"
                     /\ healthy' = [healthy EXCEPT ![r] = answer]
                     /\ pc' = [pc EXCEPT ![r] = "storing"]
                     /\ UNCHANGED <<clock, cache, now, worker>>

\* A probe of a worker that is down fails or times out.
Probe(r) == Probed(r, worker) /\ UNCHANGED since

\* The probes carry the request's context: they fail once its client has gone.
Hangup(r) == Probed(r, FALSE) /\ since' = clock

\* client.go:147 dating the answer after the probe.
StoreAnswerDatedAfter(r) == /\ pc[r] = "storing"
                            /\ lastHealthAt' = clock
                            /\ lastHealthValue' = healthy[r]
                            /\ pc' = [pc EXCEPT ![r] = "answer"]
                            /\ UNCHANGED <<clock, now, healthy, worker, since>>

StoreAnswer(r) == /\ pc[r] = "storing"
                  /\ lastHealthAt' = now[r]
                  /\ lastHealthValue' = healthy[r]
                  /\ pc' = [pc EXCEPT ![r] = "answer"]
                  /\ UNCHANGED <<clock, now, healthy, worker, since>>

Return(r) == /\ pc[r] = "answer"
             /\ pc' = [pc EXCEPT ![r] = "idle"]
             /\ now' = [now EXCEPT ![r] = 0]
             /\ healthy' = [healthy EXCEPT ![r] = FALSE]
             /\ UNCHANGED <<clock, cache, worker, since>>

Step(r) == \/ ReadClock(r) \/ UseCached(r) \/ StartProbe(r) \/ Probe(r)
           \/ Hangup(r) \/ StoreAnswer(r) \/ Return(r)

Next == Tick \/ Change \/ \E r \in Requests : Step(r)

Spec == Init /\ [][Next]_vars
-------------------------------------------------------------------------------
\* client.go:128 "Healthy checks worker health with TTL cache": once the worker
\* has been up, or down, for longer than the TTL and one request's latency, and
\* no client hung up on a probe in that time, every answer says so.  Slow probes
\* that overwrite the result of later ones do not change that, because they are
\* stored with the reading they began with.
AnswersFollowWorker ==
    \A r \in Requests :
        pc[r] = "answer" /\ clock - since >= HealthTTL + MaxLatency
            => healthy[r] = worker

\* lastHealthAt is never later than the observation it dates: no cached answer
\* is used for longer than the TTL after it was true.
CacheDatesBack ==
    lastHealthAt # ZeroTime /\ lastHealthValue # worker => lastHealthAt <= since
===============================================================================
