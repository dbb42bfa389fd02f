---------------------------- MODULE CircuitBreaker ----------------------------
(***************************************************************************)
(* One circuit breaker shared by concurrent callers, the way the registry  *)
(* uses it (provider/registry.go 125-148): a caller reads the clock, asks  *)
(* Allow with that reading, makes its call, and reports the outcome, a     *)
(* failure with the reading it took BEFORE the call.  A caller is a        *)
(* goroutine serving one request after the other.                          *)
(***************************************************************************)
EXTENDS Breaker

CONSTANTS Callers,     \* goroutines that use this breaker
          MaxLatency,  \* longest time from reading the clock to the report
          LastStart,   \* bound: no reading of the clock after this time
          MaxClock     \* bound: the clock stops here

ASSUME LatencyAssumption == /\ MaxLatency \in Nat
                            /\ LastStart \in Nat
                            /\ MaxClock \in Nat

VARIABLES clock,      \* real time
          breaker,    \* the fields of the Go struct
          pc,         \* where each caller is
          at,         \* the local variable now of each caller
          trippedAt   \* history: when the threshold was last reached

vars == <<clock, breaker, pc, at, trippedAt>>

\* Types of the struct's fields and of the callers' locals; the count of
\* failures never goes below zero.
TypeOK == /\ clock \in Nat
          /\ breaker \in BreakerType
          /\ pc \in [Callers -> {"idle", "asking", "calling"}]
          /\ at \in [Callers -> Nat]
          /\ trippedAt \in Nat \cup {ZeroTime}

Init == /\ clock = 0
        /\ breaker = NewCircuitBreaker
        /\ pc = [c \in Callers |-> "idle"]
        /\ at = [c \in Callers |-> 0]
        /\ trippedAt = ZeroTime

InFlight(c) == pc[c] # "idle"

\* Time passes, but no request outlives the timeout of the HTTP client.
Tick == /\ clock < MaxClock
        /\ \A c \in Callers : InFlight(c) => clock - at[c] < MaxLatency
        /\ clock' = clock + 1
        /\ UNCHANGED <<breaker, pc, at, trippedAt>>

ReadClock(c) == /\ pc[c] = "idle"
                /\ clock <= LastStart
                /\ pc' = [pc EXCEPT ![c] = "asking"]
                /\ at' = [at EXCEPT ![c] = clock]
                /\ UNCHANGED <<clock, breaker, trippedAt>>

\* The caller leaves with or without having made its call.
Leave(c) == /\ pc' = [pc EXCEPT ![c] = "idle"]
            /\ at' = [at EXCEPT ![c] = 0]

Admit(c) == /\ pc[c] = "asking"
            /\ Allow(breaker, at[c])
            /\ breaker' = AfterAllow(breaker, at[c])
            /\ trippedAt' = IF breaker'.openedAt = ZeroTime THEN ZeroTime
                                                            ELSE trippedAt
            /\ pc' = [pc EXCEPT ![c] = "calling"]
            /\ UNCHANGED <<clock, at>>

Reject(c) == /\ pc[c] = "asking"
             /\ ~ Allow(breaker, at[c])
             /\ Leave(c)
             /\ UNCHANGED <<clock, breaker, trippedAt>>

Succeed(c) == /\ pc[c] = "calling"
              /\ breaker' = AfterSuccess(breaker)
              /\ trippedAt' = ZeroTime
              /\ Leave(c)
              /\ UNCHANGED clock

Fail(c) == /\ pc[c] = "calling"
           /\ breaker' = AfterFailure(breaker, at[c])
           /\ trippedAt' = IF breaker.openedAt = ZeroTime
                              /\ breaker'.openedAt # ZeroTime
                           THEN clock ELSE trippedAt
           /\ Leave(c)
           /\ UNCHANGED clock

Step(c) == ReadClock(c) \/ Admit(c) \/ Reject(c) \/ Succeed(c) \/ Fail(c)

Next == Tick \/ \E c \in Callers : Step(c)

Spec == Init /\ [][Next]_vars

\* Goroutines are scheduled, calls return or time out, and time passes.
Fairness == /\ WF_vars(Tick)
            /\ \A c \in Callers : /\ WF_vars(Admit(c) \/ Reject(c))
                                  /\ WF_vars(Succeed(c) \/ Fail(c))

FairSpec == Spec /\ Fairness
-------------------------------------------------------------------------------
\* RecordFailure sets openedAt exactly when the count is at the threshold, and
\* RecordSuccess and the reset in Allow clear both: the two fields of the
\* struct agree whatever late reports arrive while the breaker is open.
OpenIffTripped ==
    breaker.openedAt # ZeroTime
        <=> breaker.consecutiveFailures >= FailureThreshold

\* openedAt is a reading taken before the failing call (registry.go:126, 145),
\* and a report that arrives late moves it, also backwards.  It still stays
\* within one call's latency of the moment the breaker tripped, and is never
\* later than that moment: late failures do not prolong the outage.
OpenWindowBounds ==
    breaker.openedAt # ZeroTime =>
        /\ breaker.openedAt <= trippedAt
        /\ trippedAt - breaker.openedAt <= MaxLatency

\* The calls still running while the breaker is open were all let in before it
\* tripped, so a success that closes it early (RecordSuccess) is never that of
\* a call made through the open breaker.
InFlightPredatesTrip ==
    breaker.openedAt # ZeroTime =>
        \A c \in Callers : pc[c] = "calling" => at[c] <= trippedAt

\* Allow compares with a reading that may be old by the time it gets the mutex.
\* No call is nevertheless let through a breaker that is open at this moment.
NoAdmissionWhileOpen ==
    [][\A c \in Callers : Admit(c) => ~ IsOpen(breaker, clock)]_vars

\* A breaker left alone by successes blocks for at least the open timeout less
\* one call's latency, counted from the moment the threshold was reached.
NoEarlyLapse ==
    [][\A c \in Callers :
          Admit(c) /\ breaker.openedAt # ZeroTime
              => clock - trippedAt >= OpenTimeout - MaxLatency]_vars

\* The report that reaches the threshold leaves a breaker that blocks
\* (circuitbreaker_test.go:25 "expected breaker open after reaching threshold",
\* docs/SPEC.md:128 three failures in a row cut the route off for 30 s).  This
\* needs calls shorter than the open timeout: RecordFailure gets an old reading.
TripBlocks ==
    [][breaker.openedAt = ZeroTime /\ breaker'.openedAt # ZeroTime
          => IsOpen(breaker', clock)]_vars

\* An open breaker comes to let calls through again without anyone's help.
Recovers == breaker.openedAt # ZeroTime ~> Allow(breaker, clock)
===============================================================================
