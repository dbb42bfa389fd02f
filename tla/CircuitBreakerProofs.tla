------------------------ MODULE CircuitBreakerProofs ------------------------
(***************************************************************************)
(* The safety of one circuit breaker for any number of callers and any     *)
(* threshold and timeout.                                                  *)
(***************************************************************************)
EXTENDS CircuitBreaker, TLAPS

\* A reading in use is from the past and at most one latency old: Tick waits
\* for the calls that have reached the timeout.
ReadingsFresh == \A c \in Callers :
    InFlight(c) => at[c] <= clock /\ clock - at[c] <= MaxLatency

\* While the breaker is open the history variable holds the time it tripped.
TripRecorded == breaker.openedAt # ZeroTime =>
    trippedAt \in Nat /\ trippedAt <= clock

IInv == /\ TypeOK
        /\ ReadingsFresh
        /\ TripRecorded
        /\ OpenIffTripped
        /\ OpenWindowBounds
        /\ InFlightPredatesTrip

-----------------------------------------------------------------------------
\* Each method of the Go struct returns a well-formed struct (circuitbreaker.go
\* 34-70).
LEMMA MethodsType ==
    ASSUME NEW b \in BreakerType, NEW now \in Nat
    PROVE  /\ NewCircuitBreaker \in BreakerType
           /\ AfterAllow(b, now) \in BreakerType
           /\ AfterSuccess(b) = NewCircuitBreaker
           /\ AfterFailure(b, now) \in BreakerType
<1>1. NewCircuitBreaker \in BreakerType
  BY DEF NewCircuitBreaker, BreakerType, ZeroTime
<1>2. AfterSuccess(b) = NewCircuitBreaker
  BY DEF AfterSuccess, NewCircuitBreaker
<1>3. AfterFailure(b, now) \in BreakerType
  BY DEF AfterFailure, BreakerType
<1> QED
  BY <1>1, <1>2, <1>3 DEF AfterAllow

LEMMA InitIInv == Init => IInv
BY BreakerAssumption, LatencyAssumption
   DEF Init, IInv, TypeOK, ReadingsFresh, TripRecorded, OpenIffTripped,
       OpenWindowBounds, InFlightPredatesTrip, InFlight, NewCircuitBreaker,
       BreakerType, ZeroTime

LEMMA TickIInv == IInv /\ Tick => IInv'
<1> SUFFICES ASSUME IInv, Tick PROVE IInv'
  OBVIOUS
<1> USE BreakerAssumption, LatencyAssumption
<1>1. TypeOK' /\ OpenIffTripped' /\ OpenWindowBounds' /\ InFlightPredatesTrip'
  BY DEF IInv, Tick, TypeOK, OpenIffTripped, OpenWindowBounds,
         InFlightPredatesTrip
<1>2. ReadingsFresh'
  BY DEF IInv, Tick, TypeOK, ReadingsFresh, InFlight
<1>3. TripRecorded'
  BY DEF IInv, Tick, TypeOK, TripRecorded, BreakerType, ZeroTime
<1> QED
  BY <1>1, <1>2, <1>3 DEF IInv

LEMMA ReadClockIInv ==
    ASSUME IInv, NEW c \in Callers, ReadClock(c) PROVE IInv'
<1> USE BreakerAssumption, LatencyAssumption
<1>1. TypeOK'
  BY DEF IInv, ReadClock, TypeOK
<1>2. OpenIffTripped' /\ OpenWindowBounds' /\ TripRecorded'
  BY DEF IInv, ReadClock, OpenIffTripped, OpenWindowBounds, TripRecorded
<1>3. ReadingsFresh'
  BY DEF IInv, ReadClock, TypeOK, ReadingsFresh, InFlight
<1>4. InFlightPredatesTrip'
  BY DEF IInv, ReadClock, TypeOK, InFlightPredatesTrip
<1> QED
  BY <1>1, <1>2, <1>3, <1>4 DEF IInv

\* Admission is where InFlightPredatesTrip is decided: Allow lets a call pass
\* only a breaker that is not open, or one it closes in the same step.
LEMMA AdmitIInv ==
    ASSUME IInv, NEW c \in Callers, Admit(c) PROVE IInv'
<1> USE BreakerAssumption, LatencyAssumption
<1>1. breaker \in BreakerType /\ at[c] \in Nat
  BY DEF IInv, TypeOK
<1>2. breaker'.openedAt = ZeroTime /\ breaker' \in BreakerType
  BY <1>1, MethodsType DEF Admit, Allow, AfterAllow, NewCircuitBreaker
<1>3. breaker' = breaker \/ breaker' = NewCircuitBreaker
  BY DEF Admit, AfterAllow
<1>4. TypeOK'
  BY <1>2 DEF IInv, Admit, TypeOK, ZeroTime
<1>5. OpenIffTripped'
  BY <1>2, <1>3 DEF IInv, OpenIffTripped, NewCircuitBreaker
<1>6. ReadingsFresh'
  BY DEF IInv, Admit, TypeOK, ReadingsFresh, InFlight
<1>7. TripRecorded' /\ OpenWindowBounds' /\ InFlightPredatesTrip'
  BY <1>2 DEF TripRecorded, OpenWindowBounds, InFlightPredatesTrip
<1> QED
  BY <1>4, <1>5, <1>6, <1>7 DEF IInv

LEMMA RejectIInv ==
    ASSUME IInv, NEW c \in Callers, Reject(c) PROVE IInv'
<1> USE BreakerAssumption, LatencyAssumption
<1>1. TypeOK'
  BY DEF IInv, Reject, Leave, TypeOK
<1>2. OpenIffTripped' /\ OpenWindowBounds' /\ TripRecorded'
  BY DEF IInv, Reject, OpenIffTripped, OpenWindowBounds, TripRecorded
<1>3. ReadingsFresh' /\ InFlightPredatesTrip'
  BY DEF IInv, Reject, Leave, TypeOK, ReadingsFresh, InFlight,
         InFlightPredatesTrip
<1> QED
  BY <1>1, <1>2, <1>3 DEF IInv

LEMMA SucceedIInv ==
    ASSUME IInv, NEW c \in Callers, Succeed(c) PROVE IInv'
<1> USE BreakerAssumption, LatencyAssumption
<1>1. breaker' = NewCircuitBreaker
  BY MethodsType DEF IInv, TypeOK, Succeed, AfterSuccess, NewCircuitBreaker,
                     BreakerType
<1>2. TypeOK'
  BY <1>1 DEF IInv, Succeed, Leave, TypeOK, NewCircuitBreaker, BreakerType,
              ZeroTime
<1>3. ReadingsFresh'
  BY DEF IInv, Succeed, Leave, TypeOK, ReadingsFresh, InFlight
<1>4. /\ TripRecorded' /\ OpenIffTripped'
      /\ OpenWindowBounds' /\ InFlightPredatesTrip'
  BY <1>1 DEF TripRecorded, OpenIffTripped, OpenWindowBounds,
              InFlightPredatesTrip, NewCircuitBreaker
<1> QED
  BY <1>2, <1>3, <1>4 DEF IInv

\* A failure either trips the breaker, with a reading at most one latency old,
\* or arrives at an open breaker, with a reading from before it tripped.
LEMMA FailIInv ==
    ASSUME IInv, NEW c \in Callers, Fail(c) PROVE IInv'
<1> USE BreakerAssumption, LatencyAssumption
<1>1. /\ clock \in Nat /\ at[c] \in Nat /\ breaker \in BreakerType
      /\ at[c] <= clock /\ clock - at[c] <= MaxLatency
  BY DEF IInv, TypeOK, Fail, ReadingsFresh, InFlight
<1>2. /\ breaker'.consecutiveFailures = breaker.consecutiveFailures + 1
      /\ breaker'.openedAt = IF breaker.consecutiveFailures + 1 >= FailureThreshold
                             THEN at[c] ELSE breaker.openedAt
      /\ breaker' \in BreakerType
  BY <1>1, MethodsType DEF Fail, AfterFailure
<1>3. TypeOK'
  BY <1>1, <1>2 DEF IInv, Fail, Leave, TypeOK
<1>4. ReadingsFresh'
  BY DEF IInv, Fail, Leave, TypeOK, ReadingsFresh, InFlight
<1>5. OpenIffTripped'
  BY <1>1, <1>2 DEF IInv, OpenIffTripped, BreakerType, ZeroTime
<1>6. CASE breaker.openedAt = ZeroTime /\ breaker'.openedAt # ZeroTime
  <2>1. trippedAt' = clock /\ clock' = clock /\ breaker'.openedAt = at[c]
    BY <1>2, <1>6 DEF Fail
  <2>2. TripRecorded' /\ OpenWindowBounds'
    BY <1>1, <2>1 DEF TripRecorded, OpenWindowBounds
  <2>3. InFlightPredatesTrip'
    BY <1>1, <2>1 DEF IInv, Fail, Leave, TypeOK, ReadingsFresh, InFlight,
                      InFlightPredatesTrip
  <2> QED
    BY <1>3, <1>4, <1>5, <2>2, <2>3 DEF IInv
<1>7. CASE breaker.openedAt # ZeroTime
  <2>1. /\ trippedAt' = trippedAt /\ clock' = clock
        /\ breaker'.openedAt = at[c]
        /\ at[c] <= trippedAt /\ trippedAt \in Nat /\ trippedAt <= clock
    BY <1>1, <1>2, <1>7 DEF IInv, Fail, OpenIffTripped, TripRecorded,
                            InFlightPredatesTrip, BreakerType
  <2>2. TripRecorded' /\ OpenWindowBounds'
    BY <1>1, <2>1 DEF TripRecorded, OpenWindowBounds
  <2>3. InFlightPredatesTrip'
    BY <1>7, <2>1 DEF IInv, Fail, Leave, TypeOK, InFlightPredatesTrip
  <2> QED
    BY <1>3, <1>4, <1>5, <2>2, <2>3 DEF IInv
<1>8. CASE breaker'.openedAt = ZeroTime
  BY <1>3, <1>4, <1>5, <1>8 DEF IInv, TripRecorded, OpenWindowBounds,
                                InFlightPredatesTrip
<1> QED
  BY <1>6, <1>7, <1>8

LEMMA NextIInv == IInv /\ [Next]_vars => IInv'
<1> SUFFICES ASSUME IInv, [Next]_vars PROVE IInv'
  OBVIOUS
<1>1. CASE Tick
  BY <1>1, TickIInv
<1>2. CASE \E c \in Callers : Step(c)
  BY <1>2, ReadClockIInv, AdmitIInv, RejectIInv, SucceedIInv, FailIInv DEF Step
<1>3. CASE UNCHANGED vars
  BY <1>3 DEF vars, IInv, TypeOK, ReadingsFresh, TripRecorded, OpenIffTripped,
              OpenWindowBounds, InFlightPredatesTrip, InFlight
<1> QED
  BY <1>1, <1>2, <1>3 DEF Next

LEMMA IInvHolds == Spec => []IInv
BY InitIInv, NextIInv, PTL DEF Spec

-----------------------------------------------------------------------------
\* The variables keep their types; in particular no interleaving of late
\* reports makes the struct ill-formed.
THEOREM TypeCorrect == Spec => []TypeOK
BY IInvHolds, PTL DEF IInv

\* openedAt and consecutiveFailures of circuitbreaker.go always agree.
THEOREM TripConsistent == Spec => []OpenIffTripped
BY IInvHolds, PTL DEF IInv

\* Late failures never prolong an outage and shorten it by one latency at most.
THEOREM WindowBounded == Spec => []OpenWindowBounds
BY IInvHolds, PTL DEF IInv

\* Every call still running while the breaker is open predates the trip.
THEOREM NoCallAfterTrip == Spec => []InFlightPredatesTrip
BY IInvHolds, PTL DEF IInv

\* Allow never lets a call through a breaker that is open at that moment, old
\* as its reading may be.
THEOREM OpenBreakerBlocks == Spec => NoAdmissionWhileOpen
<1>1. ASSUME IInv, NEW c \in Callers, Admit(c)
      PROVE  ~ IsOpen(breaker, clock)
  BY <1>1, BreakerAssumption
     DEF IInv, TypeOK, ReadingsFresh, InFlight, Admit, Allow, IsOpen, Lapsed,
         BreakerType, ZeroTime
<1>2. IInv /\ [Next]_vars
        => [\A c \in Callers : Admit(c) => ~ IsOpen(breaker, clock)]_vars
  BY <1>1
<1> QED
  BY <1>2, IInvHolds, PTL DEF Spec, NoAdmissionWhileOpen

\* A breaker that no success closes blocks for OpenTimeout - MaxLatency at
\* least, counted from the report that reached the threshold.
THEOREM OpenWindowLowerBound == Spec => NoEarlyLapse
<1>1. ASSUME IInv, NEW c \in Callers, Admit(c), breaker.openedAt # ZeroTime
      PROVE  clock - trippedAt >= OpenTimeout - MaxLatency
  <2>1. /\ clock \in Nat /\ at[c] \in Nat /\ at[c] <= clock
        /\ breaker.openedAt \in Nat
    BY <1>1 DEF IInv, TypeOK, ReadingsFresh, InFlight, Admit, BreakerType
  <2>2. at[c] - breaker.openedAt >= OpenTimeout
    BY <1>1 DEF Admit, Allow, Lapsed
  <2>3. trippedAt \in Nat /\ trippedAt - breaker.openedAt <= MaxLatency
    BY <1>1 DEF IInv, TripRecorded, OpenWindowBounds
  <2> QED
    BY <2>1, <2>2, <2>3, BreakerAssumption, LatencyAssumption
<1>2. IInv /\ [Next]_vars
        => [\A c \in Callers : Admit(c) /\ breaker.openedAt # ZeroTime
               => clock - trippedAt >= OpenTimeout - MaxLatency]_vars
  BY <1>1
<1> QED
  BY <1>2, IInvHolds, PTL DEF Spec, NoEarlyLapse

\* A breaker trips only by the report of a failed call, and then blocks exactly
\* if that call, from its reading of the clock to its report, took less than the
\* open timeout, whatever the longest call may take: with the registry's 30 s for
\* both, a trip by a call that timed out is without effect
\* (circuitbreaker.go:62-70, registry.go:126, 145).
TripBlocksIfCallShort ==
    [][breaker.openedAt = ZeroTime /\ breaker'.openedAt # ZeroTime
          => \E c \in Callers : /\ Fail(c)
                               /\ IsOpen(breaker', clock)
                                    <=> clock - at[c] < OpenTimeout]_vars

\* Which reports that reach the threshold leave a breaker that blocks.
THEOREM TripTakesEffect == Spec => TripBlocksIfCallShort
<1>1. ASSUME IInv, Next, breaker.openedAt = ZeroTime, breaker'.openedAt # ZeroTime
      PROVE  \E c \in Callers : /\ Fail(c)
                                /\ IsOpen(breaker', clock)
                                     <=> clock - at[c] < OpenTimeout
  <2>1. PICK c \in Callers : Fail(c)
    BY <1>1 DEF IInv, TypeOK, Next, Step, Tick, ReadClock, Admit, Reject, Succeed,
                AfterAllow, AfterSuccess, NewCircuitBreaker, BreakerType
  <2>2. breaker'.openedAt = at[c]
    BY <1>1, <2>1 DEF Fail, AfterFailure
  <2>3. at[c] \in Nat /\ clock \in Nat
    BY <1>1, <2>1 DEF IInv, TypeOK
  <2>4. IsOpen(breaker', clock) <=> clock - at[c] < OpenTimeout
    BY <1>1, <2>2, <2>3, BreakerAssumption DEF IsOpen, Lapsed
  <2> QED
    BY <2>1, <2>4
<1>2. IInv /\ [Next]_vars
        => [breaker.openedAt = ZeroTime /\ breaker'.openedAt # ZeroTime
              => \E c \in Callers : /\ Fail(c)
                                   /\ IsOpen(breaker', clock)
                                        <=> clock - at[c] < OpenTimeout]_vars
  BY <1>1
<1> QED
  BY <1>2, IInvHolds, PTL DEF Spec, TripBlocksIfCallShort
==============================================================================
