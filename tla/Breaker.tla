------------------------------- MODULE Breaker -------------------------------
(***************************************************************************)
(* The circuit breaker of internal/service/circuitbreaker.go as operators  *)
(* on a value.  Every method of the Go type runs under one mutex, so a     *)
(* method is one function from a breaker and a clock reading to the next   *)
(* breaker.  Times are numbers of ticks; the zero time.Time, which the     *)
(* code uses for "not open", is a number before every reading.             *)
(***************************************************************************)
EXTENDS Integers

CONSTANTS FailureThreshold,  \* failureThreshold, 3 in the registry
          OpenTimeout        \* openTimeout, 30 s in the registry

\* NewCircuitBreaker replaces values that are not positive by its defaults.
ASSUME BreakerAssumption == /\ FailureThreshold \in Nat \ {0}
                            /\ OpenTimeout \in Nat \ {0}

ZeroTime == -1

BreakerType == [consecutiveFailures : Nat, openedAt : Nat \cup {ZeroTime}]

NewCircuitBreaker == [consecutiveFailures |-> 0, openedAt |-> ZeroTime]

\* Faulty variants, each in place of the operator it is named after: the
\* timeout one tick short, the guard of Allow gone or without the timeout, half
\* a reset in Allow, a decrement for the reset in RecordSuccess.
LapsedEarly(b, now) == now - b.openedAt >= OpenTimeout - 1
AllowAlways(b, now) == TRUE
AllowOnlyClosed(b, now) == b.openedAt = ZeroTime
AfterAllowKeepsCount(b, now) ==
    IF b.openedAt # ZeroTime /\ now - b.openedAt >= OpenTimeout
    THEN [b EXCEPT !.openedAt = ZeroTime] ELSE b

\* The time the breaker stays open has run out at the reading now.
Lapsed(b, now) == now - b.openedAt >= OpenTimeout

Allow(b, now) == b.openedAt = ZeroTime \/ Lapsed(b, now)

\* What a call of Allow leaves behind: a lapsed breaker is closed for everyone.
AfterAllow(b, now) ==
    IF b.openedAt # ZeroTime /\ Lapsed(b, now) THEN NewCircuitBreaker ELSE b

AfterSuccess(b) == [consecutiveFailures |-> 0, openedAt |-> ZeroTime]

AfterFailure(b, now) ==
    LET failures == b.consecutiveFailures + 1
    IN  [consecutiveFailures |-> failures,
         openedAt |-> IF failures >= FailureThreshold THEN now ELSE b.openedAt]

IsOpen(b, now) == b.openedAt # ZeroTime /\ ~ Lapsed(b, now)
==============================================================================
