----------------------------- MODULE TokenBucket -----------------------------
(***************************************************************************)
(* One RateLimiter over time.  windowStart is any moment and taken counts  *)
(* the tokens handed out since: what holds of them holds of every window.  *)
(***************************************************************************)
EXTENDS Bucket

CONSTANTS QPS, Burst,  \* arguments of NewRateLimiter
          MaxClock     \* bound: the clock stops here

ASSUME BucketAssumption == QPS \in Nat /\ Burst \in Nat /\ MaxClock \in Nat

VARIABLES clock, bucket, windowStart, taken

vars == <<clock, bucket, windowStart, taken>>

Capacity == Burst * Cost

\* Types of the limiter and of the history.
TypeOK == /\ clock \in Nat
          /\ bucket \in BucketType
          /\ windowStart \in Nat
          /\ taken \in Nat

Init == /\ clock = 0
        /\ bucket = NewRateLimiter(Burst, 0)
        /\ windowStart \in 0..MaxClock
        /\ taken = 0

Tick == /\ clock < MaxClock
        /\ clock' = clock + 1
        /\ UNCHANGED <<bucket, windowStart, taken>>

Use == bucket' = AfterToken(bucket, QPS, Burst, clock)

Take == /\ AllowToken(bucket, QPS, Burst, clock)
        /\ Use
        /\ taken' = IF clock >= windowStart THEN taken + 1 ELSE taken
        /\ UNCHANGED <<clock, windowStart>>

Refuse == /\ ~ AllowToken(bucket, QPS, Burst, clock)
          /\ Use
          /\ UNCHANGED <<clock, windowStart, taken>>

Next == Tick \/ Take \/ Refuse

Spec == Init /\ [][Next]_vars
-------------------------------------------------------------------------------
\* What a window may have handed out, in units, at the present time.
Earned == IF clock >= windowStart THEN QPS * (clock - windowStart) ELSE 0

\* Over every window the limiter hands out at most its burst and what it earns
\* in the window: config.go:81-82 GlobalQPS and Burst.
NeverTooMany == taken * Cost <= Capacity + Earned

\* And it withholds nothing: a refusal means that the burst, or all that was
\* earned since any earlier moment, has been handed out, down to a part of a
\* token.
NeverTooFew ==
    [][Refuse /\ clock >= windowStart
         => \/ (taken + 1) * Cost > Capacity
            \/ (taken + 1) * Cost > Earned]_vars
===============================================================================
