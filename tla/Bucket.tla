-------------------------------- MODULE Bucket --------------------------------
(***************************************************************************)
(* RateLimiter of internal/middleware/ratelimit.go as operators on a       *)
(* value; Allow runs under the limiter's mutex and reads the monotonic     *)
(* clock inside it.  Tokens are counted in units: one token is Cost units  *)
(* and Cost ticks make a second, so that a limiter of qps tokens a second  *)
(* earns qps units a tick and the arithmetic is exact where the code's     *)
(* float64 rounds.                                                         *)
(***************************************************************************)
EXTENDS Integers

CONSTANT Cost

ASSUME CostAssumption == Cost \in Nat \ {0}

BucketType == [tokens : Nat, lastRefill : Nat]

NewRateLimiter(burst, now) == [tokens |-> burst * Cost, lastRefill |-> now]

\* Faulty variants: the bucket has no rim; parts of a token are dropped by every
\* refill.
RefilledUncapped(b, qps, burst, now) == b.tokens + (now - b.lastRefill) * qps
RefilledWhole(b, qps, burst, now) ==
    LET earned == b.tokens + Cost * (((now - b.lastRefill) * qps) \div Cost)
    IN  IF earned > burst * Cost THEN burst * Cost ELSE earned

\* The tokens a call of Allow finds after its refill.
Refilled(b, qps, burst, now) ==
    LET earned == b.tokens + (now - b.lastRefill) * qps
    IN  IF earned > burst * Cost THEN burst * Cost ELSE earned

AllowToken(b, qps, burst, now) == Refilled(b, qps, burst, now) >= Cost

AfterToken(b, qps, burst, now) ==
    LET tokens == Refilled(b, qps, burst, now)
    IN  [tokens |-> IF tokens >= Cost THEN tokens - Cost ELSE tokens,
         lastRefill |-> now]
===============================================================================
