---------------------------- MODULE AdmissionProofs ----------------------------
(***************************************************************************)
(* The two window bounds of the token bucket for every rate, burst and     *)
(* window, and what the handlers of a route do together: the limiters      *)
(* behind APIKeyAuth are still the limiters of RateLimit, each model keeps *)
(* to its rate, and what a request has spent, and whether its key was      *)
(* there, follows from what became of it.                                  *)
(***************************************************************************)
EXTENDS Admission, FiniteSetTheorems, TLAPS

\* The units that are in the bucket or would be after a refill without a cap.
Balance == bucket.tokens + QPS * (clock - bucket.lastRefill)

\* What is in the bucket and what was handed out is bounded by what came in.
UpperBound ==
    /\ bucket.lastRefill < windowStart => taken = 0
    /\ bucket.lastRefill >= windowStart =>
         taken * Cost + bucket.tokens
             <= Capacity + QPS * (bucket.lastRefill - windowStart)

\* Together they are at least a full bucket or the earnings of the window.
LowerBound ==
    clock >= windowStart =>
        \/ taken * Cost + Balance >= Capacity
        \/ taken * Cost + Balance >= QPS * (clock - windowStart)

IInv == /\ TypeOK
        /\ bucket.lastRefill <= clock
        /\ bucket.tokens <= Capacity
        /\ UpperBound
        /\ LowerBound

-----------------------------------------------------------------------------
LEMMA ProductNat == \A m, n \in Nat : m * n \in Nat
BY SMT

LEMMA ProductSplit ==
    \A q, a, b, c \in Int : q * (c - b) + q * (b - a) = q * (c - a)
BY SMT

LEMMA ProductMono ==
    \A q \in Nat : \A a, b \in Int : a <= b => q * a <= q * b
BY SMT

LEMMA ProductNext == \A m, n \in Int : (m + 1) * n = m * n + n
BY SMT

LEMMA CapacityNat == Capacity \in Nat
BY ProductNat, BucketAssumption, CostAssumption DEF Capacity

LEMMA InitIInv == Init => IInv
<1> SUFFICES ASSUME Init PROVE IInv
  OBVIOUS
<1>1. /\ clock = 0 /\ bucket = [tokens |-> Capacity, lastRefill |-> 0]
      /\ windowStart \in Nat /\ taken = 0 /\ taken * Cost = 0
  BY BucketAssumption, CostAssumption DEF Init, NewRateLimiter, Capacity
<1>2. windowStart = 0 => QPS * (bucket.lastRefill - windowStart) = 0
  BY <1>1, BucketAssumption
<1>3. QPS * (clock - bucket.lastRefill) = 0
  BY <1>1, BucketAssumption
<1>4. TypeOK
  BY <1>1, CapacityNat DEF TypeOK, BucketType
<1>5. UpperBound
  BY <1>1, <1>2, CapacityNat DEF UpperBound
<1>6. LowerBound
  BY <1>1, <1>3, CapacityNat DEF LowerBound, Balance
<1> QED
  BY <1>1, <1>4, <1>5, <1>6, CapacityNat DEF IInv

LEMMA TickIInv == IInv /\ Tick => IInv'
<1> SUFFICES ASSUME IInv, Tick PROVE IInv'
  OBVIOUS
<1> USE BucketAssumption, CostAssumption, CapacityNat
<1>1. /\ clock \in Nat /\ bucket \in BucketType /\ windowStart \in Nat /\ taken \in Nat
      /\ clock' = clock + 1 /\ bucket' = bucket /\ windowStart' = windowStart
      /\ taken' = taken /\ bucket.lastRefill <= clock
  BY DEF IInv, Tick, TypeOK
<1>2. bucket.tokens \in Nat /\ bucket.lastRefill \in Nat /\ taken * Cost \in Nat
  BY <1>1, ProductNat DEF BucketType
<1>3. Balance' = Balance + QPS
  <2>1. QPS * (clock + 1 - bucket.lastRefill) = QPS * (clock - bucket.lastRefill) + QPS
    BY <1>1, <1>2
  <2>2. Balance' = bucket.tokens + QPS * (clock + 1 - bucket.lastRefill)
    BY <1>1, <1>2 DEF Balance, BucketType
  <2>3. QPS * (clock - bucket.lastRefill) \in Nat
    BY <1>1, <1>2, ProductNat
  <2> QED
    BY <1>2, <2>1, <2>2, <2>3 DEF Balance
<1>4. Balance \in Nat
  BY <1>1, <1>2, ProductNat DEF Balance
<1>5. TypeOK' /\ bucket'.lastRefill <= clock' /\ bucket'.tokens <= Capacity'
  BY <1>1, <1>2 DEF IInv, TypeOK, Capacity
<1>6. UpperBound'
  BY <1>1 DEF IInv, UpperBound, Capacity
<1>7. LowerBound'
  <2>1. CASE clock' = windowStart
    <3>1. QPS * (clock' - windowStart) = 0
      BY <2>1, <1>1
    <3> QED
      BY <1>1, <1>2, <1>3, <1>4, <3>1 DEF LowerBound
  <2>2. CASE clock >= windowStart
    <3>1. QPS * (clock + 1 - windowStart) = QPS * (clock - windowStart) + QPS
      BY <1>1
    <3>2. QPS * (clock - windowStart) \in Nat
      BY <1>1, <2>2, ProductNat
    <3> QED
      BY <1>1, <1>2, <1>3, <1>4, <2>2, <3>1, <3>2 DEF IInv, LowerBound, Capacity
  <2>3. CASE clock' < windowStart
    BY <2>3, <1>1 DEF LowerBound
  <2> QED
    BY <2>1, <2>2, <2>3, <1>1
<1> QED
  BY <1>5, <1>6, <1>7 DEF IInv

\* A refill keeps both bounds: it moves what was earned since lastRefill into
\* the bucket, or fills the bucket.
LEMMA Refill ==
    ASSUME IInv
    PROVE  LET t == Refilled(bucket, QPS, Burst, clock) IN
           /\ t \in Nat /\ t <= Capacity
           /\ clock >= windowStart =>
                /\ taken * Cost + t <= Capacity + QPS * (clock - windowStart)
                /\ \/ taken * Cost + t >= Capacity
                   \/ taken * Cost + t >= QPS * (clock - windowStart)
<1> USE BucketAssumption, CostAssumption, CapacityNat
<1> DEFINE t == Refilled(bucket, QPS, Burst, clock)
<1>1. /\ clock \in Nat /\ windowStart \in Nat /\ taken \in Nat
      /\ bucket.tokens \in Nat /\ bucket.lastRefill \in Nat
      /\ bucket.lastRefill <= clock /\ taken * Cost \in Nat
  BY ProductNat DEF IInv, TypeOK, BucketType
<1>2. (clock - bucket.lastRefill) * QPS = QPS * (clock - bucket.lastRefill)
  BY <1>1
<1>3. QPS * (clock - bucket.lastRefill) \in Nat
  BY <1>1, ProductNat
<1>4. Balance \in Nat
  BY <1>1, <1>3 DEF Balance
<1>5. t = IF Balance > Capacity THEN Capacity ELSE Balance
  BY <1>2 DEF Refilled, Balance, Capacity
<1>6. t \in Nat /\ t <= Capacity
  BY <1>4, <1>5
<1>7. ASSUME clock >= windowStart
      PROVE  taken * Cost + t <= Capacity + QPS * (clock - windowStart)
  <2>1. QPS * (clock - windowStart) \in Nat
    BY <1>1, <1>7, ProductNat
  <2>2. CASE bucket.lastRefill < windowStart
    BY <1>1, <1>6, <2>1, <2>2 DEF IInv, UpperBound
  <2>3. CASE bucket.lastRefill >= windowStart
    <3>1. QPS * (clock - bucket.lastRefill) + QPS * (bucket.lastRefill - windowStart)
            = QPS * (clock - windowStart)
      BY <1>1, ProductSplit
    <3>2. QPS * (bucket.lastRefill - windowStart) \in Nat
      BY <1>1, <2>3, ProductNat
    <3>3. t <= bucket.tokens + QPS * (clock - bucket.lastRefill)
      BY <1>1, <1>3, <1>4, <1>5 DEF Balance
    <3>4. taken * Cost + bucket.tokens
            <= Capacity + QPS * (bucket.lastRefill - windowStart)
      BY <2>3 DEF IInv, UpperBound
    <3> QED
      BY <1>1, <1>3, <1>6, <2>1, <3>1, <3>2, <3>3, <3>4
  <2> QED
    BY <2>2, <2>3, <1>1
<1>8. ASSUME clock >= windowStart
      PROVE  \/ taken * Cost + t >= Capacity
             \/ taken * Cost + t >= QPS * (clock - windowStart)
  <2>1. CASE t = Capacity
    BY <2>1, <1>1
  <2>2. CASE t = Balance
    BY <2>2, <1>8 DEF IInv, LowerBound
  <2> QED
    BY <2>1, <2>2, <1>5
<1> QED
  BY <1>6, <1>7, <1>8

\* A call of Allow, whatever its answer: b and n are the bucket and the count
\* it leaves.
LEMMA UseIInv ==
    ASSUME IInv, Use, UNCHANGED <<clock, windowStart>>,
           IF AllowToken(bucket, QPS, Burst, clock) /\ clock >= windowStart
           THEN taken' = taken + 1 ELSE taken' = taken
    PROVE  IInv'
<1> USE BucketAssumption, CostAssumption, CapacityNat
<1> DEFINE t == Refilled(bucket, QPS, Burst, clock)
<1> DEFINE left == IF t >= Cost THEN t - Cost ELSE t
<1>1. /\ clock \in Nat /\ windowStart \in Nat /\ taken \in Nat
      /\ taken * Cost \in Nat /\ bucket.lastRefill \in Nat
      /\ bucket.lastRefill <= clock
  BY ProductNat DEF IInv, TypeOK, BucketType
<1>2. /\ t \in Nat /\ t <= Capacity
      /\ clock >= windowStart =>
           /\ taken * Cost + t <= Capacity + QPS * (clock - windowStart)
           /\ \/ taken * Cost + t >= Capacity
              \/ taken * Cost + t >= QPS * (clock - windowStart)
  BY Refill
<1>3. /\ bucket' = [tokens |-> left, lastRefill |-> clock]
      /\ clock' = clock /\ windowStart' = windowStart
  BY DEF Use, AfterToken
<1>4. AllowToken(bucket, QPS, Burst, clock) <=> t >= Cost
  BY DEF AllowToken
<1> HIDE DEF t
<1>5. left \in Nat /\ left <= Capacity
  BY <1>2
<1>6. taken' \in Nat /\ (clock < windowStart => taken' = taken)
  BY <1>1, <1>4
<1>7. clock >= windowStart => taken' * Cost + left = taken * Cost + t
  <2>1. (taken + 1) * Cost = taken * Cost + Cost
    BY <1>1, ProductNext
  <2> QED
    BY <1>1, <1>2, <1>4, <2>1
<1> HIDE DEF left
<1>8. TypeOK' /\ bucket'.lastRefill <= clock' /\ bucket'.tokens <= Capacity'
  BY <1>1, <1>3, <1>5, <1>6 DEF TypeOK, BucketType, Capacity
<1>9. UpperBound'
  <2>1. CASE clock < windowStart
    BY <2>1, <1>1, <1>3, <1>6 DEF IInv, UpperBound
  <2>2. CASE clock >= windowStart
    BY <2>2, <1>1, <1>2, <1>3, <1>7 DEF UpperBound, Capacity
  <2> QED
    BY <2>1, <2>2, <1>1
<1>10. LowerBound'
  <2>1. Balance' = left
    <3>1. QPS * (clock - clock) = 0
      BY <1>1
    <3> QED
      BY <1>1, <1>3, <1>5, <3>1 DEF Balance
  <2> QED
    BY <2>1, <1>1, <1>2, <1>3, <1>7 DEF LowerBound, Capacity
<1> QED
  BY <1>8, <1>9, <1>10 DEF IInv

LEMMA NextIInv == IInv /\ [Next]_vars => IInv'
<1> SUFFICES ASSUME IInv, [Next]_vars PROVE IInv'
  OBVIOUS
<1>1. CASE Tick
  BY <1>1, TickIInv
<1>2. CASE Take
  BY <1>2, UseIInv DEF Take
<1>3. CASE Refuse
  BY <1>3, UseIInv DEF Refuse
<1>4. CASE UNCHANGED vars
  BY <1>4 DEF vars, IInv, TypeOK, UpperBound, LowerBound, Balance, Capacity
<1> QED
  BY <1>1, <1>2, <1>3, <1>4 DEF Next

LEMMA IInvHolds == Spec => []IInv
BY InitIInv, NextIInv, PTL DEF Spec

-----------------------------------------------------------------------------
\* tokens stays between nothing and the burst, lastRefill in the past.
THEOREM TypeCorrect == Spec => []TypeOK
BY IInvHolds, PTL DEF IInv

\* Allow lets at most Burst + QPS * length requests pass in a window of any
\* length that starts at any time.
THEOREM WindowUpperBound == Spec => []NeverTooMany
<1>1. IInv => NeverTooMany
  <2> SUFFICES ASSUME IInv PROVE NeverTooMany
    OBVIOUS
  <2> USE BucketAssumption, CostAssumption, CapacityNat
  <2>1. /\ clock \in Nat /\ windowStart \in Nat /\ taken \in Nat
        /\ bucket.tokens \in Nat /\ bucket.lastRefill \in Nat
        /\ bucket.lastRefill <= clock /\ taken * Cost \in Nat
    BY ProductNat DEF IInv, TypeOK, BucketType
  <2>2. CASE bucket.lastRefill < windowStart
    <3>1. taken * Cost = 0
      BY <2>2, <2>1 DEF IInv, UpperBound
    <3>2. clock >= windowStart => QPS * (clock - windowStart) \in Nat
      BY <2>1, ProductNat
    <3> QED
      BY <3>1, <3>2, <2>1 DEF NeverTooMany, Earned
  <2>3. CASE bucket.lastRefill >= windowStart
    <3>1. QPS * (bucket.lastRefill - windowStart) <= QPS * (clock - windowStart)
      BY <2>1, ProductMono
    <3>2. /\ QPS * (bucket.lastRefill - windowStart) \in Nat
          /\ QPS * (clock - windowStart) \in Nat
      BY <2>1, <2>3, ProductNat
    <3> QED
      BY <2>1, <2>3, <3>1, <3>2 DEF IInv, UpperBound, NeverTooMany, Earned
  <2> QED
    BY <2>1, <2>2, <2>3
<1> QED
  BY <1>1, IInvHolds, PTL

\* Allow refuses only when the window's quota is used up.
THEOREM WindowLowerBound == Spec => NeverTooFew
<1>1. ASSUME IInv, Refuse, clock >= windowStart
      PROVE  (taken + 1) * Cost > Capacity \/ (taken + 1) * Cost > Earned
  <2> USE BucketAssumption, CostAssumption, CapacityNat
  <2>1. /\ taken * Cost \in Nat /\ clock \in Nat /\ windowStart \in Nat
        /\ (taken + 1) * Cost = taken * Cost + Cost
    BY <1>1, ProductNat, ProductNext DEF IInv, TypeOK
  <2>2. Earned = QPS * (clock - windowStart) /\ Earned \in Nat
    BY <1>1, <2>1, ProductNat DEF Earned
  <2> DEFINE t == Refilled(bucket, QPS, Burst, clock)
  <2>3. /\ t \in Nat
        /\ \/ taken * Cost + t >= Capacity
           \/ taken * Cost + t >= QPS * (clock - windowStart)
    BY <1>1, Refill
  <2>4. ~ (t >= Cost)
    BY <1>1 DEF Refuse, AllowToken
  <2> HIDE DEF t
  <2> QED
    BY <2>1, <2>2, <2>3, <2>4
<1>2. IInv /\ [Next]_vars
        => [Refuse /\ clock >= windowStart
              => \/ (taken + 1) * Cost > Capacity
                 \/ (taken + 1) * Cost > Earned]_vars
  BY <1>1
<1> QED
  BY <1>2, IInvHolds, PTL DEF Spec, NeverTooFew

-------------------------------------------------------------------------------
\* Authentication and the handlers leave the limiters alone: a request meets them
\* only in the steps of RateLimit.
THEOREM LimitsAsAlone == AdmissionSpec => LimitSpec
<1>1. AdmissionInit => LimitInit
  BY DEF AdmissionInit
<1>2. [AdmissionNext]_admission => [LimitNext]_<<vars, limits>>
  <2> SUFFICES ASSUME [AdmissionNext]_admission
               PROVE  [LimitNext]_<<vars, limits>>
    OBVIOUS
  <2>1. CASE Passing
    BY <2>1 DEF LimitNext
  <2>2. ASSUME NEW keys, Provide(keys) PROVE UNCHANGED <<vars, limits>>
    BY <2>2 DEF Provide
  <2>3. ASSUME NEW r \in Requests, AdmissionStep(r)
        PROVE  LimitNext \/ UNCHANGED <<vars, limits>>
    <3>1. ASSUME NEW route, NEW k, Arrive(r, route, k) PROVE UNCHANGED <<vars, limits>>
      BY <3>1 DEF Arrive
    <3>2. CASE SkipAuth(r) \/ RefuseHeader(r) \/ LookUp(r) \/ LookUpMisses(r)
               \/ LookUpFails(r) \/ Leave(r)
      BY <3>2 DEF SkipAuth, RefuseHeader, LookUp, LookUpMisses, LookUpFails, Leave
    <3>3. CASE Limit(r)
      BY <3>3 DEF Limit, LimitNext
    <3> QED
      BY <2>3, <3>1, <3>2, <3>3 DEF AdmissionStep
  <2>4. CASE UNCHANGED admission
    BY <2>4 DEF admission
  <2> QED
    BY <2>1, <2>2, <2>3, <2>4 DEF AdmissionNext
<1> QED
  BY <1>1, <1>2, PTL DEF AdmissionSpec, LimitSpec

\* The global limiter is asked as a token bucket of its own.
LEMMA GlobalAsAlone == LimitSpec => Spec
<1>1. LimitInit => Init
  BY DEF LimitInit
<1>2. [LimitNext]_<<vars, limits>> => [Next]_vars
  <2> SUFFICES ASSUME [LimitNext]_<<vars, limits>> PROVE [Next]_vars
    OBVIOUS
  <2>1. CASE Passing
    BY <2>1 DEF Passing, Next
  <2>2. ASSUME NEW r \in Requests, PassGlobal(r) \/ RefuseGlobal(r) PROVE Next
    BY <2>2 DEF PassGlobal, RefuseGlobal, Next
  <2>3. ASSUME NEW r \in Requests, NEW m \in Models,
               EnterUnlimited(r, m) \/ PassModel(r, m) \/ RefuseModel(r, m)
        PROVE  UNCHANGED vars
    BY <2>3 DEF EnterUnlimited, PassModel, RefuseModel
  <2>4. CASE UNCHANGED <<vars, limits>>
    BY <2>4
  <2> QED
    BY <2>1, <2>2, <2>3, <2>4 DEF LimitNext
<1> QED
  BY <1>1, <1>2, PTL DEF LimitSpec, Spec

\* main.go:111-114: over every window the gateway serves no more chat requests than
\* its global burst and rate allow, whoever asks for whatever model.
THEOREM GlobalRateBounded == AdmissionSpec => []NeverTooMany
  BY LimitsAsAlone, GlobalAsAlone, WindowUpperBound, PTL

\* main.go:111-114: and it refuses none at the global limiter without need.
THEOREM GlobalRateGranted == AdmissionSpec => NeverTooFew
<1> QED
  BY LimitsAsAlone, GlobalAsAlone, WindowLowerBound, PTL
-------------------------------------------------------------------------------
\* The limiter of a model is a token bucket of its own.

\* The models' limiters and their counts have an entry for each limited model.
Indexed == /\ DOMAIN modelLimiters = Limited
           /\ modelLimiters = [m \in Limited |-> modelLimiters[m]]
           /\ modelTaken \in [Limited -> Nat]

LEMMA InitIndexed == LimitInit => Indexed
  BY DEF LimitInit, Indexed

LEMMA NextIndexed == Indexed /\ [LimitNext]_<<vars, limits>> => Indexed'
<1> SUFFICES ASSUME Indexed, [LimitNext]_<<vars, limits>>
             PROVE  Indexed'
  OBVIOUS
<1>1. ASSUME NEW r, PassGlobal(r) \/ RefuseGlobal(r)
      PROVE  Indexed'
  BY <1>1 DEF PassGlobal, RefuseGlobal, Indexed
<1>2. ASSUME NEW r, NEW m, EnterUnlimited(r, m) PROVE Indexed'
  BY <1>2 DEF EnterUnlimited, Indexed
<1>3. ASSUME NEW r, NEW m, PassModel(r, m) PROVE Indexed'
  BY <1>3 DEF PassModel, UseModel, InWindow, Indexed
<1>4. ASSUME NEW r, NEW m, RefuseModel(r, m) PROVE Indexed'
  BY <1>4 DEF RefuseModel, UseModel, Indexed
<1>5. CASE Passing \/ UNCHANGED <<vars, limits>>
  BY <1>5 DEF Passing, limits, Indexed
<1> QED
  BY <1>1, <1>2, <1>3, <1>4, <1>5 DEF LimitNext

\* The operators of Bucket are the same in the instance.
LEMMA SameBucket ==
    ASSUME NEW b, NEW qps, NEW burst, NEW now
    PROVE  /\ OfWatched!NewRateLimiter(burst, now) = NewRateLimiter(burst, now)
           /\ OfWatched!AllowToken(b, qps, burst, now) <=> AllowToken(b, qps, burst, now)
           /\ OfWatched!AfterToken(b, qps, burst, now) = AfterToken(b, qps, burst, now)
  BY DEF OfWatched!NewRateLimiter, OfWatched!AllowToken, OfWatched!AfterToken,
         OfWatched!Refilled, NewRateLimiter, AllowToken, AfterToken, Refilled

LEMMA OfWatchedStep ==
    ASSUME Indexed, [LimitNext]_<<vars, limits>>
    PROVE  [OfWatched!Next]_OfWatched!vars
<1> USE LimitsAssumption
<1>1. CASE Passing
  BY <1>1 DEF Passing, Tick, limits, OfWatched!Next, OfWatched!Tick
<1>2. ASSUME NEW r, PassGlobal(r) \/ RefuseGlobal(r)
      PROVE  UNCHANGED OfWatched!vars
  BY <1>2 DEF PassGlobal, RefuseGlobal, Take, Refuse, OfWatched!vars
<1>3. ASSUME NEW r, NEW m, EnterUnlimited(r, m)
      PROVE  UNCHANGED OfWatched!vars
  BY <1>3 DEF EnterUnlimited, vars, OfWatched!vars
<1>4. ASSUME NEW r, NEW m \in Limited, m # Watched, PassModel(r, m) \/ RefuseModel(r, m)
      PROVE  UNCHANGED OfWatched!vars
  BY <1>4 DEF PassModel, RefuseModel, UseModel, Indexed, vars, OfWatched!vars
<1>5. ASSUME NEW r, PassModel(r, Watched)
      PROVE  OfWatched!Take
  BY <1>5, SameBucket DEF PassModel, AllowModel, UseModel, InWindow, Indexed, vars,
              OfWatched!Take, OfWatched!Use
<1>6. ASSUME NEW r, RefuseModel(r, Watched)
      PROVE  OfWatched!Refuse
  BY <1>6, SameBucket DEF RefuseModel, AllowModel, UseModel, Indexed, vars,
              OfWatched!Refuse, OfWatched!Use
<1>7. CASE UNCHANGED <<vars, limits>>
  BY <1>7 DEF vars, limits, OfWatched!vars
<1>8. ASSUME NEW r, NEW m, EnterUnlimited(r, m) \/ PassModel(r, m) \/ RefuseModel(r, m)
      PROVE  [OfWatched!Next]_OfWatched!vars
  <2>1. m \in Limited \/ EnterUnlimited(r, m)
    BY <1>8 DEF PassModel, RefuseModel
  <2> QED
    BY <1>3, <1>4, <1>5, <1>6, <1>8, <2>1 DEF OfWatched!Next
<1> QED
  BY <1>1, <1>2, <1>7, <1>8 DEF LimitNext

\* ratelimit.go:110-118: each model's limiter is a token bucket with the model's
\* limit as its rate and burst, behind authentication and before the global one.
THEOREM ModelLimiterIsBucket == AdmissionSpec => ModelIsTokenBucket
<1>1. LimitInit => OfWatched!Init
  BY LimitsAssumption, SameBucket DEF LimitInit, Init, OfWatched!Init
<1> QED
  BY <1>1, InitIndexed, NextIndexed, OfWatchedStep, LimitsAsAlone, PTL
     DEF LimitSpec, ModelIsTokenBucket, OfWatched!Spec
-------------------------------------------------------------------------------
\* The rate of every model at once. A limiter's bucket and what was taken from it in
\* the window are worth at most its burst and what it has earned in the window.
WithinUpper(b, n, limit) ==
    /\ b \in BucketType /\ n \in Nat
    /\ b.lastRefill <= clock /\ b.tokens <= limit * Cost
    /\ b.lastRefill < windowStart => n = 0
    /\ b.lastRefill >= windowStart =>
         n * Cost + b.tokens <= limit * Cost + limit * (b.lastRefill - windowStart)

Between(m) == {r \in Requests : m \in checking[r]}

\* Who was served for m in the window had a token of it in the window, or was between
\* the limiters when the window began.
ServedFrom(m) ==
    /\ served[m] \in Nat
    /\ clock < windowStart => served[m] = 0 /\ modelTaken[m] = 0
    /\ served[m] + Cardinality(Between(m)) <= modelTaken[m] + Cardinality(Requests)

RateIInv == /\ Indexed
            /\ clock \in Nat /\ windowStart \in Nat
            /\ DOMAIN served = Models
            /\ DOMAIN checking = Requests
            /\ \A m \in Limited : /\ WithinUpper(modelLimiters[m], modelTaken[m], ModelLimits[m])
                                  /\ ServedFrom(m)

LEMMA LimitNat == \A m \in Limited : /\ ModelLimits[m] \in Nat /\ m \in Models
                                     /\ ModelLimits[m] * Cost \in Nat
<1> USE LimitsAssumption
<1>1. \A m \in Limited : ModelLimits[m] \in Nat /\ m \in Models
  BY DEF Limited
<1> QED
  BY <1>1, ProductNat, CostAssumption

LEMMA BetweenFinite ==
    \A m : Cardinality(Between(m)) \in Nat /\ Cardinality(Requests) \in Nat
             /\ Cardinality(Between(m)) <= Cardinality(Requests) /\ IsFiniteSet(Between(m))
  BY RequestsAssumption, FS_Subset, FS_CardinalityType DEF Between

\* A call of Allow keeps the bound, whatever its answer.
LEMMA UseWithinUpper ==
    ASSUME NEW b, NEW n, NEW limit \in Nat, clock \in Nat, windowStart \in Nat,
           WithinUpper(b, n, limit)
    PROVE  LET c == AfterToken(b, limit, limit, clock)
               k == IF AllowToken(b, limit, limit, clock) THEN n + InWindow ELSE n
           IN  WithinUpper(c, k, limit)
<1> USE CostAssumption
<1> DEFINE t == Refilled(b, limit, limit, clock)
           left == IF t >= Cost THEN t - Cost ELSE t
           k == IF t >= Cost THEN n + InWindow ELSE n
           cap == limit * Cost
           earned == limit * (clock - b.lastRefill)
           before == limit * (b.lastRefill - windowStart)
           all == limit * (clock - windowStart)
<1>1. /\ b.tokens \in Nat /\ b.lastRefill \in Nat /\ b.lastRefill <= clock /\ n \in Nat
      /\ n * Cost \in Nat /\ cap \in Nat /\ b.tokens <= cap
  BY ProductNat DEF WithinUpper, BucketType
<1>2. earned \in Nat /\ (clock - b.lastRefill) * limit = earned
  BY <1>1, ProductNat
<1>3. t = IF b.tokens + earned > cap THEN cap ELSE b.tokens + earned
  BY <1>2 DEF Refilled
<1>4. /\ AfterToken(b, limit, limit, clock) = [tokens |-> left, lastRefill |-> clock]
      /\ AllowToken(b, limit, limit, clock) <=> t >= Cost
  BY DEF AfterToken, AllowToken
<1>5. clock >= windowStart => all \in Nat
  BY ProductNat
<1>6. b.lastRefill >= windowStart => before \in Nat /\ earned + before = all
  BY <1>1, ProductNat, ProductSplit
<1>7. /\ b.lastRefill < windowStart => n = 0 /\ n * Cost = 0
      /\ b.lastRefill >= windowStart => n * Cost + b.tokens <= cap + before
  BY DEF WithinUpper
<1>8. (n + 1) * Cost = n * Cost + Cost
  BY <1>1, ProductNext
<1> HIDE DEF cap, earned, before, all, t
<1>9. t \in Nat /\ t <= cap
  BY <1>1, <1>2, <1>3
<1>10. clock >= windowStart => n * Cost + t <= cap + all
  BY <1>1, <1>2, <1>3, <1>5, <1>6, <1>7, <1>9
<1>11. left \in Nat /\ left <= cap
  BY <1>1, <1>9
<1>12. /\ k \in Nat /\ (clock < windowStart => k = n)
       /\ clock >= windowStart => k * Cost + left = n * Cost + t
  BY <1>1, <1>8, <1>9 DEF InWindow
<1>13. clock < windowStart => n = 0
  BY <1>1, <1>7
<1> HIDE DEF left, k
<1>14. WithinUpper([tokens |-> left, lastRefill |-> clock], k, limit)
  BY <1>10, <1>11, <1>12, <1>13 DEF WithinUpper, BucketType, cap, all
<1> QED
  BY <1>4, <1>14 DEF k

LEMMA InitRate == LimitInit => RateIInv
<1> SUFFICES ASSUME LimitInit PROVE RateIInv
  OBVIOUS
<1>1. clock = 0 /\ windowStart \in Nat /\ DOMAIN served = Models /\ DOMAIN checking = Requests
  BY BucketAssumption DEF LimitInit, Init
<1>2. ASSUME NEW m \in Limited
      PROVE  WithinUpper(modelLimiters[m], modelTaken[m], ModelLimits[m]) /\ ServedFrom(m)
  <2>1. /\ modelLimiters[m] = [tokens |-> ModelLimits[m] * Cost, lastRefill |-> 0]
        /\ modelTaken[m] = 0 /\ served[m] = 0
    BY LimitNat DEF LimitInit, NewRateLimiter
  <2>2. /\ ModelLimits[m] \in Nat /\ ModelLimits[m] * Cost \in Nat
        /\ 0 * Cost = 0 /\ ModelLimits[m] * (0 - 0) = 0
    BY LimitNat, CostAssumption
  <2> QED
    BY <1>1, <2>1, <2>2, BetweenFinite DEF WithinUpper, BucketType, ServedFrom
<1> QED
  BY <1>1, <1>2, InitIndexed DEF RateIInv

\* A request comes between the limiters, or leaves.
LEMMA Comes ==
    ASSUME DOMAIN checking = Requests, NEW r \in Requests, NEW m, NEW n, checking[r] = {},
           checking' = [checking EXCEPT ![r] = {n}]
    PROVE  /\ m = n => Cardinality(Between(m))' = Cardinality(Between(m)) + 1
           /\ m # n => Cardinality(Between(m))' = Cardinality(Between(m))
<1>1. Between(m)' = IF m = n THEN Between(m) \cup {r} ELSE Between(m)
  BY DEF Between
<1>2. r \notin Between(m)
  BY DEF Between
<1> QED
  BY <1>1, <1>2, BetweenFinite, FS_AddElement

LEMMA Goes ==
    ASSUME DOMAIN checking = Requests, NEW r \in Requests, NEW m,
           checking' = [checking EXCEPT ![r] = {}]
    PROVE  Cardinality(Between(m))' = IF m \in checking[r] THEN Cardinality(Between(m)) - 1
                                                           ELSE Cardinality(Between(m))
<1>1. Between(m)' = Between(m) \ {r}
  BY DEF Between
<1>2. r \in Between(m) <=> m \in checking[r]
  BY DEF Between
<1> QED
  BY <1>1, <1>2, BetweenFinite, FS_RemoveElement

LEMMA NextRate == RateIInv /\ [LimitNext]_<<vars, limits>> => RateIInv'
<1> SUFFICES ASSUME RateIInv, [LimitNext]_<<vars, limits>> PROVE RateIInv'
  OBVIOUS
<1> USE DEF RateIInv
<1>1. Indexed'
  BY NextIndexed
<1>2. /\ \A m : /\ Cardinality(Between(m)) \in Nat /\ Cardinality(Between(m))' \in Nat
                /\ Cardinality(Between(m))' <= Cardinality(Requests)
      /\ Cardinality(Requests) \in Nat
  <2>1. \A m : Between(m)' \in SUBSET Requests
    BY DEF Between
  <2> QED
    BY <2>1, BetweenFinite, RequestsAssumption, FS_Subset, FS_CardinalityType
<1>3. CASE Passing \/ UNCHANGED <<vars, limits>>
  <2>1. /\ clock' \in {clock, clock + 1} /\ windowStart' = windowStart
        /\ UNCHANGED limits
    BY <1>3 DEF Passing, Tick, vars
  <2>2. ASSUME NEW m \in Limited
        PROVE  (WithinUpper(modelLimiters[m], modelTaken[m], ModelLimits[m]) /\ ServedFrom(m))'
    <3>1. WithinUpper(modelLimiters[m], modelTaken[m], ModelLimits[m])'
      BY <2>1 DEF limits, WithinUpper, BucketType
    <3>2. ServedFrom(m)'
      BY <2>1 DEF limits, ServedFrom, Between
    <3> QED
      BY <3>1, <3>2
  <2> QED
    BY <1>1, <2>1, <2>2 DEF limits
<1>4. ASSUME NEW r \in Requests, NEW n \in Models, EnterUnlimited(r, n) PROVE RateIInv'
  <2>1. /\ UNCHANGED <<clock, windowStart, modelLimiters, modelTaken, served>>
        /\ checking[r] = {} /\ checking' = [checking EXCEPT ![r] = {n}] /\ n \notin Limited
    BY <1>4 DEF EnterUnlimited, vars
  <2>2. \A m \in Limited : Cardinality(Between(m))' = Cardinality(Between(m))
    BY <2>1, Comes
  <2>3. \A m \in Limited : ServedFrom(m)'
    BY <2>1, <2>2 DEF ServedFrom
  <2> QED
    BY <1>1, <2>1, <2>3 DEF WithinUpper
<1>5. ASSUME NEW r \in Requests, NEW n \in Models, PassModel(r, n) PROVE RateIInv'
  <2>1. /\ n \in Limited /\ AllowModel(n) /\ UNCHANGED <<clock, windowStart, served>>
        /\ checking[r] = {} /\ checking' = [checking EXCEPT ![r] = {n}]
        /\ modelLimiters' = [modelLimiters EXCEPT
               ![n] = AfterToken(modelLimiters[n], ModelLimits[n], ModelLimits[n], clock)]
        /\ modelTaken' = [modelTaken EXCEPT ![n] = modelTaken[n] + InWindow]
    BY <1>5 DEF PassModel, UseModel, vars
  <2>2. WithinUpper(modelLimiters'[n], modelTaken'[n], ModelLimits[n])
    BY <2>1, LimitNat, UseWithinUpper DEF AllowModel, Indexed
  <2>3. \A m \in Limited : WithinUpper(modelLimiters[m], modelTaken[m], ModelLimits[m])'
    BY <2>1, <2>2 DEF WithinUpper, Indexed
  <2>4. ServedFrom(n)'
    <3>1. /\ Cardinality(Between(n))' = Cardinality(Between(n)) + 1
          /\ modelTaken'[n] = modelTaken[n] + InWindow /\ modelTaken[n] \in Nat
      BY <2>1, Comes DEF Indexed
    <3> QED
      BY <1>2, <2>1, <3>1 DEF ServedFrom, InWindow
  <2>5. ASSUME NEW m \in Limited, m # n PROVE ServedFrom(m)'
    <3>1. Cardinality(Between(m))' = Cardinality(Between(m))
      <4>1. DOMAIN checking = Requests /\ checking[r] = {}
        BY <2>1
      <4>2. checking' = [checking EXCEPT ![r] = {n}]
        BY <2>1
      <4> QED
        BY <2>5, <4>1, <4>2, Comes
    <3>2. modelTaken'[m] = modelTaken[m]
      BY <2>1, <2>5 DEF Indexed
    <3> QED
      BY <2>1, <3>1, <3>2 DEF ServedFrom
  <2> QED
    BY <1>1, <2>1, <2>3, <2>4, <2>5
<1>6. ASSUME NEW r \in Requests, NEW n \in Models, RefuseModel(r, n) PROVE RateIInv'
  <2>1. /\ n \in Limited /\ ~ AllowModel(n)
        /\ UNCHANGED <<clock, windowStart, served, checking, modelTaken>>
        /\ modelLimiters' = [modelLimiters EXCEPT
               ![n] = AfterToken(modelLimiters[n], ModelLimits[n], ModelLimits[n], clock)]
    BY <1>6 DEF RefuseModel, UseModel, vars
  <2>2. WithinUpper(modelLimiters'[n], modelTaken'[n], ModelLimits[n])
    BY <2>1, LimitNat, UseWithinUpper DEF AllowModel, Indexed
  <2>3. \A m \in Limited : WithinUpper(modelLimiters[m], modelTaken[m], ModelLimits[m])'
    BY <2>1, <2>2 DEF WithinUpper, Indexed
  <2>4. \A m \in Limited : ServedFrom(m)'
    BY <2>1 DEF ServedFrom, Between
  <2> QED
    BY <1>1, <2>1, <2>3, <2>4
<1>7. ASSUME NEW r \in Requests, PassGlobal(r) PROVE RateIInv'
  <2>1. PICK n \in checking[r] :
          /\ served' = [served EXCEPT ![n] = served[n] + InWindow]
          /\ checking' = [checking EXCEPT ![r] = {}]
          /\ UNCHANGED <<clock, windowStart, modelLimiters, modelTaken>>
    BY <1>7 DEF PassGlobal, Take
  <2>2. ASSUME NEW m \in Limited PROVE ServedFrom(m)'
    <3>1. Cardinality(Between(m))' = IF m \in checking[r] THEN Cardinality(Between(m)) - 1
                                                          ELSE Cardinality(Between(m))
      BY <2>1, Goes
    <3>2. served'[m] = IF m = n THEN served[m] + InWindow ELSE served[m]
      BY <2>1, LimitNat
    <3>3. modelTaken[m] \in Nat
      BY DEF Indexed
    <3> QED
      BY <1>2, <2>1, <3>1, <3>2, <3>3 DEF ServedFrom, InWindow
  <2> QED
    BY <1>1, <2>1, <2>2 DEF WithinUpper
<1>8. ASSUME NEW r \in Requests, RefuseGlobal(r) PROVE RateIInv'
  <2>1. /\ UNCHANGED <<clock, windowStart, modelLimiters, modelTaken, served>>
        /\ checking' = [checking EXCEPT ![r] = {}]
    BY <1>8 DEF RefuseGlobal, Refuse
  <2>2. ASSUME NEW m \in Limited PROVE ServedFrom(m)'
    <3>1. Cardinality(Between(m))' <= Cardinality(Between(m))
      <4>1. Cardinality(Between(m))' \in {Cardinality(Between(m)) - 1, Cardinality(Between(m))}
        BY <2>1, Goes
      <4> QED
        BY <1>2, <4>1
    <3>2. modelTaken[m] \in Nat
      BY DEF Indexed
    <3> QED
      BY <1>2, <2>1, <3>1, <3>2 DEF ServedFrom
  <2> QED
    BY <1>1, <2>1, <2>2 DEF WithinUpper
<1> QED
  BY <1>3, <1>4, <1>5, <1>6, <1>7, <1>8 DEF LimitNext

\* config.go:84 per-model QPS limit: over any window each limited model gets no more
\* than its limit as a burst, its limit per second and the requests that were between
\* the limiters when the window began, for any number of requests and models.
THEOREM ModelRatesBounded == AdmissionSpec => []ModelRateBounded
<1>1. RateIInv => ModelRateBounded
  <2> SUFFICES ASSUME RateIInv, NEW m \in Limited
               PROVE  (served[m] - Cardinality(Requests)) * Cost
                        <= ModelLimits[m] * Cost
                             + (IF clock >= windowStart
                                THEN ModelLimits[m] * (clock - windowStart) ELSE 0)
    BY DEF ModelRateBounded
  <2> DEFINE b == modelLimiters[m]
             n == modelTaken[m]
             limit == ModelLimits[m]
             over == served[m] - Cardinality(Requests)
  <2> USE CostAssumption
  <2>1. /\ limit \in Nat /\ limit * Cost \in Nat /\ clock \in Nat /\ windowStart \in Nat
        /\ WithinUpper(b, n, limit)
    BY LimitNat DEF RateIInv
  <2>2. /\ n \in Nat /\ n * Cost \in Nat /\ b.tokens \in Nat /\ b.lastRefill \in Nat
        /\ b.lastRefill <= clock
    BY <2>1, ProductNat DEF WithinUpper, BucketType
  <2>3. over \in Int /\ over <= n
    BY <2>2, BetweenFinite DEF RateIInv, ServedFrom
  <2> HIDE DEF over, n, b, limit
  <2>4. over * Cost <= n * Cost
    BY <2>2, <2>3
  <2>5. CASE b.lastRefill < windowStart
    <3>1. n * Cost = 0
      BY <2>1, <2>5 DEF WithinUpper
    <3>2. clock >= windowStart => limit * (clock - windowStart) \in Nat
      BY <2>1, ProductNat
    <3> QED
      BY <2>1, <2>3, <2>4, <3>1, <3>2 DEF over, limit
  <2>6. CASE b.lastRefill >= windowStart
    <3>1. /\ limit * (b.lastRefill - windowStart) <= limit * (clock - windowStart)
          /\ limit * (b.lastRefill - windowStart) \in Nat
          /\ limit * (clock - windowStart) \in Nat
      BY <2>1, <2>2, <2>6, ProductMono, ProductNat
    <3>2. n * Cost + b.tokens <= limit * Cost + limit * (b.lastRefill - windowStart)
      BY <2>1, <2>6 DEF WithinUpper
    <3>3. n * Cost <= limit * Cost + limit * (clock - windowStart)
      BY <2>1, <2>2, <3>1, <3>2
    <3>4. over * Cost \in Int
      BY <2>3
    <3>5. over * Cost <= limit * Cost + limit * (clock - windowStart)
      BY <2>1, <2>2, <2>4, <3>1, <3>3, <3>4
    <3> QED
      BY <2>1, <2>2, <2>6, <3>5 DEF over, limit
  <2> QED
    BY <2>1, <2>2, <2>5, <2>6
<1> QED
  BY <1>1, InitRate, NextRate, LimitsAsAlone, PTL DEF LimitSpec
-------------------------------------------------------------------------------
\* What a request has spent, and what it has shown.

AskingType == [stage : {"idle", "auth", "limit", "refused", "handler"},
               route : {"chat", "embeddings"}, key : Keys \cup {NoKey},
               status : Nat, seen : BOOLEAN, spent : Nat]

\* The locals of a request, the model it is between the limiters with, if it is,
\* and the keys in Redis.
Told(a, between, keys) ==
    /\ a.stage \in {"idle", "auth"} => a.spent = 0
    /\ a.stage = "auth" /\ a.key \in keys => a.seen
    /\ a.stage = "limit" => a.route = "chat" /\ a.spent <= 1
    /\ a.stage = "limit" /\ between = {} => a.spent = 0
    /\ a.stage # "limit" => between = {}
    /\ a.stage \in {"limit", "handler"} /\ redis => a.seen
    /\ a.stage = "refused" => \/ a.status = 401 /\ a.spent = 0 /\ redis
                              \/ a.status = 429 /\ a.route = "chat" /\ a.spent <= 1
    /\ a.stage = "handler" /\ a.route = "chat" => a.spent \in {1, 2}
    /\ a.stage = "handler" /\ a.route # "chat" => a.spent = 0

AdmissionIInv == /\ asking \in [Requests -> AskingType]
                 /\ checking \in [Requests -> SUBSET Models]
                 /\ \A r \in Requests : Told(asking[r], checking[r], provisioned)

LEMMA InitAsking == AdmissionInit => AdmissionIInv
  BY DEF AdmissionInit, LimitInit, NotAsking, AdmissionIInv, AskingType, Told

\* A step of one request that leaves it with locals that tell the truth.
LEMMA OneAsking ==
    ASSUME AdmissionIInv, NEW r \in Requests, NEW a \in AskingType,
           NEW between \in SUBSET Models, Told(a, between, provisioned),
           asking' = [asking EXCEPT ![r] = a], checking' = [checking EXCEPT ![r] = between],
           UNCHANGED <<redis, provisioned>>
    PROVE  AdmissionIInv'
  BY DEF AdmissionIInv, Told

LEMMA StaysBetween ==
    ASSUME AdmissionIInv, NEW r \in Requests, UNCHANGED limits
    PROVE  checking' = [checking EXCEPT ![r] = checking[r]] /\ checking[r] \in SUBSET Models
  BY DEF AdmissionIInv, limits

LEMMA Statuses ==
    /\ HTTPStatus(MissingAPIKey) = 401 /\ HTTPStatus(InvalidAPIKey) = 401
    /\ HTTPStatus(RateLimitExceeded) = 429
  BY DEF HTTPStatus, MissingAPIKey, InvalidAPIKey, RateLimitExceeded, GatewayError

LEMMA Routes ==
    ASSUME NEW route \in {"chat", "embeddings"}
    PROVE  /\ Following("idle", route) = "auth"
           /\ Following("auth", route) = IF route = "chat" THEN "limit" ELSE "handler"
           /\ Following("limit", route) = "handler"
  BY DEF Following

LEMMA ArriveTells ==
    ASSUME AdmissionIInv, NEW r \in Requests, NEW route \in {"chat", "embeddings"},
           NEW k \in Keys \cup {NoKey}, Arrive(r, route, k)
    PROVE  AdmissionIInv'
<1> DEFINE seen == k \in provisioned
           a == [NotAsking EXCEPT !.stage = "auth", !.route = route, !.key = k,
                                  !.seen = seen]
<1>1. asking[r].stage = "idle" /\ checking[r] = {}
  BY DEF Arrive, AdmissionIInv, Told
<1>2. a \in AskingType /\ Told(a, {}, provisioned)
  <2>1. seen \in BOOLEAN /\ (seen <=> k \in provisioned)
    OBVIOUS
  <2> HIDE DEF seen
  <2>2. a \in AskingType
    BY <2>1 DEF NotAsking, AskingType
  <2>3. a.stage = "auth" /\ a.spent = 0 /\ a.key = k /\ a.seen = seen
    BY DEF NotAsking
  <2> HIDE DEF a
  <2> QED
    BY <2>1, <2>2, <2>3 DEF Told
<1>3. asking' = [asking EXCEPT ![r] = a] /\ UNCHANGED <<limits, redis, provisioned>>
  BY Routes DEF Arrive
<1> HIDE DEF a
<1> QED
  BY <1>1, <1>2, <1>3, StaysBetween, OneAsking

\* A request that APIKeyAuth lets pass.
LEMMA ProceedTells ==
    ASSUME AdmissionIInv, NEW r \in Requests, asking[r].stage = "auth",
           redis => asking[r].seen, Proceed(r, 0),
           UNCHANGED <<limits, redis, provisioned>>
    PROVE  AdmissionIInv'
<1> DEFINE next == IF asking[r].route = "chat" THEN "limit" ELSE "handler"
           a == [asking[r] EXCEPT !.stage = next]
<1>1. asking[r] \in AskingType /\ Told(asking[r], checking[r], provisioned)
  BY DEF AdmissionIInv
<1>2. asking[r].spent = 0 /\ checking[r] = {}
  BY <1>1 DEF Told
<1>3. a \in AskingType /\ Told(a, {}, provisioned)
  BY <1>1, <1>2 DEF AskingType, Told
<1>4. asking' = [asking EXCEPT ![r] = a]
  <2>1. Following(asking[r].stage, asking[r].route) = next /\ asking[r].spent + 0 = 0
    BY <1>1, <1>2, Routes DEF AskingType
  <2>2. asking' = [asking EXCEPT ![r] = [asking[r] EXCEPT !.stage = next, !.spent = 0]]
    BY <2>1 DEF Proceed, AdmissionIInv
  <2>3. a = [asking[r] EXCEPT !.stage = next, !.spent = 0]
    BY <1>1, <1>2 DEF AskingType
  <2> QED
    BY <2>2, <2>3
<1> HIDE DEF a
<1> QED
  BY <1>2, <1>3, <1>4, StaysBetween, OneAsking

\* A request that APIKeyAuth turns away.
LEMMA AbortTells ==
    ASSUME AdmissionIInv, NEW r \in Requests, asking[r].stage = "auth", redis,
           NEW e \in {MissingAPIKey, InvalidAPIKey}, Abort(r, e),
           UNCHANGED <<limits, redis, provisioned>>
    PROVE  AdmissionIInv'
<1> DEFINE b == [asking[r] EXCEPT !.stage = "refused"]
           a == [b EXCEPT !.status = HTTPStatus(e)]
<1>1. asking[r] \in AskingType /\ Told(asking[r], checking[r], provisioned)
  BY DEF AdmissionIInv
<1>2. asking[r].spent = 0 /\ checking[r] = {}
  BY <1>1 DEF Told
<1>3. a \in AskingType /\ Told(a, {}, provisioned)
  <2>1. HTTPStatus(e) = 401 /\ HTTPStatus(e) \in Nat
    BY Statuses
  <2>2. b \in AskingType /\ b.stage = "refused" /\ b.spent = 0
    BY <1>1, <1>2 DEF AskingType
  <2> HIDE DEF b
  <2>3. a \in AskingType /\ a.stage = "refused" /\ a.status = 401 /\ a.spent = 0
    BY <2>1, <2>2 DEF AskingType
  <2> HIDE DEF a
  <2> QED
    BY <2>2, <2>3 DEF Told
<1>4. asking' = [asking EXCEPT ![r] = a]
  BY DEF Abort, AdmissionIInv
<1> HIDE DEF a
<1> QED
  BY <1>2, <1>3, <1>4, StaysBetween, OneAsking

\* Keys come and go: only what requests before APIKeyAuth have shown grows.
LEMMA ProvideTells ==
    ASSUME AdmissionIInv, NEW keys, Provide(keys)
    PROVE  AdmissionIInv'
<1>1. ASSUME NEW r \in Requests
      PROVE  asking'[r] \in AskingType /\ Told(asking[r], checking[r], provisioned)'
  <2> DEFINE a == asking[r]
             seen == a.seen \/ a.key \in keys
  <2>1. a \in AskingType /\ Told(a, checking[r], provisioned)
    BY DEF AdmissionIInv
  <2>2. CASE a.stage # "auth"
    <3>1. asking'[r] = a
      BY <2>2 DEF Provide
    <3> HIDE DEF a
    <3> QED
      BY <2>1, <2>2, <3>1 DEF Provide, Told, limits
  <2>3. CASE a.stage = "auth"
    <3>1. asking'[r] = [a EXCEPT !.seen = seen]
      BY <2>3 DEF Provide
    <3>2. seen \in BOOLEAN /\ (a.key \in keys => seen)
      OBVIOUS
    <3> HIDE DEF a, seen
    <3>3. asking'[r] \in AskingType
      BY <2>1, <3>1, <3>2 DEF AskingType
    <3>4. /\ asking'[r].stage = "auth" /\ asking'[r].spent = a.spent
          /\ asking'[r].key = a.key /\ asking'[r].seen = seen
      BY <2>1, <2>3, <3>1 DEF AskingType
    <3>5. checking[r]' = {} /\ provisioned' = keys /\ a.spent = 0
      BY <2>1, <2>3 DEF Provide, Told, limits
    <3> QED
      BY <3>2, <3>3, <3>4, <3>5 DEF Told
  <2> QED
    BY <2>2, <2>3
<1>2. asking' \in [Requests -> AskingType]
  BY <1>1 DEF Provide
<1> QED
  BY <1>1, <1>2 DEF AdmissionIInv, Provide, limits

\* A request between APIKeyAuth and its handler.
LEMMA LimitTells ==
    ASSUME AdmissionIInv, NEW r \in Requests, Limit(r) PROVE AdmissionIInv'
<1>1. /\ asking[r] \in AskingType /\ asking[r].stage = "limit"
      /\ asking[r].route = "chat" /\ asking[r].spent <= 1 /\ (redis => asking[r].seen)
      /\ checking[r] \in SUBSET Models /\ (checking[r] = {} => asking[r].spent = 0)
  BY DEF Limit, AdmissionIInv, Told
<1>2. UNCHANGED <<redis, provisioned>>
  BY DEF Limit
<1>3. ASSUME Abort(r, RateLimitExceeded), checking' = [checking EXCEPT ![r] = {}]
      PROVE  AdmissionIInv'
  <2> DEFINE b == [asking[r] EXCEPT !.stage = "refused"]
             a == [b EXCEPT !.status = HTTPStatus(RateLimitExceeded)]
  <2>1. asking' = [asking EXCEPT ![r] = a]
    BY <1>3 DEF Abort, AdmissionIInv
  <2>2. b \in AskingType /\ b.stage = "refused" /\ b.route = "chat" /\ b.spent <= 1
    BY <1>1 DEF AskingType
  <2> HIDE DEF b
  <2>3. HTTPStatus(RateLimitExceeded) = 429 /\ HTTPStatus(RateLimitExceeded) \in Nat
    BY Statuses
  <2>4. /\ a \in AskingType /\ a.stage = "refused" /\ a.status = 429
        /\ a.route = "chat" /\ a.spent <= 1
    BY <2>2, <2>3 DEF AskingType
  <2> HIDE DEF a
  <2>5. Told(a, {}, provisioned)
    BY <2>4 DEF Told
  <2>6. checking' = [checking EXCEPT ![r] = {}] /\ {} \in SUBSET Models
    BY <1>3
  <2>7. ASSUME NEW x \in AskingType, Told(x, {}, provisioned),
               asking' = [asking EXCEPT ![r] = x]
        PROVE  AdmissionIInv'
    BY <1>2, <2>6, <2>7, OneAsking
  <2> QED
    BY <2>1, <2>4, <2>5, <2>7
<1>4. ASSUME NEW m \in Models, EnterUnlimited(r, m), UNCHANGED asking
      PROVE  AdmissionIInv'
  <2>1. Told(asking[r], {m}, provisioned) /\ {m} \in SUBSET Models
    BY <1>1 DEF AdmissionIInv, Told
  <2>2. asking' = [asking EXCEPT ![r] = asking[r]] /\ checking' = [checking EXCEPT ![r] = {m}]
    BY <1>4 DEF EnterUnlimited, AdmissionIInv
  <2> QED
    BY <1>1, <1>2, <1>4, <2>1, <2>2, OneAsking
<1>5. ASSUME NEW m \in Models, PassModel(r, m),
             asking' = [asking EXCEPT ![r].spent = @ + 1]
      PROVE  AdmissionIInv'
  <2> DEFINE a == [asking[r] EXCEPT !.spent = asking[r].spent + 1]
  <2>1. asking[r].spent = 0 /\ {m} # {} /\ {m} \in SUBSET Models
    BY <1>1, <1>5 DEF PassModel
  <2>2. /\ a \in AskingType /\ a.stage = "limit" /\ a.route = "chat" /\ a.spent = 1
        /\ a.seen = asking[r].seen
    BY <1>1, <2>1 DEF AskingType
  <2>3. asking' = [asking EXCEPT ![r] = a] /\ checking' = [checking EXCEPT ![r] = {m}]
    BY <1>5 DEF PassModel, AdmissionIInv
  <2> HIDE DEF a
  <2>4. Told(a, {m}, provisioned)
    BY <1>1, <2>1, <2>2 DEF Told
  <2> QED
    BY <1>2, <2>1, <2>2, <2>3, <2>4, OneAsking
<1>6. ASSUME NEW m \in Models, RefuseModel(r, m), Abort(r, RateLimitExceeded)
      PROVE  AdmissionIInv'
  <2>1. checking' = [checking EXCEPT ![r] = {}]
    BY <1>6 DEF RefuseModel, AdmissionIInv
  <2> QED
    BY <1>3, <1>6, <2>1
<1>7. ASSUME PassGlobal(r), Proceed(r, 1) PROVE AdmissionIInv'
  <2> DEFINE b == [asking[r] EXCEPT !.stage = "handler"]
             a == [b EXCEPT !.spent = asking[r].spent + 1]
  <2>1. /\ b \in AskingType /\ b.stage = "handler" /\ b.route = "chat"
        /\ b.seen = asking[r].seen
    BY <1>1 DEF AskingType
  <2>2. asking[r].spent + 1 \in Nat /\ asking[r].spent + 1 \in {1, 2}
    BY <1>1 DEF AskingType
  <2>3. Following(asking[r].stage, asking[r].route) = "handler"
    BY <1>1, Routes
  <2>4. asking' = [asking EXCEPT ![r] = a]
    BY <1>7, <2>3 DEF Proceed, AdmissionIInv
  <2> HIDE DEF b
  <2>5. /\ a \in AskingType /\ a.stage = "handler" /\ a.route = "chat"
        /\ a.spent \in {1, 2} /\ a.seen = asking[r].seen
    BY <2>1, <2>2 DEF AskingType
  <2> HIDE DEF a
  <2>6. checking' = [checking EXCEPT ![r] = {}]
    BY <1>7 DEF PassGlobal
  <2>7. Told(a, {}, provisioned)
    BY <1>1, <2>5 DEF Told
  <2> QED
    BY <1>2, <2>4, <2>5, <2>6, <2>7, OneAsking
<1>8. ASSUME RefuseGlobal(r), Abort(r, RateLimitExceeded) PROVE AdmissionIInv'
  BY <1>3, <1>8 DEF RefuseGlobal
<1> QED
  BY <1>4, <1>5, <1>6, <1>7, <1>8 DEF Limit

LEMMA NextAsking == AdmissionIInv /\ [AdmissionNext]_admission => AdmissionIInv'
<1> SUFFICES ASSUME AdmissionIInv, [AdmissionNext]_admission PROVE AdmissionIInv'
  OBVIOUS
<1>1. CASE UNCHANGED <<checking, auth>>
  BY <1>1 DEF auth, AdmissionIInv, Told
<1>2. ASSUME NEW r \in Requests, AdmissionStep(r) PROVE AdmissionIInv'
  <2>1. ASSUME NEW route \in {"chat", "embeddings"}, NEW k \in Keys \cup {NoKey},
               Arrive(r, route, k)
        PROVE  AdmissionIInv'
    BY <2>1, ArriveTells
  <2>2. CASE SkipAuth(r)
    BY <2>2, ProceedTells DEF SkipAuth
  <2>3. CASE LookUp(r)
    <3>1. asking[r].seen
      BY <2>3 DEF LookUp, Found, AdmissionIInv, Told
    <3> QED
      BY <2>3, <3>1, ProceedTells DEF LookUp
  <2>4. CASE RefuseHeader(r) \/ LookUpMisses(r) \/ LookUpFails(r)
    BY <2>4, AbortTells DEF RefuseHeader, LookUpMisses, LookUpFails
  <2>5. CASE Limit(r)
    BY <2>5, LimitTells
  <2>6. CASE Leave(r)
    <3>1. NotAsking \in AskingType /\ Told(NotAsking, {}, provisioned)
      BY DEF NotAsking, AskingType, Told
    <3>2. checking[r] = {}
      BY <2>6 DEF Leave, AdmissionIInv, Told
    <3> QED
      BY <2>6, <3>1, <3>2, StaysBetween, OneAsking DEF Leave
  <2> QED
    BY <1>2, <2>1, <2>2, <2>3, <2>4, <2>5, <2>6 DEF AdmissionStep
<1> QED
  BY <1>1, <1>2, ProvideTells DEF AdmissionNext, admission, Passing, limits

LEMMA Asking == AdmissionSpec => []AdmissionIInv
  BY InitAsking, NextAsking, PTL DEF AdmissionSpec

\* main.go:111-120, ratelimit.go:110-124: a request costs the limiters what became of
\* it, for any requests, keys and limits, and however they interleave.
THEOREM SpendingFollows == AdmissionSpec => []SpendingExplained
<1>1. AdmissionIInv => SpendingExplained
  BY DEF AdmissionIInv, Told, AskingType, SpendingExplained
<1> QED
  BY <1>1, Asking, PTL

\* auth.go:70-75: with Redis there, who is served had a key in Redis while APIKeyAuth
\* looked for it; without, nobody is turned away for want of one.
THEOREM AuthFollows == AdmissionSpec => []AuthExplained
<1>1. AdmissionIInv => AuthExplained
  BY DEF AdmissionIInv, Told, AuthExplained
<1> QED
  BY <1>1, Asking, PTL
=================================================================================
