----------------------------- MODULE EmbeddingProofs -----------------------------
(***************************************************************************)
(* The embedding path for any number of requests, attempts, outages and    *)
(* clients that hang up: how far the shared health answer lags behind the  *)
(* worker, how early and how late a call of Generate ends, and that the    *)
(* handler around both leaves them so and records what it sent.            *)
(***************************************************************************)
EXTENDS EmbeddingHandler, NaturalsInduction, WellFoundedInduction, TLAPS

\* Readings in use are at most one latency old.
ReadingsFresh == \A r \in Requests :
    pc[r] # "idle" => now[r] <= clock /\ clock - now[r] <= MaxLatency

\* A probe's result that is wrong by now was read off before the worker changed.
ProbesDateBack == \A r \in Requests :
    pc[r] = "storing" /\ healthy[r] # worker => now[r] <= since

\* A wrong answer belongs to a request that began before the TTL ran out.
AnswersDateBack == \A r \in Requests :
    pc[r] = "answer" /\ healthy[r] # worker => now[r] < since + HealthTTL

IInv == /\ TypeOK
        /\ since <= clock
        /\ ReadingsFresh
        /\ ProbesDateBack
        /\ AnswersDateBack
        /\ CacheDatesBack

------------------------------------------------------------------------------
LEMMA InitIInv == Init => IInv
<1> SUFFICES ASSUME Init PROVE IInv
  OBVIOUS
<1>1. lastHealthValue \in BOOLEAN /\ healthy \in [Requests -> BOOLEAN]
  BY Zenon DEF Init
<1>2. /\ clock \in Nat /\ lastHealthAt = ZeroTime /\ lastHealthAt <= clock
      /\ since \in Nat /\ since <= clock /\ worker \in BOOLEAN
      /\ now \in [Requests -> Nat]
  BY DEF Init, ZeroTime
<1>3. pc = [r \in Requests |-> "idle"]
  BY DEF Init
<1>4. TypeOK
  BY <1>1, <1>2, <1>3 DEF TypeOK
<1>5. ReadingsFresh /\ ProbesDateBack /\ AnswersDateBack /\ CacheDatesBack
  BY <1>2, <1>3 DEF ReadingsFresh, ProbesDateBack, AnswersDateBack, CacheDatesBack
<1> QED
  BY <1>2, <1>4, <1>5 DEF IInv

LEMMA TickIInv == IInv /\ Tick => IInv'
<1> SUFFICES ASSUME IInv, Tick PROVE IInv'
  OBVIOUS
<1> USE HealthAssumption
<1>1. TypeOK' /\ since' <= clock'
  BY DEF IInv, Tick, cache, TypeOK, ZeroTime
<1>2. ReadingsFresh'
  BY DEF IInv, Tick, TypeOK, ReadingsFresh
<1>3. ProbesDateBack' /\ AnswersDateBack' /\ CacheDatesBack'
  BY DEF IInv, Tick, cache, ProbesDateBack, AnswersDateBack, CacheDatesBack
<1> QED
  BY <1>1, <1>2, <1>3 DEF IInv

\* Everything that was observed so far was observed before now.
LEMMA ChangeIInv == IInv /\ Change => IInv'
<1> SUFFICES ASSUME IInv, Change PROVE IInv'
  OBVIOUS
<1> USE HealthAssumption
<1>1. TypeOK' /\ since' <= clock'
  BY DEF IInv, Change, cache, TypeOK
<1>2. ReadingsFresh'
  BY DEF IInv, Change, ReadingsFresh
<1>3. ProbesDateBack' /\ AnswersDateBack'
  BY DEF IInv, Change, TypeOK, ReadingsFresh, ProbesDateBack, AnswersDateBack
<1>4. CacheDatesBack'
  BY DEF IInv, Change, cache, TypeOK, CacheDatesBack
<1> QED
  BY <1>1, <1>2, <1>3, <1>4 DEF IInv

LEMMA ReadClockIInv ==
    ASSUME IInv, NEW r \in Requests, ReadClock(r) PROVE IInv'
<1> USE HealthAssumption
<1>1. TypeOK' /\ since' <= clock' /\ CacheDatesBack'
  BY DEF IInv, ReadClock, cache, TypeOK, CacheDatesBack
<1>2. ReadingsFresh' /\ ProbesDateBack' /\ AnswersDateBack'
  BY DEF IInv, ReadClock, TypeOK, ReadingsFresh, ProbesDateBack, AnswersDateBack
<1> QED
  BY <1>1, <1>2 DEF IInv

LEMMA UseCachedIInv ==
    ASSUME IInv, NEW r \in Requests, UseCached(r) PROVE IInv'
<1> USE HealthAssumption
<1>1. TypeOK' /\ since' <= clock' /\ CacheDatesBack'
  BY DEF IInv, UseCached, cache, TypeOK, CacheDatesBack
<1>2. ReadingsFresh' /\ ProbesDateBack'
  BY DEF IInv, UseCached, TypeOK, ReadingsFresh, ProbesDateBack
<1>3. lastHealthValue # worker => now[r] < since + HealthTTL
  BY DEF IInv, UseCached, Fresh, TypeOK, CacheDatesBack, ZeroTime
<1>4. AnswersDateBack'
  BY <1>3 DEF IInv, UseCached, TypeOK, AnswersDateBack
<1> QED
  BY <1>1, <1>2, <1>4 DEF IInv

LEMMA StartProbeIInv ==
    ASSUME IInv, NEW r \in Requests, StartProbe(r) PROVE IInv'
<1> USE HealthAssumption
<1>1. TypeOK' /\ since' <= clock' /\ CacheDatesBack'
  BY DEF IInv, StartProbe, cache, TypeOK, CacheDatesBack
<1>2. ReadingsFresh' /\ ProbesDateBack' /\ AnswersDateBack'
  BY DEF IInv, StartProbe, TypeOK, ReadingsFresh, ProbesDateBack, AnswersDateBack
<1> QED
  BY <1>1, <1>2 DEF IInv

LEMMA ProbeIInv ==
    ASSUME IInv, NEW r \in Requests, Probe(r) PROVE IInv'
<1> USE HealthAssumption
<1>1. TypeOK' /\ since' <= clock' /\ CacheDatesBack'
  BY DEF IInv, Probe, Probed, cache, TypeOK, CacheDatesBack
<1>2. ReadingsFresh' /\ ProbesDateBack' /\ AnswersDateBack'
  BY DEF IInv, Probe, Probed, TypeOK, ReadingsFresh, ProbesDateBack,
         AnswersDateBack
<1> QED
  BY <1>1, <1>2 DEF IInv

\* An abandoned probe counts as an observation of a worker that is down now.
LEMMA HangupIInv ==
    ASSUME IInv, NEW r \in Requests, Hangup(r) PROVE IInv'
<1> USE HealthAssumption
<1>1. TypeOK' /\ since' <= clock'
  BY DEF IInv, Hangup, Probed, cache, TypeOK
<1>2. CacheDatesBack'
  BY DEF IInv, Hangup, Probed, cache, TypeOK, CacheDatesBack
<1>3. ReadingsFresh'
  BY DEF IInv, Hangup, Probed, TypeOK, ReadingsFresh
<1>4. since' = clock'
  BY DEF Hangup, Probed
<1>5. ProbesDateBack' /\ AnswersDateBack'
  BY <1>1, <1>3, <1>4 DEF TypeOK, ReadingsFresh, ProbesDateBack, AnswersDateBack
<1> QED
  BY <1>1, <1>2, <1>3, <1>5 DEF IInv

LEMMA StoreAnswerIInv ==
    ASSUME IInv, NEW r \in Requests, StoreAnswer(r) PROVE IInv'
<1> USE HealthAssumption
<1>1. TypeOK' /\ since' <= clock'
  BY DEF IInv, StoreAnswer, TypeOK, ReadingsFresh
<1>2. ReadingsFresh' /\ ProbesDateBack'
  BY DEF IInv, StoreAnswer, TypeOK, ReadingsFresh, ProbesDateBack
<1>3. AnswersDateBack' /\ CacheDatesBack'
  BY DEF IInv, StoreAnswer, TypeOK, ProbesDateBack, AnswersDateBack,
         CacheDatesBack
<1> QED
  BY <1>1, <1>2, <1>3 DEF IInv

LEMMA ReturnIInv ==
    ASSUME IInv, NEW r \in Requests, Return(r) PROVE IInv'
<1> USE HealthAssumption
<1>1. TypeOK' /\ since' <= clock' /\ CacheDatesBack'
  BY DEF IInv, Return, cache, TypeOK, CacheDatesBack
<1>2. ReadingsFresh' /\ ProbesDateBack' /\ AnswersDateBack'
  BY DEF IInv, Return, TypeOK, ReadingsFresh, ProbesDateBack, AnswersDateBack
<1> QED
  BY <1>1, <1>2 DEF IInv

LEMMA NextIInv == IInv /\ [Next]_vars => IInv'
<1> SUFFICES ASSUME IInv, [Next]_vars PROVE IInv'
  OBVIOUS
<1>1. CASE Tick
  BY <1>1, TickIInv
<1>2. CASE Change
  BY <1>2, ChangeIInv
<1>3. CASE \E r \in Requests : Step(r)
  BY <1>3, ReadClockIInv, UseCachedIInv, StartProbeIInv, ProbeIInv,
     HangupIInv, StoreAnswerIInv, ReturnIInv DEF Step
<1>4. CASE UNCHANGED vars
  BY <1>4 DEF vars, cache, IInv, TypeOK, ReadingsFresh, ProbesDateBack,
              AnswersDateBack, CacheDatesBack
<1> QED
  BY <1>1, <1>2, <1>3, <1>4 DEF Next

------------------------------------------------------------------------------
\* Calls of Generate do not touch the health cache: with them running, every
\* step is a step of the health checks or leaves them alone.
THEOREM GenerateLeavesHealth == EmbeddingSpec => Spec
<1>1. EmbeddingInit => Init
  BY DEF EmbeddingInit
<1>2. [EmbeddingNext]_<<vars, calls>> => [Next]_vars
  BY DEF EmbeddingNext, EmbeddingTick, Next
<1> QED
  BY <1>1, <1>2, PTL DEF EmbeddingSpec, Spec

\* An answer of Healthy is right unless the worker changed, or a client hung up
\* on its probe, less than the TTL and one latency ago, whatever the order in
\* which concurrent probes store their results.
THEOREM HealthLagBounded == EmbeddingSpec => []AnswersFollowWorker
<1>1. IInv => AnswersFollowWorker
  BY HealthAssumption
     DEF IInv, TypeOK, ReadingsFresh, AnswersDateBack, AnswersFollowWorker
<1> QED
  BY <1>1, InitIInv, NextIInv, GenerateLeavesHealth, PTL DEF Spec

\* lastHealthAt dates the cached value no later than it was observed.
THEOREM CacheNotPostdated == EmbeddingSpec => []CacheDatesBack
<1>1. IInv => CacheDatesBack
  BY DEF IInv
<1> QED
  BY <1>1, InitIInv, NextIInv, GenerateLeavesHealth, PTL DEF Spec

-------------------------------------------------------------------------------
\* Induction: a set of natural numbers that has a member has a least one.
LEMMA LeastNat == ASSUME NEW T \in SUBSET Nat, T # {}
                  PROVE  \E x \in T : \A y \in T : x <= y
<1> DEFINE R == {ss \in Nat \X Nat : ss[1] < ss[2]}
<1>1. IsWellFoundedOn(R, Nat)
  BY NatLessThanWellFounded DEF OpToRel
<1> HIDE DEF R
<1>2. PICK x \in T : \A y \in T : <<y, x>> \notin R
  BY <1>1, WFMin
<1>3. \A y \in T : ~ (y < x)
  BY <1>2 DEF R
<1> QED
  BY <1>3

\* f begins with x0 and goes on with F's steps, within X.
Steps(X) == [Nat -> [X -> X]]
Follows(f, X, x0, F) == f \in [Nat -> X] /\ f[0] = x0 /\ \A n \in Nat : f[n + 1] = F[n][f[n]]

\* Recursion: a first value and a function from each value to the next define
\* a sequence.  Its initial segments are built one by one and agree.
LEMMA RecursionOnNat ==
    ASSUME NEW X, NEW x0 \in X, NEW F \in Steps(X)
    PROVE  \E f : Follows(f, X, x0, F)
<1> USE DEF Steps
<1> DEFINE Segment(n, g) == /\ g \in [0 .. n -> X] /\ g[0] = x0
                            /\ \A i \in 0 .. n - 1 : g[i + 1] = F[i][g[i]]
<1>1. ASSUME NEW k \in Nat PROVE \E g : Segment(k, g)
  <2> DEFINE T == {n \in Nat : ~ \E g : Segment(n, g)}
  <2> SUFFICES ASSUME T # {} PROVE FALSE
    OBVIOUS
  <2>1. PICK n \in T : \A y \in T : n <= y
    <3>1. T \in SUBSET Nat
      OBVIOUS
    <3> HIDE DEF T
    <3> QED
      BY <3>1, LeastNat
  <2>2. CASE n = 0
    <3>1. Segment(0, [i \in 0 .. 0 |-> x0])
      OBVIOUS
    <3> QED
      BY <2>2, <3>1
  <2>3. CASE n # 0
    <3>1. n - 1 \in Nat /\ n - 1 \notin T
      BY <2>1, <2>3
    <3>2. PICK g : Segment(n - 1, g)
      BY <3>1
    <3> DEFINE h == [i \in 0 .. n |-> IF i = n THEN F[n - 1][g[n - 1]] ELSE g[i]]
    <3>3. F[n - 1][g[n - 1]] \in X
      BY <3>1, <3>2
    <3>4. h \in [0 .. n -> X] /\ h[0] = x0
      BY <2>3, <3>1, <3>2, <3>3
    <3>5. ASSUME NEW i \in 0 .. n - 1 PROVE h[i + 1] = F[i][h[i]]
      BY <3>1, <3>2, <3>5
    <3>6. Segment(n, h)
      BY <3>4, <3>5
    <3> QED
      BY <3>6
  <2> QED
    BY <2>2, <2>3
<1>2. ASSUME NEW n \in Nat, NEW m \in Nat, NEW g, NEW h, Segment(n, g), Segment(m, h),
             NEW j \in Nat, j <= n, j <= m
      PROVE  g[j] = h[j]
  <2> DEFINE T == {i \in Nat : i <= n /\ i <= m /\ g[i] # h[i]}
  <2> SUFFICES ASSUME T # {} PROVE FALSE
    BY <1>2
  <2>1. PICK i \in T : \A y \in T : i <= y
    <3>1. T \in SUBSET Nat
      OBVIOUS
    <3> HIDE DEF T
    <3> QED
      BY <3>1, LeastNat
  <2>2. i # 0
    BY <1>2, <2>1
  <2>3. i - 1 \in Nat /\ i - 1 \notin T
    BY <2>1, <2>2
  <2>4. g[i - 1] = h[i - 1]
    BY <2>1, <2>3
  <2>5. g[(i - 1) + 1] = F[i - 1][g[i - 1]] /\ h[(i - 1) + 1] = F[i - 1][h[i - 1]]
    BY <1>2, <2>1, <2>3
  <2> QED
    BY <2>1, <2>4, <2>5
<1> DEFINE segment(n) == CHOOSE g : Segment(n, g)
           f == [n \in Nat |-> segment(n)[n]]
<1>3. \A n \in Nat : Segment(n, segment(n))
  BY <1>1
<1> HIDE DEF segment
<1>4. f \in [Nat -> X] /\ f[0] = x0
  BY <1>3
<1>5. ASSUME NEW n \in Nat PROVE f[n + 1] = F[n][f[n]]
  <2>1. segment(n + 1)[n] = segment(n)[n]
    <3>1. Segment(n, segment(n)) /\ Segment(n + 1, segment(n + 1))
      BY <1>3
    <3> HIDE DEF Segment
    <3> QED
      BY <3>1, <1>2
  <2>2. segment(n + 1)[n + 1] = F[n][segment(n + 1)[n]]
    BY <1>3
  <2> QED
    BY <2>1, <2>2
<1> QED
  BY <1>4, <1>5 DEF Follows

\* The back-offs are the ones that Retry sets one after the other.
LEMMA WaitEquation == /\ Wait \in [Nat -> Nat]
                      /\ Wait[0] = RetryBackoff
                      /\ \A n \in Nat : Wait[n + 1] = NextBackoff(Wait[n])
<1> DEFINE F == [n \in Nat |-> [b \in Nat |-> NextBackoff(b)]]
<1>1. F \in [Nat -> [Nat -> Nat]]
  BY RetryAssumption DEF NextBackoff, Smaller
<1>2. PICK f \in [Nat -> Nat] : f[0] = RetryBackoff /\ \A n \in Nat : f[n + 1] = F[n][f[n]]
  <2>1. RetryBackoff \in Nat /\ F \in Steps(Nat)
    BY <1>1, RetryAssumption DEF Steps
  <2> HIDE DEF F
  <2>2. \E f : Follows(f, Nat, RetryBackoff, F)
    BY <2>1, RecursionOnNat, Zenon
  <2> QED
    BY <2>2, Zenon DEF Follows
<1>3. ASSUME NEW n \in Nat, n # 0 PROVE f[n] = Smaller(2 * f[n - 1], MaxBackoff)
  <2>1. n - 1 \in Nat /\ (n - 1) + 1 = n
    BY <1>3
  <2>2. f[(n - 1) + 1] = F[n - 1][f[n - 1]]
    BY <1>2, <2>1, Zenon
  <2> QED
    BY <1>2, <2>1, <2>2 DEF NextBackoff
<1>4. f = [n \in Nat |-> IF n = 0 THEN RetryBackoff ELSE Smaller(2 * f[n - 1], MaxBackoff)]
  BY <1>2, <1>3
<1>5. Wait = [n \in Nat |-> IF n = 0 THEN RetryBackoff ELSE Smaller(2 * Wait[n - 1], MaxBackoff)]
  BY <1>4, Zenon DEF Wait
<1> HIDE DEF Wait
<1>6. \A n \in Nat : Wait[n + 1] = NextBackoff(Wait[n])
  BY <1>5 DEF NextBackoff
<1>7. Wait[0] = RetryBackoff
  BY <1>5
<1>8. Wait \in [Nat -> Nat]
  <2> DEFINE T == {n \in Nat : Wait[n] \notin Nat}
  <2>1. ASSUME T # {} PROVE FALSE
    <3>1. T \in SUBSET Nat
      OBVIOUS
    <3>2. PICK n \in T : \A y \in T : n <= y
      <4> HIDE DEF T
      <4> QED
        BY <2>1, <3>1, LeastNat
    <3>3. n # 0
      BY <1>7, <3>2, RetryAssumption
    <3>4. n - 1 \in Nat /\ Wait[n - 1] \in Nat
      BY <3>2, <3>3
    <3>5. Wait[(n - 1) + 1] = NextBackoff(Wait[n - 1])
      BY <1>6, <3>4
    <3> QED
      BY <3>2, <3>4, <3>5, RetryAssumption DEF NextBackoff, Smaller
  <2>2. Wait = [n \in Nat |-> Wait[n]]
    BY <1>5
  <2> QED
    BY <2>1, <2>2
<1> QED
  BY <1>6, <1>7, <1>8

\* Their sums.
LEMMA WaitsEquation == /\ Waits \in [Nat -> Nat]
                       /\ Waits[0] = 0
                       /\ \A n \in Nat : Waits[n + 1] = Waits[n] + Wait[n]
<1> DEFINE F == [n \in Nat |-> [s \in Nat |-> s + Wait[n]]]
<1>1. F \in [Nat -> [Nat -> Nat]]
  BY WaitEquation
<1>2. PICK f \in [Nat -> Nat] : f[0] = 0 /\ \A n \in Nat : f[n + 1] = F[n][f[n]]
  <2>1. 0 \in Nat /\ F \in Steps(Nat)
    BY <1>1 DEF Steps
  <2> HIDE DEF F
  <2>2. \E f : Follows(f, Nat, 0, F)
    BY <2>1, RecursionOnNat, Zenon
  <2> QED
    BY <2>2, Zenon DEF Follows
<1>3. ASSUME NEW n \in Nat, n # 0 PROVE f[n] = f[n - 1] + Wait[n - 1]
  <2>1. n - 1 \in Nat /\ (n - 1) + 1 = n
    BY <1>3
  <2>2. f[(n - 1) + 1] = F[n - 1][f[n - 1]]
    BY <1>2, <2>1, Zenon
  <2> QED
    BY <1>2, <2>1, <2>2
<1>4. f = [n \in Nat |-> IF n = 0 THEN 0 ELSE f[n - 1] + Wait[n - 1]]
  BY <1>2, <1>3
<1>5. Waits = [n \in Nat |-> IF n = 0 THEN 0 ELSE Waits[n - 1] + Wait[n - 1]]
  BY <1>4, Zenon DEF Waits
<1> HIDE DEF Waits
<1>6. \A n \in Nat : Waits[n + 1] = Waits[n] + Wait[n]
  BY <1>5
<1>7. Waits[0] = 0
  BY <1>5
<1>8. Waits \in [Nat -> Nat]
  <2> DEFINE T == {n \in Nat : Waits[n] \notin Nat}
  <2>1. ASSUME T # {} PROVE FALSE
    <3>1. T \in SUBSET Nat
      OBVIOUS
    <3>2. PICK n \in T : \A y \in T : n <= y
      <4> HIDE DEF T
      <4> QED
        BY <2>1, <3>1, LeastNat
    <3>3. n # 0
      BY <1>7, <3>2
    <3>4. n - 1 \in Nat /\ Waits[n - 1] \in Nat
      BY <3>2, <3>3
    <3>5. Waits[(n - 1) + 1] = Waits[n - 1] + Wait[n - 1]
      BY <1>6, <3>4
    <3> QED
      BY <3>2, <3>4, <3>5, WaitEquation
  <2>2. Waits = [n \in Nat |-> Waits[n]]
    BY <1>5
  <2> QED
    BY <2>1, <2>2
<1> QED
  BY <1>6, <1>7, <1>8

-------------------------------------------------------------------------------
\* The time that n attempts take at most.
Attempts(n) == n * Timeout

LEMMA AttemptsGrow ==
    \A n \in Nat : Attempts(n) \in Nat /\ Attempts(n + 1) = Attempts(n) + Timeout
  BY RetryAssumption DEF Attempts

CallRecords == [stage : {"idle", "calling", "waiting"} \cup Over,
             attempt : Nat, backoff : Nat, at : Nat]

\* A call that began at b and is at k now, at time t: how long it has taken, at
\* least and at most, when it entered its stage, and how long it stays in it.
Timed(k, b, t) ==
    /\ k.backoff = Wait[k.attempt]
    /\ k.at <= t
    /\ k.at - b >= Waits[k.attempt]
    /\ k.stage = "gaveup" => k.attempt = RetryMax - 1
    /\ k.stage = "calling" => /\ t - k.at <= Timeout
                              /\ k.at - b <= Attempts(k.attempt) + Waits[k.attempt]
    /\ k.stage # "calling" =>
          k.at - b <= Attempts(k.attempt + 1) + Waits[k.attempt]
                      + (IF k.stage = "cancelled" THEN Wait[k.attempt] ELSE 0)
    /\ k.stage = "waiting" => t - k.at <= k.backoff
    /\ k.stage \in Over => t = k.at

\* Every call under way keeps to its timeouts and back-offs.
CallsIInv == /\ clock \in Nat
             /\ began \in [Calls -> Nat]
             /\ call \in [Calls -> CallRecords]
             /\ \A c \in Calls : call[c].stage # "idle" => Timed(call[c], began[c], clock)

LEMMA InitCalls == EmbeddingInit => CallsIInv
<1> SUFFICES ASSUME EmbeddingInit PROVE CallsIInv
  OBVIOUS
<1>1. Idle \in CallRecords /\ Idle.stage = "idle"
  BY DEF Idle, CallRecords
<1>2. clock \in Nat
  BY DEF EmbeddingInit, Init
<1> QED
  BY <1>1, <1>2 DEF EmbeddingInit, CallsIInv

\* A step of one call, on an unchanged clock.
LEMMA OneCall ==
    ASSUME CallsIInv, NEW c \in Calls, NEW k \in CallRecords, NEW b \in Nat,
           call' = [call EXCEPT ![c] = k], began' = [began EXCEPT ![c] = b],
           UNCHANGED vars, k.stage # "idle" => Timed(k, b, clock)
    PROVE  CallsIInv'
<1>1. clock' \in Nat /\ clock' = clock /\ began' \in [Calls -> Nat] /\ call' \in [Calls -> CallRecords]
  BY DEF CallsIInv, vars
<1>2. ASSUME NEW d \in Calls, call'[d].stage # "idle" PROVE Timed(call'[d], began'[d], clock)
  BY <1>2 DEF CallsIInv
<1> QED
  BY <1>1, <1>2 DEF CallsIInv

LEMMA EnterKeeps ==
    ASSUME CallsIInv, NEW c \in Calls, NEW stage \in Over \cup {"waiting"}, Enter(c, stage),
           UNCHANGED vars, call[c].stage \in {"calling", "waiting"},
           stage = "gaveup" => LastAttempt(call[c]),
           call[c].stage = "waiting" => stage = "cancelled"
    PROVE  CallsIInv'
<1> DEFINE k == [call[c] EXCEPT !.stage = stage, !.at = clock]
<1>1. k \in CallRecords /\ k.stage # "idle"
  BY DEF CallsIInv, CallRecords, Over
<1>2. call' = [call EXCEPT ![c] = k] /\ began' = [began EXCEPT ![c] = began[c]]
  BY DEF Enter, CallsIInv
<1>3. Timed(call[c], began[c], clock)
  BY DEF CallsIInv
<1>4. call[c] \in CallRecords /\ began[c] \in Nat /\ clock \in Nat
  BY DEF CallsIInv
<1>5. /\ k.stage = stage /\ k.at = clock /\ k.attempt = call[c].attempt
      /\ k.backoff = call[c].backoff
  BY <1>4 DEF CallRecords
<1> HIDE DEF k
<1>6. call[c].attempt \in Nat /\ call[c].at \in Nat /\ call[c].backoff \in Nat
  BY <1>4 DEF CallRecords
<1>7. /\ Wait[call[c].attempt] \in Nat /\ Waits[call[c].attempt] \in Nat
      /\ Attempts(call[c].attempt) \in Nat
      /\ Attempts(call[c].attempt + 1) = Attempts(call[c].attempt) + Timeout
  BY <1>6, WaitEquation, WaitsEquation, AttemptsGrow
<1>8. Timed(k, began[c], clock)
  BY <1>3, <1>4, <1>5, <1>6, <1>7, RetryAssumption DEF Timed, LastAttempt, Over
<1> QED
  BY <1>1, <1>2, <1>4, <1>8, OneCall

LEMMA BeginKeeps ==
    ASSUME CallsIInv, NEW c \in Calls, Begin(c), UNCHANGED vars PROVE CallsIInv'
<1> DEFINE k == [stage |-> "calling", attempt |-> 0, backoff |-> RetryBackoff, at |-> clock]
<1>1. k \in CallRecords /\ clock \in Nat
  BY RetryAssumption DEF CallsIInv, CallRecords
<1>2. call' = [call EXCEPT ![c] = k] /\ began' = [began EXCEPT ![c] = clock]
  BY DEF Begin
<1>3. Attempts(0) = 0
  BY RetryAssumption DEF Attempts
<1>4. Timed(k, clock, clock)
  BY <1>1, <1>3, WaitEquation, WaitsEquation, RetryAssumption DEF Timed, Over
<1> HIDE DEF k
<1> QED
  BY <1>1, <1>2, <1>4, OneCall

LEMMA RetryKeeps ==
    ASSUME CallsIInv, NEW c \in Calls, Retry(c), UNCHANGED vars PROVE CallsIInv'
<1> DEFINE n == call[c].attempt
           k == [stage |-> "calling", attempt |-> n + 1,
                 backoff |-> NextBackoff(call[c].backoff), at |-> clock]
<1>1. Timed(call[c], began[c], clock) /\ call[c] \in CallRecords /\ began[c] \in Nat /\ clock \in Nat
  BY DEF CallsIInv, Retry
<1>2. n \in Nat /\ call[c].at \in Nat /\ call[c].backoff = Wait[n] /\ call[c].stage = "waiting"
      /\ clock - call[c].at >= Wait[n]
  BY <1>1 DEF CallRecords, Timed, Retry
<1>3. call' = [call EXCEPT ![c] = k] /\ began' = [began EXCEPT ![c] = began[c]]
  BY DEF Retry, CallsIInv
<1>4. /\ Wait[n] \in Nat /\ Waits[n] \in Nat /\ Waits[n + 1] = Waits[n] + Wait[n]
      /\ Wait[n + 1] = NextBackoff(Wait[n]) /\ Wait[n + 1] \in Nat
      /\ Attempts(n + 1) \in Nat
  <2>1. n \in Nat /\ n + 1 \in Nat
    BY <1>2
  <2> HIDE DEF n
  <2> QED
    BY <2>1, WaitEquation, WaitsEquation, AttemptsGrow
<1>5. k \in CallRecords
  BY <1>1, <1>2, <1>4 DEF CallRecords
<1>6. /\ call[c].at - began[c] >= Waits[n]
      /\ call[c].at - began[c] <= Attempts(n + 1) + Waits[n]
      /\ clock - call[c].at <= Wait[n]
  BY <1>1, <1>2, <1>4 DEF Timed
<1>7. k.stage = "calling" /\ k.attempt = n + 1 /\ k.backoff = Wait[n + 1] /\ k.at = clock
  BY <1>2, <1>4
<1> HIDE DEF k, n
<1>8. Timed(k, began[c], clock)
  BY <1>1, <1>2, <1>4, <1>6, <1>7, RetryAssumption DEF Timed, Over, CallRecords
<1> QED
  BY <1>1, <1>3, <1>5, <1>8, OneCall

LEMMA ReturnCallKeeps ==
    ASSUME CallsIInv, NEW c \in Calls, ReturnCall(c), UNCHANGED vars PROVE CallsIInv'
<1>1. Idle \in CallRecords /\ Idle.stage = "idle" /\ 0 \in Nat
  BY DEF Idle, CallRecords
<1>2. call' = [call EXCEPT ![c] = Idle] /\ began' = [began EXCEPT ![c] = 0]
  BY DEF ReturnCall
<1> QED
  BY <1>1, <1>2, OneCall

LEMMA CallStepKeeps ==
    ASSUME CallsIInv, NEW c \in Calls, CallStep(c), UNCHANGED vars PROVE CallsIInv'
<1>1. CASE Begin(c)
  BY <1>1, BeginKeeps
<1>2. CASE Serve(c) \/ Reject(c)
  BY <1>2, EnterKeeps DEF Serve, Reject, Over
<1>3. CASE FailAttempt(c)
  BY <1>3, EnterKeeps DEF FailAttempt, Over
<1>4. CASE CancelCall(c)
  BY <1>4, EnterKeeps DEF CancelCall, Over
<1>5. CASE Retry(c)
  BY <1>5, RetryKeeps
<1>6. CASE ReturnCall(c)
  BY <1>6, ReturnCallKeeps
<1> QED
  BY <1>1, <1>2, <1>3, <1>4, <1>5, <1>6 DEF CallStep

\* Attempts and timers end when they are due, so the clock passes no deadline.
LEMMA EmbeddingTickKeeps == CallsIInv /\ EmbeddingTick => CallsIInv'
<1> SUFFICES ASSUME CallsIInv, EmbeddingTick PROVE CallsIInv'
  OBVIOUS
<1>1. clock \in Nat /\ clock' = clock + 1 /\ call' = call /\ began' = began
  BY DEF CallsIInv, EmbeddingTick, Tick, calls
<1>2. ASSUME NEW c \in Calls, call[c].stage # "idle" PROVE Timed(call[c], began[c], clock + 1)
  <2>1. /\ Timed(call[c], began[c], clock) /\ call[c].at \in Nat /\ call[c].backoff \in Nat
        /\ call[c].stage \in {"calling", "waiting"}
    BY <1>2 DEF CallsIInv, CallRecords, EmbeddingTick
  <2>2. /\ call[c].stage = "calling" => clock - call[c].at < Timeout
        /\ call[c].stage = "waiting" => clock - call[c].at < call[c].backoff
    BY DEF EmbeddingTick
  <2> QED
    BY <1>1, <2>1, <2>2, RetryAssumption DEF Timed, Over
<1> QED
  BY <1>1, <1>2 DEF CallsIInv

LEMMA NextCalls == CallsIInv /\ [EmbeddingNext]_<<vars, calls>> => CallsIInv'
<1> SUFFICES ASSUME CallsIInv, [EmbeddingNext]_<<vars, calls>> PROVE CallsIInv'
  OBVIOUS
<1>1. CASE EmbeddingTick
  BY <1>1, EmbeddingTickKeeps
<1>2. CASE (Change \/ \E r \in Requests : Step(r)) /\ UNCHANGED calls
  <2>1. clock' = clock
    BY <1>2 DEF Change, Step, ReadClock, UseCached, StartProbe, Probe, Hangup, Probed,
                StoreAnswer, Return
  <2> QED
    BY <1>2, <2>1 DEF CallsIInv, calls
<1>3. ASSUME NEW c \in Calls, CallStep(c), UNCHANGED vars PROVE CallsIInv'
  BY <1>3, CallStepKeeps
<1>4. CASE UNCHANGED <<vars, calls>>
  BY <1>4 DEF CallsIInv, vars, calls
<1> QED
  BY <1>1, <1>2, <1>3, <1>4 DEF EmbeddingNext

LEMMA CallsKept == EmbeddingSpec => []CallsIInv
  BY InitCalls, NextCalls, PTL DEF EmbeddingSpec

\* Generate gives a worker up only after all of its back-offs, whatever their
\* number, their length and their cap.
THEOREM GenerateGivesUpLate == EmbeddingSpec => []GivesUpLate
<1>1. CallsIInv => GivesUpLate
  BY DEF CallsIInv, GivesUpLate, Timed
<1> QED
  BY <1>1, CallsKept, PTL

\* A call takes no longer than its timeouts and the back-offs between them.
THEOREM GenerateBounded == EmbeddingSpec => []CallBounded
<1>1. ASSUME CallsIInv, NEW c \in Calls, call[c].stage # "idle"
      PROVE  clock - began[c] <= (call[c].attempt + 1) * Timeout + Waits[call[c].attempt]
                 + (IF call[c].stage \in {"waiting", "cancelled"}
                      THEN Wait[call[c].attempt] ELSE 0)
  <2> DEFINE n == call[c].attempt
  <2>1. /\ Timed(call[c], began[c], clock) /\ call[c].at \in Nat /\ began[c] \in Nat
        /\ clock \in Nat /\ n \in Nat /\ call[c].backoff \in Nat
        /\ call[c].stage \in {"calling", "waiting"} \cup Over
    BY <1>1 DEF CallsIInv, CallRecords
  <2>2. /\ Wait[n] \in Nat /\ Waits[n] \in Nat /\ Attempts(n) \in Nat
        /\ Attempts(n + 1) = Attempts(n) + Timeout
    BY <2>1, WaitEquation, WaitsEquation, AttemptsGrow
  <2> HIDE DEF n
  <2>3. clock - began[c] <= Attempts(n + 1) + Waits[n]
            + (IF call[c].stage \in {"waiting", "cancelled"} THEN Wait[n] ELSE 0)
    BY <2>1, <2>2, RetryAssumption DEF Timed, Over, n
  <2> QED
    BY <2>3 DEF n, Attempts
<1>2. CallsIInv => CallBounded
  BY <1>1 DEF CallBounded
<1> QED
  BY <1>2, CallsKept, PTL

-------------------------------------------------------------------------------
Stages == {"idle", "generating", "reply", "record", "done"}
CallStages == {"idle", "calling", "waiting"} \cup Over

Codes == ErrorCodes \cup {None}
Recorded == [status : Nat, code : Codes, model : Models \cup {None}, tokens : Int]

ServingType == [stage : Stages, model : Models \cup {None}, status : Nat, code : Codes,
                tokens : Int, sent : Nat \cup {None}, record : Recorded \cup {None}]

\* A status, a code and a count of tokens that tell the same story: an error has
\* no tokens.
Agree(status, code, tokens) ==
    /\ status = 200 <=> code = None
    /\ tokens # 0 => status = 200
    /\ code \in DOMAIN Documented => status = Documented[code]

\* What the locals of a request are at each stage.
Sound(s) ==
    /\ s.stage \in {"idle", "generating"} => s.status = 200 /\ s.code = None /\ s.tokens = 0
    /\ s.stage \in {"reply", "record"} => Agree(s.status, s.code, s.tokens)
    /\ s.stage = "record" => s.sent = s.status
    /\ s.stage = "done" => /\ s.record \in Recorded /\ s.record.status = s.sent
                           /\ Agree(s.record.status, s.record.code, s.record.tokens)

\* Generate runs for requests that wait for it only.
HandlerIInv ==
    /\ serving \in [Calls -> ServingType]
    /\ call \in [Calls -> [stage : CallStages, attempt : Int, backoff : Int, at : Int]]
    /\ clock \in Int
    /\ \A c \in Calls : /\ Sound(serving[c])
                        /\ call[c].stage # "idle" => serving[c].stage = "generating"

-------------------------------------------------------------------------------
\* Every step of the handler is a step of Generate or leaves the client alone.
THEOREM HandlerUsesGenerate == HandlerSpec => EmbeddingSpec
<1>1. HandlerInit => EmbeddingInit
  BY DEF HandlerInit
<1>2. [HandlerNext]_<<vars, calls, handlers>> => [EmbeddingNext]_<<vars, calls>>
  <2> SUFFICES ASSUME [HandlerNext]_<<vars, calls, handlers>>
               PROVE  [EmbeddingNext]_<<vars, calls>>
    OBVIOUS
  <2>1. CASE HandlerTick
    BY <2>1 DEF HandlerTick, EmbeddingNext
  <2>2. CASE (Change \/ \E r \in Requests : Step(r)) /\ UNCHANGED <<calls, handlers>>
    BY <2>2 DEF EmbeddingNext
  <2>3. ASSUME NEW c \in Calls, GenerateStep(c), UNCHANGED vars
        PROVE  EmbeddingNext
    BY <2>3 DEF GenerateStep, EmbeddingNext, CallStep
  <2>4. ASSUME NEW c \in Calls, HandlerStep(c), UNCHANGED vars
        PROVE  EmbeddingNext \/ UNCHANGED calls
    <3>1. ASSUME NEW m, Receive(c, m) PROVE CallStep(c)
      BY <3>1 DEF Receive, CallStep
    <3>2. ASSUME NEW m, NEW e, ReceiveRefused(c, m, e) PROVE UNCHANGED calls
      BY <3>2 DEF ReceiveRefused
    <3>3. ASSUME NEW m, NEW n, Generated(c, m, n) PROVE CallStep(c)
      BY <3>3 DEF Generated, CallStep
    <3>4. ASSUME NEW status, NotGenerated(c, status) PROVE CallStep(c)
      BY <3>4 DEF NotGenerated, CallStep
    <3>5. ASSUME Reply(c) \/ Record(c) \/ Finish(c) PROVE UNCHANGED calls
      BY <3>5 DEF Reply, Record, Finish
    <3>6. CallStep(c) \/ UNCHANGED calls
      BY <2>4, <3>1, <3>2, <3>3, <3>4, <3>5 DEF HandlerStep
    <3> QED
      BY <2>4, <3>6 DEF EmbeddingNext
  <2>5. CASE UNCHANGED <<vars, calls, handlers>>
    BY <2>5
  <2> QED
    BY <2>1, <2>2, <2>3, <2>4, <2>5 DEF HandlerNext
<1> QED
  BY <1>1, <1>2, PTL DEF HandlerSpec, EmbeddingSpec

\* Healthy lags behind the worker no further while the handler calls Generate.
THEOREM HealthLagBoundedHere == HandlerSpec => []AnswersFollowWorker
  BY HandlerUsesGenerate, HealthLagBounded, PTL

\* A request of the handler neither gives the worker up early nor waits for it
\* longer than Generate's timeouts and back-offs.
THEOREM GenerateTimedHere == HandlerSpec => [](GivesUpLate /\ CallBounded)
  BY HandlerUsesGenerate, GenerateGivesUpLate, GenerateBounded, PTL

-------------------------------------------------------------------------------
\* Every error the handler answers with has the status its code is documented with.
LEMMA ErrorsAgree ==
    \A e \in {InvalidRequest, InvalidAPIKey, KeyDisabled, RateLimitExceeded, BadGateway,
              ServiceUnavailable, ProviderError, InternalError} :
        /\ HTTPStatus(e) \in Nat /\ e.code \in ErrorCodes
        /\ Agree(HTTPStatus(e), e.code, 0)
<1> USE HandlerAssumption DEF GatewayError, HTTPStatus, StatusOfType, ErrorCodes, Agree,
                              Documented
<1>1. /\ InvalidRequest.code = "invalid_request" /\ HTTPStatus(InvalidRequest) = 400
      /\ InvalidAPIKey.code = "invalid_api_key" /\ HTTPStatus(InvalidAPIKey) = 401
  BY DEF InvalidRequest, InvalidAPIKey
<1>2. /\ KeyDisabled.code = "key_disabled" /\ HTTPStatus(KeyDisabled) = 403
      /\ RateLimitExceeded.code = "rate_limit_exceeded" /\ HTTPStatus(RateLimitExceeded) = 429
  BY DEF KeyDisabled, RateLimitExceeded
<1>3. /\ BadGateway.code = "bad_gateway" /\ HTTPStatus(BadGateway) = 502
      /\ ServiceUnavailable.code = "service_unavailable" /\ HTTPStatus(ServiceUnavailable) = 503
  BY DEF BadGateway, ServiceUnavailable
<1>4. /\ ProviderError.code = "provider_error" /\ HTTPStatus(ProviderError) = 500
      /\ InternalError.code = "internal_error" /\ HTTPStatus(InternalError) = 500
  BY DEF ProviderError, InternalError
<1> HIDE DEF GatewayError, HTTPStatus, StatusOfType
<1> QED
  BY <1>1, <1>2, <1>3, <1>4

LEMMA MappedAgrees ==
    ASSUME NEW status \in Nat
    PROVE  mapEmbeddingWorkerError(status) \in
             {InvalidRequest, InvalidAPIKey, KeyDisabled, RateLimitExceeded, BadGateway,
              ServiceUnavailable, ProviderError, InternalError}
  BY DEF mapEmbeddingWorkerError

LEMMA InitHandler == HandlerInit => HandlerIInv
<1> SUFFICES ASSUME HandlerInit PROVE HandlerIInv
  OBVIOUS
<1>1. serving = [c \in Calls |-> NotServing] /\ NotServing \in ServingType /\ Sound(NotServing)
  BY DEF HandlerInit, NotServing, ServingType, Stages, Codes, Sound
<1>2. call = [c \in Calls |-> Idle]
      /\ Idle \in [stage : CallStages, attempt : Int, backoff : Int, at : Int]
  BY DEF HandlerInit, EmbeddingInit, Idle, CallStages
<1>3. clock \in Int
  BY DEF HandlerInit, EmbeddingInit, Init
<1> QED
  BY <1>1, <1>2, <1>3 DEF HandlerIInv, Idle

\* The steps of Generate change its call only, and end it for no one.
LEMMA GenerateKeeps ==
    ASSUME HandlerIInv, NEW c \in Calls, GenerateStep(c), UNCHANGED handlers, UNCHANGED vars
    PROVE  HandlerIInv'
<1> DEFINE CallType == [stage : CallStages, attempt : Int, backoff : Int, at : Int]
<1>1. \E k \in CallType : call' = [call EXCEPT ![c] = k]
  <2>1. ASSUME NEW stage \in CallStages, Enter(c, stage)
        PROVE  \E k \in CallType : call' = [call EXCEPT ![c] = k]
    <3>1. [call[c] EXCEPT !.stage = stage, !.at = clock] \in CallType
      BY DEF HandlerIInv
    <3>2. call' = [call EXCEPT ![c] = [call[c] EXCEPT !.stage = stage, !.at = clock]]
      BY <2>1 DEF Enter, HandlerIInv
    <3> QED
      BY <3>1, <3>2
  <2>2. CASE Retry(c)
    <3>1. NextBackoff(call[c].backoff) \in Int
      BY RetryAssumption DEF NextBackoff, Smaller, HandlerIInv
    <3>2. [stage |-> "calling", attempt |-> call[c].attempt + 1,
           backoff |-> NextBackoff(call[c].backoff), at |-> clock] \in CallType
      BY <3>1 DEF HandlerIInv, CallStages
    <3> QED
      BY <2>2, <3>2 DEF Retry
  <2>3. CASE Serve(c) \/ Reject(c)
    BY <2>1, <2>3 DEF Serve, Reject, CallStages, Over
  <2>4. CASE FailAttempt(c) \/ CancelCall(c)
    BY <2>1, <2>4 DEF FailAttempt, CancelCall, CallStages, Over
  <2> QED
    BY <2>2, <2>3, <2>4 DEF GenerateStep
<1>2. call[c].stage # "idle"
  BY DEF GenerateStep, Serve, Reject, FailAttempt, CancelCall, Retry
<1>3. serving' = serving /\ clock' = clock
  BY DEF handlers, vars
<1> QED
  BY <1>1, <1>2, <1>3 DEF HandlerIInv

\* A step of the handler: the locals of one request become sound ones, and its
\* call of Generate begins or is over.
LEMMA OneServing ==
    ASSUME HandlerIInv, NEW c \in Calls, NEW s \in ServingType, Sound(s),
           serving' = [serving EXCEPT ![c] = s], UNCHANGED vars,
           NEW k \in [stage : CallStages, attempt : Int, backoff : Int, at : Int],
           call' = [call EXCEPT ![c] = k],
           k.stage # "idle" => s.stage = "generating"
    PROVE  HandlerIInv'
  BY DEF HandlerIInv, vars

LEMMA CallUnused ==
    ASSUME HandlerIInv, NEW c \in Calls, UNCHANGED calls
    PROVE  /\ call[c] \in [stage : CallStages, attempt : Int, backoff : Int, at : Int]
           /\ call' = [call EXCEPT ![c] = call[c]]
  BY DEF HandlerIInv, calls
LEMMA ReceiveKeeps ==
    ASSUME HandlerIInv, NEW c \in Calls, NEW m \in Models, Receive(c, m), UNCHANGED vars
    PROVE  HandlerIInv'
<1> DEFINE s == [serving[c] EXCEPT !.stage = "generating", !.model = m]
           k == [stage |-> "calling", attempt |-> 0, backoff |-> RetryBackoff, at |-> clock]
<1>1. serving[c] \in ServingType /\ serving[c].stage = "idle" /\ Sound(serving[c])
  BY DEF HandlerIInv, Receive, Open
<1>2. s \in ServingType /\ Sound(s) /\ s.stage = "generating"
  BY <1>1 DEF ServingType, Stages, Sound
<1>3. serving' = [serving EXCEPT ![c] = s]
  BY DEF Receive, HandlerIInv
<1>4. k \in [stage : CallStages, attempt : Int, backoff : Int, at : Int]
      /\ call' = [call EXCEPT ![c] = k]
  BY RetryAssumption DEF Receive, Begin, HandlerIInv, CallStages
<1> HIDE DEF s, k
<1> QED
  BY <1>2, <1>3, <1>4, OneServing

LEMMA RefusedKeeps ==
    ASSUME HandlerIInv, NEW c \in Calls, NEW m \in Models,
           NEW e \in {InvalidRequest, ServiceUnavailable}, ReceiveRefused(c, m, e),
           UNCHANGED vars
    PROVE  HandlerIInv'
<1> DEFINE s == [serving[c] EXCEPT !.stage = "reply", !.model = m,
                                   !.status = HTTPStatus(e), !.code = e.code]
<1>1. serving[c] \in ServingType /\ serving[c].stage = "idle" /\ serving[c].tokens = 0
      /\ call[c].stage = "idle"
  BY DEF HandlerIInv, ReceiveRefused, Open, Sound
<1>2. /\ HTTPStatus(e) \in Nat /\ e.code \in Codes /\ Agree(HTTPStatus(e), e.code, 0)
  BY ErrorsAgree DEF Codes
<1>3. s \in ServingType /\ Sound(s)
  BY <1>1, <1>2 DEF ServingType, Stages, Sound
<1>4. serving' = [serving EXCEPT ![c] = s] /\ UNCHANGED calls
  BY DEF ReceiveRefused, HandlerIInv
<1> HIDE DEF s
<1> QED
  BY <1>1, <1>3, <1>4, CallUnused, OneServing

\* What returning from Generate leaves behind.
LEMMA Returned ==
    ASSUME HandlerIInv, NEW c \in Calls, ReturnCall(c)
    PROVE  /\ call' = [call EXCEPT ![c] = Idle] /\ Idle.stage = "idle"
           /\ Idle \in [stage : CallStages, attempt : Int, backoff : Int, at : Int]
           /\ serving[c].stage = "generating" /\ serving[c] \in ServingType
           /\ serving[c].status = 200 /\ serving[c].code = None /\ serving[c].tokens = 0
  BY DEF HandlerIInv, ReturnCall, Over, Idle, CallStages, Sound

LEMMA GeneratedKeeps ==
    ASSUME HandlerIInv, NEW c \in Calls, NEW m \in Models \cup {None},
           NEW n \in TokenCounts, Generated(c, m, n), UNCHANGED vars
    PROVE  HandlerIInv'
<1> DEFINE model == IF m = None THEN serving[c].model ELSE m
           s == [serving[c] EXCEPT !.stage = "reply", !.tokens = n, !.model = model]
<1>1. ReturnCall(c) /\ serving' = [serving EXCEPT ![c] = s]
  BY DEF Generated, HandlerIInv
<1>2. /\ serving[c] \in ServingType
      /\ serving[c].status = 200 /\ serving[c].code = None /\ serving[c].tokens = 0
  BY <1>1, Returned
<1>3. \E k \in [stage : CallStages, attempt : Int, backoff : Int, at : Int] :
         k.stage = "idle" /\ call' = [call EXCEPT ![c] = k]
  BY <1>1, Returned
<1>4. model \in Models \cup {None} /\ n \in Int
  BY <1>2, HandlerAssumption DEF ServingType
<1> HIDE DEF model
<1>5. s \in ServingType
  BY <1>2, <1>4 DEF ServingType, Stages
<1>6. Sound(s)
  BY <1>2, <1>4, HandlerAssumption
     DEF Sound, Agree, Documented, ErrorCodes, ServingType
<1> HIDE DEF s
<1> QED
  BY <1>1, <1>5, <1>6, <1>3, OneServing

LEMMA NotGeneratedKeeps ==
    ASSUME HandlerIInv, NEW c \in Calls, NEW status \in Statuses, NotGenerated(c, status),
           UNCHANGED vars
    PROVE  HandlerIInv'
<1> DEFINE mapped == mapEmbeddingWorkerError(status)
           s == [serving[c] EXCEPT !.stage = "reply", !.status = HTTPStatus(mapped),
                                   !.code = mapped.code]
<1>1. ReturnCall(c) /\ serving' = [serving EXCEPT ![c] = s]
  BY DEF NotGenerated, HandlerIInv
<1>2. /\ serving[c] \in ServingType
      /\ serving[c].status = 200 /\ serving[c].code = None /\ serving[c].tokens = 0
  BY <1>1, Returned
<1>3. \E k \in [stage : CallStages, attempt : Int, backoff : Int, at : Int] :
         k.stage = "idle" /\ call' = [call EXCEPT ![c] = k]
  BY <1>1, Returned
<1>4. /\ HTTPStatus(mapped) \in Nat /\ mapped.code \in Codes
      /\ Agree(HTTPStatus(mapped), mapped.code, 0)
  BY HandlerAssumption, MappedAgrees, ErrorsAgree DEF Codes
<1> HIDE DEF mapped
<1>5. s \in ServingType /\ Sound(s)
  BY <1>2, <1>4 DEF ServingType, Stages, Sound
<1> HIDE DEF s
<1> QED
  BY <1>1, <1>5, <1>3, OneServing

LEMMA ReplyKeeps ==
    ASSUME HandlerIInv, NEW c \in Calls, Reply(c), UNCHANGED vars PROVE HandlerIInv'
<1> DEFINE s == [serving[c] EXCEPT !.stage = "record", !.sent = serving[c].status]
<1>1. serving[c] \in ServingType /\ serving[c].stage = "reply" /\ Sound(serving[c])
      /\ call[c].stage = "idle"
  BY DEF HandlerIInv, Reply
<1>2. s \in ServingType /\ Sound(s)
  BY <1>1 DEF ServingType, Stages, Sound
<1>3. serving' = [serving EXCEPT ![c] = s] /\ UNCHANGED calls
  BY DEF Reply, HandlerIInv
<1> HIDE DEF s
<1> QED
  BY <1>1, <1>2, <1>3, CallUnused, OneServing

LEMMA RecordKeeps ==
    ASSUME HandlerIInv, NEW c \in Calls, Record(c), UNCHANGED vars PROVE HandlerIInv'
<1> DEFINE x == [status |-> serving[c].status, code |-> serving[c].code,
                 model |-> serving[c].model, tokens |-> serving[c].tokens]
           s == [serving[c] EXCEPT !.stage = "done", !.record = x]
<1>1. serving[c] \in ServingType /\ serving[c].stage = "record" /\ Sound(serving[c])
      /\ call[c].stage = "idle"
  BY DEF HandlerIInv, Record
<1>2. x \in Recorded
  BY <1>1 DEF ServingType, Recorded
<1>3. s \in ServingType /\ Sound(s)
  BY <1>1, <1>2 DEF ServingType, Stages, Sound
<1>4. serving' = [serving EXCEPT ![c] = s] /\ UNCHANGED calls
  BY DEF Record, HandlerIInv
<1> HIDE DEF s
<1> QED
  BY <1>1, <1>3, <1>4, CallUnused, OneServing

LEMMA FinishKeeps ==
    ASSUME HandlerIInv, NEW c \in Calls, Finish(c), UNCHANGED vars PROVE HandlerIInv'
<1>1. NotServing \in ServingType /\ Sound(NotServing)
  BY DEF NotServing, ServingType, Stages, Codes, Sound
<1>2. call[c].stage = "idle" /\ serving' = [serving EXCEPT ![c] = NotServing]
      /\ UNCHANGED calls
  BY DEF Finish, HandlerIInv
<1> QED
  BY <1>1, <1>2, CallUnused, OneServing

LEMMA NextHandler ==
    HandlerIInv /\ [HandlerNext]_<<vars, calls, handlers>> => HandlerIInv'
<1> SUFFICES ASSUME HandlerIInv, [HandlerNext]_<<vars, calls, handlers>>
             PROVE  HandlerIInv'
  OBVIOUS
<1>1. ASSUME clock' \in Int, UNCHANGED <<calls, handlers>> PROVE HandlerIInv'
  BY <1>1 DEF HandlerIInv, calls, handlers
<1>2. CASE HandlerTick
  BY <1>1, <1>2 DEF HandlerTick, EmbeddingTick, Tick, HandlerIInv
<1>3. CASE (Change \/ \E r \in Requests : Step(r)) /\ UNCHANGED <<calls, handlers>>
  <2>1. clock' = clock
    BY <1>3 DEF Change, Step, ReadClock, UseCached, StartProbe, Probe, Hangup, Probed,
                StoreAnswer, Return
  <2> QED
    BY <1>1, <1>3, <2>1 DEF HandlerIInv
<1>4. ASSUME NEW c \in Calls, GenerateStep(c), UNCHANGED handlers, UNCHANGED vars
      PROVE  HandlerIInv'
  BY <1>4, GenerateKeeps
<1>5. ASSUME NEW c \in Calls, HandlerStep(c), UNCHANGED vars PROVE HandlerIInv'
  BY <1>5, HandlerAssumption, ReceiveKeeps, RefusedKeeps, GeneratedKeeps,
     NotGeneratedKeeps, ReplyKeeps, RecordKeeps, FinishKeeps DEF HandlerStep
<1>6. CASE UNCHANGED <<vars, calls, handlers>>
  BY <1>1, <1>6 DEF vars, HandlerIInv
<1> QED
  BY <1>2, <1>3, <1>4, <1>5, <1>6 DEF HandlerNext

\* The record of every embedding request tells what its client was sent, and the
\* code in it is documented with that status.
THEOREM EmbeddingsRecorded == HandlerSpec => []EmbeddingRecorded
<1>1. HandlerIInv => EmbeddingRecorded
  BY DEF HandlerIInv, Sound, Agree, EmbeddingRecorded
<1> QED
  BY <1>1, InitHandler, NextHandler, PTL DEF HandlerSpec
=================================================================================
