-------------------------------- MODULE L1Cache --------------------------------
(***************************************************************************)
(* The exact-match cache of internal/service/cache/l1.go: one Redis hash   *)
(* shared by all requests (and all gateways).  Every Redis command is      *)
(* atomic; between two commands of a Set others run.  What is stored is    *)
(* determined by its key and left out; an entry is the time it was set.    *)
(* Each slot of Writers runs one Set after the other.                      *)
(***************************************************************************)
EXTENDS Integers, FiniteSets, FiniteSetsExt, Functions

CONSTANTS Writers, Keys,
          MaxSize,     \* maxSize; 0 turns eviction off
          EvictShare,  \* one in EvictShare entries is evicted, 10 in the code
          TTL,         \* ttl, in ticks; 0 means none
          MaxClock,    \* bound: the clock stops here
          MaxSets,     \* bound on the number of Sets
          MaxFaults,   \* bound on the number of commands that fail
          Never, NoKey

ASSUME L1Assumption == /\ MaxSize \in Nat /\ TTL \in Nat /\ MaxClock \in Nat
                       /\ EvictShare \in Nat \ {0} /\ MaxSets \in Nat
                       /\ MaxFaults \in Nat

\* Keys are SHA-256 digests: there are many of them, and finitely many.
ASSUME WritersAssumption == IsFiniteSet(Writers) /\ Writers # {}
ASSUME KeysAssumption == IsFiniteSet(Keys)
ASSUME NeverAssumption == Never \notin Nat

VARIABLES clock,
          hash,      \* the Redis hash: from the cached keys to their Set times
          expireAt,  \* when Redis drops the hash, or Never
          pc, key, victims,  \* locals of a Set
          sets,      \* Sets begun
          faults,    \* commands that have failed
          lost       \* history: an entry was stored whose EXPIRE was not
                     \* carried out, and no EXPIRE has been since

vars == <<clock, hash, expireAt, pc, key, victims, sets, faults, lost>>
redis == <<hash, expireAt, lost>>
locals == <<pc, key, victims>>

Cached == DOMAIN hash

Empty == [k \in {} |-> 0]

\* Redis outlives the gateway: a cache may be there already.
Init == /\ clock = 0
        /\ \E ks \in SUBSET Keys : /\ MaxSize > 0 => Cardinality(ks) <= MaxSize
                                  /\ hash = [k \in ks |-> 0]
        /\ expireAt = IF hash = Empty \/ TTL = 0 THEN Never ELSE TTL
        /\ pc = [w \in Writers |-> "idle"]
        /\ key = [w \in Writers |-> NoKey]
        /\ victims = [w \in Writers |-> {}]
        /\ sets = 0 /\ faults = 0
        /\ lost = FALSE

\* A hash that has lost its last field is gone, and its expiry with it.
Store(h) == /\ hash' = h
            /\ expireAt' = IF DOMAIN h = {} THEN Never ELSE expireAt
            /\ lost' = (lost /\ DOMAIN h # {})

Goto(w, label) == pc' = [pc EXCEPT ![w] = label]
Done(w) == /\ Goto(w, "idle")
           /\ key' = [key EXCEPT ![w] = NoKey]
           /\ victims' = [victims EXCEPT ![w] = {}]

\* Time passes, and Redis drops the hash when its time has come.
Tick == /\ clock < MaxClock
        /\ clock' = clock + 1
        /\ IF expireAt = clock + 1 THEN Store(Empty) ELSE UNCHANGED redis
        /\ UNCHANGED <<locals, sets, faults>>

Begin(w) == /\ pc[w] = "idle"
            /\ sets < MaxSets
            /\ sets' = sets + 1
            /\ \E k \in Keys : key' = [key EXCEPT ![w] = k]
            /\ Goto(w, IF MaxSize <= 0 THEN "hset" ELSE "hlen")
            /\ UNCHANGED <<clock, redis, victims, faults>>

\* Faulty variant: the limit is off by one.
HLenInclusive(w) ==
    /\ pc[w] = "hlen"
    /\ Goto(w, IF Cardinality(Cached) > MaxSize THEN "hkeys" ELSE "hset")
    /\ UNCHANGED <<clock, redis, key, victims, sets, faults>>

HLen(w) == /\ pc[w] = "hlen"
           /\ Goto(w, IF Cardinality(Cached) >= MaxSize THEN "hkeys" ELSE "hset")
           /\ UNCHANGED <<clock, redis, key, victims, sets, faults>>

\* HKEYS returns the fields in Redis's own order: any of them may come first.
HKeys(w) ==
    /\ pc[w] = "hkeys"
    /\ LET share == Cardinality(Cached) \div EvictShare
           deleteCount == IF share < 1 THEN 1 ELSE share
       IN  \E vs \in kSubset(Min({deleteCount, Cardinality(Cached)}), Cached) :
              /\ victims' = [victims EXCEPT ![w] = vs]
              /\ Goto(w, IF vs = {} THEN "hset" ELSE "hdel")
    /\ UNCHANGED <<clock, redis, key, sets, faults>>

HDel(w) ==
    /\ pc[w] = "hdel"
    /\ \E k \in victims[w] :
         /\ Store(Restrict(hash, Cached \ {k}))
         /\ victims' = [victims EXCEPT ![w] = @ \ {k}]
         /\ Goto(w, IF victims[w] = {k} THEN "hset" ELSE "hdel")
    /\ UNCHANGED <<clock, key, sets, faults>>

Add(w) == hash' = [k \in Cached \cup {key[w]} |->
                      IF k = key[w] THEN clock ELSE hash[k]]

\* Faulty variant: EXPIRE comes first.
HSetLast(w) == /\ pc[w] = "hset"
               /\ Add(w)
               /\ expireAt' = IF Cached = {} THEN Never ELSE clock + TTL
               /\ Done(w)
               /\ UNCHANGED <<clock, lost, sets, faults>>

HSet(w) == /\ pc[w] = "hset"
           /\ Add(w)
           /\ IF TTL > 0 THEN Goto(w, "expire") /\ UNCHANGED <<key, victims>>
                         ELSE Done(w)
           /\ UNCHANGED <<clock, expireAt, lost, sets, faults>>

\* Faulty variant: an expiry is not renewed.
ExpireOnce(w) == /\ pc[w] = "expire"
                 /\ expireAt' = IF Cached = {} THEN Never
                                ELSE IF expireAt # Never THEN expireAt ELSE clock + TTL
                 /\ lost' = FALSE
                 /\ Done(w)
                 /\ UNCHANGED <<clock, hash, sets, faults>>

\* EXPIRE sets the time of the whole hash; it does nothing when there is none.
Expire(w) == /\ pc[w] = "expire"
             /\ expireAt' = IF Cached = {} THEN Never ELSE clock + TTL
             /\ lost' = FALSE
             /\ Done(w)
             /\ UNCHANGED <<clock, hash, sets, faults>>

\* A command fails, or the request's context is cancelled.  An error while
\* evicting is dropped and Set goes on.
EvictionFails(w) ==
    \/ /\ pc[w] \in {"hlen", "hkeys"}
       /\ Goto(w, "hset")
       /\ UNCHANGED <<key, victims, redis>>
    \/ /\ pc[w] = "hdel"
       /\ \E k \in victims[w] :
            /\ victims' = [victims EXCEPT ![w] = @ \ {k}]
            /\ Goto(w, IF victims[w] = {k} THEN "hset" ELSE "hdel")
       /\ UNCHANGED <<key, redis>>

\* An error of HSET ends the Set.  When only the reply was lost, Redis has
\* stored the entry, and no EXPIRE follows.
HSetFails(w) == /\ pc[w] = "hset"
                /\ Done(w)
                /\ \/ UNCHANGED redis
                   \/ /\ Add(w)
                      /\ lost' = (lost \/ TTL > 0)
                      /\ UNCHANGED expireAt

ExpireFails(w) == /\ pc[w] = "expire"
                  /\ Done(w)
                  /\ lost' = (lost \/ Cached # {})
                  /\ UNCHANGED <<hash, expireAt>>

\* An HDEL or EXPIRE that Redis carries out and reports as failed leaves
\* behind what HDel and Expire do.
Fault(w) == /\ faults < MaxFaults
            /\ faults' = faults + 1
            /\ EvictionFails(w) \/ HSetFails(w) \/ ExpireFails(w)
            /\ UNCHANGED <<clock, sets>>

Next == \/ Tick
        \/ \E w \in Writers : \/ Begin(w) \/ HLen(w) \/ HKeys(w) \/ HDel(w)
                              \/ HSet(w) \/ Expire(w) \/ Fault(w)

Spec == Init /\ [][Next]_vars
-------------------------------------------------------------------------------
\* SPEC.md:116 max_cache_size: concurrent Sets each check the size before any
\* of them adds its entry, so the limit is exceeded, but by no more than the
\* other writers and the commands that failed, however often they race and
\* evict the same entries.  (As long as one share is as many as the writers.)
SizeBounded == Cardinality(Cached) <= MaxSize + Cardinality(Writers) - 1 + faults

\* l1.go:84 "Set stores response in cache with TTL": once no Set is between
\* HSET and EXPIRE the hash has an expiry, unless a Set that failed has left its
\* entry without an EXPIRE and no other Set has renewed the expiry since.  An
\* idle cache empties.
Settled == ~ lost /\ \A w \in Writers : pc[w] # "expire"
IdleCacheExpires == Settled /\ Cached # {} => expireAt # Never

\* The expiry is that of the whole hash, and every Set renews it: whatever the
\* order of the commands, no entry is dropped before its own TTL has passed,
\* with the same exception: what a failed Set stored may be dropped with the
\* entries before it, until the EXPIRE of another Set keeps them all.
LivesItsTTL == Settled => \A k \in Cached : expireAt = Never \/ expireAt >= hash[k] + TTL
===============================================================================
