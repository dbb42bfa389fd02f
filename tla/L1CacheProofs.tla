---------------------------- MODULE L1CacheProofs ----------------------------
(***************************************************************************)
(* The exact-match cache for any number of writers, keys and entries, any  *)
(* TTL and any commands that fail.                                         *)
(***************************************************************************)
EXTENDS L1Cache, FiniteSetTheorems, TLAPS

Labels == {"idle", "hlen", "hkeys", "hdel", "hset", "expire"}

\* Set times are of the past; victims are held only while they are deleted;
\* with no TTL nothing ever expires.
Types == /\ clock \in Nat /\ faults \in Nat
         /\ Cached \subseteq Keys
         /\ \A k \in Cached : hash[k] \in Nat /\ hash[k] <= clock
         /\ expireAt \in Nat \cup {Never}
         /\ pc \in [Writers -> Labels]
         /\ key \in [Writers -> Keys \cup {NoKey}]
         /\ \A w \in Writers : pc[w] # "idle" => key[w] \in Keys
         /\ victims \in [Writers -> SUBSET Keys]
         /\ \A w \in Writers : pc[w] # "hdel" => victims[w] = {}

Expiries == /\ TTL = 0 => expireAt = Never /\ \A w \in Writers : pc[w] # "expire"
            /\ TTL > 0 => IdleCacheExpires
            /\ LivesItsTTL

IInv == Types /\ Expiries

-----------------------------------------------------------------------------
LEMMA InitTypes == Init => IInv
<1> SUFFICES ASSUME Init PROVE IInv
  OBVIOUS
<1>1. PICK ks \in SUBSET Keys : hash = [k \in ks |-> 0]
  BY DEF Init
<1>2. Cached = ks /\ \A k \in ks : hash[k] = 0
  BY <1>1 DEF Cached
<1>3. Types
  BY <1>2, L1Assumption DEF Init, Types, Labels
<1>4. ks = {} <=> hash = Empty
  BY <1>1, <1>2 DEF Empty, Cached
<1>5. Expiries
  BY <1>2, <1>4, L1Assumption, NeverAssumption
     DEF Init, Expiries, IdleCacheExpires, LivesItsTTL, Settled
<1> QED
  BY <1>3, <1>5 DEF IInv

\* What HDEL and an expiry leave is part of what was there.
LEMMA StoreExpiries ==
    ASSUME Expiries, NEW h, Store(h), DOMAIN h \subseteq Cached,
           \A k \in DOMAIN h : h[k] = hash[k],
           \A w \in Writers : pc'[w] = "expire" <=> pc[w] = "expire"
    PROVE  Expiries'
<1>1. Cached' = DOMAIN h /\ hash' = h
  BY DEF Store, Cached
<1>2. CASE Cached' = {}
  BY <1>1, <1>2 DEF Expiries, Store, IdleCacheExpires, LivesItsTTL, Settled
<1>3. CASE Cached' # {}
  <2>1. expireAt' = expireAt /\ (lost' <=> lost) /\ Cached # {}
    BY <1>1, <1>3 DEF Store, Expiries
  <2>2. Settled' <=> Settled
    BY <2>1 DEF Settled
  <2> QED
    BY <1>1, <1>3, <2>1, <2>2
       DEF Expiries, IdleCacheExpires, LivesItsTTL, Settled
<1> QED
  BY <1>2, <1>3

LEMMA TickIInv == ASSUME IInv, Tick PROVE IInv'
<1>1. CASE expireAt = clock + 1
  <2>1. Store(Empty) /\ DOMAIN Empty = {}
    BY <1>1 DEF Tick, Empty
  <2>2. Expiries'
    BY <2>1, StoreExpiries DEF IInv, Tick, locals
  <2>3. Types'
    BY <2>1 DEF IInv, Types, Tick, locals, Store, Cached
  <2> QED
    BY <2>2, <2>3 DEF IInv
<1>2. CASE expireAt # clock + 1
  <2>1. Types'
    BY <1>2 DEF IInv, Types, Tick, locals, redis, Cached
  <2>2. Expiries'
    BY <1>2 DEF IInv, Expiries, Tick, locals, redis, Cached, Settled,
                IdleCacheExpires, LivesItsTTL
  <2> QED
    BY <2>1, <2>2 DEF IInv
<1> QED
  BY <1>1, <1>2

\* A step that leaves Redis alone and no Set between HSET and EXPIRE.
LEMMA LocalExpiries ==
    ASSUME Expiries, UNCHANGED redis,
           \A w \in Writers : pc'[w] = "expire" <=> pc[w] = "expire"
    PROVE  Expiries'
BY DEF Expiries, redis, Cached, Settled, IdleCacheExpires, LivesItsTTL

LEMMA BeginIInv == ASSUME IInv, NEW w \in Writers, Begin(w) PROVE IInv'
<1>1. PICK k \in Keys : key' = [key EXCEPT ![w] = k]
  BY DEF Begin
<1>2. Types'
  BY <1>1 DEF IInv, Types, Begin, Goto, Labels, redis, Cached
<1>3. Expiries'
  BY LocalExpiries DEF IInv, Types, Begin, Goto
<1> QED
  BY <1>2, <1>3 DEF IInv

LEMMA HLenIInv == ASSUME IInv, NEW w \in Writers, HLen(w) PROVE IInv'
<1>1. Types'
  BY DEF IInv, Types, HLen, Goto, Labels, redis, Cached
<1>2. Expiries'
  BY LocalExpiries DEF IInv, Types, HLen, Goto
<1> QED
  BY <1>1, <1>2 DEF IInv

LEMMA HKeysIInv == ASSUME IInv, NEW w \in Writers, HKeys(w) PROVE IInv'
<1>1. PICK vs \in SUBSET Cached :
        /\ victims' = [victims EXCEPT ![w] = vs]
        /\ Goto(w, IF vs = {} THEN "hset" ELSE "hdel")
  BY DEF HKeys, kSubset
<1>2. Types'
  <2>1. vs \in SUBSET Keys
    BY DEF IInv, Types
  <2> QED
    BY <1>1, <2>1 DEF IInv, Types, HKeys, Goto, Labels, redis, Cached
<1>3. Expiries'
  BY <1>1, LocalExpiries DEF IInv, Types, HKeys, Goto
<1> QED
  BY <1>2, <1>3 DEF IInv

LEMMA HDelIInv == ASSUME IInv, NEW w \in Writers, HDel(w) PROVE IInv'
<1>1. PICK k \in victims[w] :
        /\ Store(Restrict(hash, Cached \ {k}))
        /\ victims' = [victims EXCEPT ![w] = @ \ {k}]
        /\ Goto(w, IF victims[w] = {k} THEN "hset" ELSE "hdel")
  BY DEF HDel
<1> DEFINE h == Restrict(hash, Cached \ {k})
<1>2. DOMAIN h = Cached \ {k} /\ \A j \in Cached \ {k} : h[j] = hash[j]
  BY DEF Restrict
<1>3. Cached' = Cached \ {k} /\ hash' = h /\ expireAt' \in {expireAt, Never}
  BY <1>1, <1>2 DEF Store, Cached
<1>4. Types'
  <2>1. \A j \in Cached' : hash'[j] = hash[j]
    BY <1>2, <1>3
  <2>2. /\ Cached' \subseteq Keys
        /\ \A j \in Cached' : hash'[j] \in Nat /\ hash'[j] <= clock'
        /\ expireAt' \in Nat \cup {Never}
    BY <1>3, <2>1 DEF IInv, Types, HDel
  <2> QED
    BY <1>1, <2>2 DEF IInv, Types, HDel, Goto, Labels
<1>5. Expiries'
  <2>1. \A v \in Writers : pc'[v] = "expire" <=> pc[v] = "expire"
    BY <1>1 DEF IInv, Types, HDel, Goto
  <2>2. Expiries /\ Store(h) /\ DOMAIN h \subseteq Cached
    BY <1>1, <1>2 DEF IInv
  <2> QED
    BY <1>2, <2>1, <2>2, StoreExpiries
<1> QED
  BY <1>4, <1>5 DEF IInv

LEMMA HSetIInv == ASSUME IInv, NEW w \in Writers, HSet(w) PROVE IInv'
<1>1. /\ Cached' = Cached \cup {key[w]}
      /\ hash'[key[w]] = clock
      /\ \A k \in Cached \ {key[w]} : hash'[k] = hash[k]
  BY DEF HSet, Add, Cached
<1>2. Types'
  BY <1>1 DEF IInv, Types, HSet, Add, Goto, Done, Labels
<1>3. CASE TTL > 0
  <2>1. pc'[w] = "expire" /\ expireAt' = expireAt
    BY <1>3 DEF HSet, Goto, IInv, Types
  <2> QED
    BY <1>2, <1>3, <2>1
       DEF IInv, Expiries, Settled, IdleCacheExpires, LivesItsTTL
<1>4. CASE TTL = 0
  <2>1. expireAt' = Never /\ \A v \in Writers : pc'[v] # "expire"
    BY <1>4 DEF HSet, Goto, Done, IInv, Types, Expiries
  <2> QED
    BY <1>2, <1>4, <2>1
       DEF IInv, Expiries, Settled, IdleCacheExpires, LivesItsTTL
<1> QED
  BY <1>3, <1>4, L1Assumption

LEMMA ExpireIInv == ASSUME IInv, NEW w \in Writers, Expire(w) PROVE IInv'
<1> USE L1Assumption
<1>1. Cached' = Cached /\ hash' = hash
  BY DEF Expire, Cached
<1>2. Types'
  BY <1>1 DEF IInv, Types, Expire, Goto, Done, Labels
<1>3. /\ TTL > 0
      /\ expireAt' = IF Cached = {} THEN Never ELSE clock + TTL
  BY DEF Expire, IInv, Expiries
<1>4. IdleCacheExpires'
  BY <1>1, <1>3, NeverAssumption DEF IInv, Types, IdleCacheExpires
<1>5. LivesItsTTL'
  BY <1>1, <1>3 DEF IInv, Types, LivesItsTTL
<1> QED
  BY <1>2, <1>3, <1>4, <1>5 DEF IInv, Expiries

LEMMA EvictionFailsIInv ==
    ASSUME IInv, NEW w \in Writers, Fault(w), EvictionFails(w) PROVE IInv'
<1>1. /\ UNCHANGED <<clock, redis, key>> /\ Cached' = Cached
      /\ faults' \in Nat
  BY DEF Fault, EvictionFails, redis, Cached, IInv, Types
<1>2. \A v \in Writers : pc'[v] = "expire" <=> pc[v] = "expire"
  BY DEF EvictionFails, Goto, IInv, Types
<1>3. Types'
  <2>1. CASE pc[w] \in {"hlen", "hkeys"}
    BY <1>1, <2>1 DEF IInv, Types, EvictionFails, Goto, Labels, redis
  <2>2. CASE pc[w] = "hdel"
    <3>1. PICK k \in victims[w] :
            /\ victims' = [victims EXCEPT ![w] = @ \ {k}]
            /\ Goto(w, IF victims[w] = {k} THEN "hset" ELSE "hdel")
      BY <2>2 DEF EvictionFails
    <3> QED
      BY <1>1, <2>2, <3>1 DEF IInv, Types, Goto, Labels, redis
  <2> QED
    BY <2>1, <2>2 DEF EvictionFails
<1>4. Expiries'
  BY <1>1, <1>2, LocalExpiries DEF IInv
<1> QED
  BY <1>3, <1>4 DEF IInv

LEMMA HSetFailsIInv ==
    ASSUME IInv, NEW w \in Writers, Fault(w), HSetFails(w) PROVE IInv'
<1>1. /\ clock' = clock /\ faults' \in Nat /\ expireAt' = expireAt
      /\ key[w] \in Keys /\ Done(w) /\ pc[w] = "hset"
  BY DEF Fault, HSetFails, redis, IInv, Types
<1>2. \A v \in Writers : pc'[v] = "expire" <=> pc[v] = "expire"
  BY <1>1 DEF Done, Goto, IInv, Types
<1>3. CASE UNCHANGED redis
  <2>1. Types'
    BY <1>1, <1>3 DEF IInv, Types, Done, Goto, Labels, redis, Cached
  <2> QED
    BY <1>2, <1>3, <2>1, LocalExpiries DEF IInv
<1>4. CASE Add(w) /\ lost' = (lost \/ TTL > 0)
  <2>1. /\ Cached' = Cached \cup {key[w]}
        /\ hash'[key[w]] = clock
        /\ \A k \in Cached \ {key[w]} : hash'[k] = hash[k]
    BY <1>4 DEF Add, Cached
  <2>2. Types'
    BY <1>1, <2>1 DEF IInv, Types, Done, Goto, Labels
  <2>3. CASE TTL > 0
    <3>1. ~ Settled'
      BY <1>4, <2>3 DEF Settled
    <3> QED
      BY <2>2, <2>3, <3>1, L1Assumption
         DEF IInv, Expiries, IdleCacheExpires, LivesItsTTL
  <2>4. CASE TTL = 0
    BY <1>1, <1>2, <2>2, <2>4 DEF IInv, Expiries, LivesItsTTL
  <2> QED
    BY <2>3, <2>4, L1Assumption
<1> QED
  BY <1>3, <1>4 DEF HSetFails

LEMMA ExpireFailsIInv ==
    ASSUME IInv, NEW w \in Writers, Fault(w), ExpireFails(w) PROVE IInv'
<1>1. /\ Cached' = Cached /\ hash' = hash /\ expireAt' = expireAt
      /\ clock' = clock /\ faults' \in Nat
  BY DEF Fault, ExpireFails, Cached, IInv, Types
<1>2. lost' = (lost \/ Cached # {}) /\ Done(w)
  BY DEF ExpireFails
<1>3. Types'
  BY <1>1, <1>2 DEF IInv, Types, Done, Goto, Labels
<1>4. \A v \in Writers : pc'[v] = IF v = w THEN "idle" ELSE pc[v]
  BY <1>2 DEF IInv, Types, Done, Goto
<1>5. Settled' => Cached = {}
  BY <1>2 DEF Settled
<1>6. Expiries'
  BY <1>1, <1>4, <1>5 DEF IInv, Expiries, IdleCacheExpires, LivesItsTTL
<1> QED
  BY <1>3, <1>6 DEF IInv

LEMMA FaultIInv == ASSUME IInv, NEW w \in Writers, Fault(w) PROVE IInv'
BY EvictionFailsIInv, HSetFailsIInv, ExpireFailsIInv DEF Fault

LEMMA StutterIInv == IInv /\ UNCHANGED vars => IInv'
<1> SUFFICES ASSUME IInv, UNCHANGED vars PROVE IInv'
  OBVIOUS
<1>1. Types'
  BY DEF IInv, Types, vars, Cached
<1>2. Expiries'
  BY DEF IInv, Expiries, vars, Cached, Settled, IdleCacheExpires, LivesItsTTL
<1> QED
  BY <1>1, <1>2 DEF IInv

LEMMA IInvInvariant == Spec => []IInv
<1>1. IInv /\ [Next]_vars => IInv'
  BY TickIInv, BeginIInv, HLenIInv, HKeysIInv, HDelIInv, HSetIInv, ExpireIInv,
     FaultIInv, StutterIInv DEF Next
<1> QED
  BY <1>1, InitTypes, PTL DEF Spec

\* The expiry belongs to the whole hash and every Set renews it after it has
\* stored its entry: Redis drops no entry before its own TTL has passed, unless
\* a Set failed after its entry was stored and none has renewed the expiry since
\* (l1.go Set).
THEOREM EntriesLive == Spec => []LivesItsTTL
<1>1. IInv => LivesItsTTL
  BY DEF IInv, Expiries
<1> QED
  BY <1>1, IInvInvariant, PTL

\* With a TTL the hash has an expiry whenever no Set is between its HSET and its
\* EXPIRE, unless a Set failed after its entry was stored and none has renewed
\* the expiry since: what nobody uses goes away (l1.go Set).
THEOREM IdleCacheEmpties == ASSUME TTL > 0 PROVE Spec => []IdleCacheExpires
<1>1. IInv => IdleCacheExpires
  BY DEF IInv, Expiries
<1> QED
  BY <1>1, IInvInvariant, PTL

-----------------------------------------------------------------------------
\* The size.  Who has seen room and will add an entry, who is deleting the
\* victims it has chosen, and the entries some of those still stand to delete.
Adding == {w \in Writers : pc[w] = "hset"}
Deleting == {w \in Writers : pc[w] = "hdel"}
Doomed(S) == {k \in Cached : \E w \in S : k \in victims[w]}
Bound == MaxSize + Cardinality(Writers) - 1 + faults

\* However the writers that delete are chosen, what is cached and what will be
\* added, those included, fits once their victims are gone.
Roomy == \A S \in SUBSET Deleting :
            Cardinality(Cached) + Cardinality(Adding) + Cardinality(S)
               <= Bound + Cardinality(Doomed(S))

\* A share of a full cache is as many entries as there are writers.
EvictsEnough == MaxSize > 0 /\ MaxSize \div EvictShare >= Cardinality(Writers)

LEMMA SlotsNat == Cardinality(Writers) \in Nat \ {0}
BY FS_CardinalityType, FS_EmptySet, WritersAssumption

LEMMA Seats ==
    ASSUME NEW A, NEW S, A \subseteq Writers, S \subseteq Writers,
           A \cap S = {}
    PROVE  /\ IsFiniteSet(A) /\ IsFiniteSet(S)
           /\ Cardinality(A) \in Nat /\ Cardinality(S) \in Nat
           /\ Cardinality(Writers) \in Nat \ {0}
           /\ Cardinality(A) + Cardinality(S) <= Cardinality(Writers)
<1>1. IsFiniteSet(A) /\ IsFiniteSet(S) /\ IsFiniteSet(A \cup S)
  BY FS_Subset, FS_Union, WritersAssumption
<1>2. Cardinality(A \cup S) = Cardinality(A) + Cardinality(S) - 0
  BY <1>1, FS_Union, FS_EmptySet
<1>3. Cardinality(A \cup S) <= Cardinality(Writers)
  BY FS_Subset, WritersAssumption
<1>4. /\ Cardinality(A) \in Nat /\ Cardinality(S) \in Nat
      /\ Cardinality(Writers) \in Nat \ {0}
  BY <1>1, FS_CardinalityType, FS_EmptySet, WritersAssumption
<1> QED
  BY <1>1, <1>2, <1>3, <1>4

\* Adding or removing one element changes a cardinality by at most one.
LEMMA OneMore ==
    ASSUME NEW S, IsFiniteSet(S), NEW x
    PROVE  /\ IsFiniteSet(S \cup {x}) /\ Cardinality(S) \in Nat
           /\ Cardinality(S \cup {x}) \in Nat
           /\ Cardinality(S \cup {x}) = IF x \in S THEN Cardinality(S)
                                                   ELSE Cardinality(S) + 1
BY FS_AddElement, FS_CardinalityType

LEMMA OneLess ==
    ASSUME NEW S, IsFiniteSet(S), NEW x
    PROVE  /\ IsFiniteSet(S \ {x}) /\ Cardinality(S) \in Nat
           /\ Cardinality(S \ {x}) \in Nat
           /\ Cardinality(S \ {x}) = IF x \in S THEN Cardinality(S) - 1
                                                ELSE Cardinality(S)
BY FS_RemoveElement, FS_CardinalityType

LEMMA CachedFinite ==
    ASSUME Types
    PROVE  /\ IsFiniteSet(Cached) /\ Cardinality(Cached) \in Nat
           /\ \A S : /\ IsFiniteSet(Doomed(S))
                     /\ Cardinality(Doomed(S)) \in Nat
                     /\ Cardinality(Doomed(S)) <= Cardinality(Cached)
BY KeysAssumption, FS_Subset, FS_CardinalityType DEF Types, Doomed

\* While there is room in the cache nobody who adds can overfill it.
LEMMA FewRoomy ==
    ASSUME Types', MaxSize > 0, Cardinality(Cached') < MaxSize
    PROVE  Roomy'
<1> SUFFICES ASSUME NEW S \in SUBSET Deleting'
             PROVE  Cardinality(Cached') + Cardinality(Adding') + Cardinality(S)
                       <= Bound' + Cardinality(Doomed(S)')
  BY DEF Roomy
<1>1. Cardinality(Adding') + Cardinality(S) <= Cardinality(Writers)
  BY Seats DEF Adding, Deleting
<1>2. /\ Cardinality(Adding') \in Nat /\ Cardinality(S) \in Nat
      /\ Cardinality(Writers) \in Nat
  BY Seats DEF Adding, Deleting
<1>3. IsFiniteSet(Cached') /\ IsFiniteSet(Doomed(S)')
  BY KeysAssumption, FS_Subset DEF Types, Doomed
<1>4. Cardinality(Cached') \in Nat /\ Cardinality(Doomed(S)') \in Nat
  BY <1>3, FS_CardinalityType
<1>5. faults' \in Nat /\ Bound' = MaxSize + Cardinality(Writers) - 1 + faults'
  BY DEF Types, Bound
<1> DEFINE n == Cardinality(Cached')   a == Cardinality(Adding')
           s == Cardinality(S)         W == Cardinality(Writers)
           d == Cardinality(Doomed(S)')   b == Bound'   f == faults'
<1>6. /\ n \in Nat /\ a \in Nat /\ s \in Nat /\ W \in Nat /\ d \in Nat
      /\ f \in Nat /\ b = MaxSize + W - 1 + f /\ a + s <= W /\ n < MaxSize
  BY <1>1, <1>2, <1>4, <1>5
<1> HIDE DEF n, a, s, W, d, b, f
<1>7. n + a + s <= b + d
  BY <1>6, L1Assumption
<1> QED
  BY <1>7 DEF n, a, s, d, b

LEMMA InitRoomy == ASSUME Init, EvictsEnough PROVE Roomy
<1>1. Types
  BY InitTypes DEF IInv
<1>2. Deleting = {} /\ Adding = {}
  BY DEF Init, Deleting, Adding
<1>3. Cardinality(Adding) = 0
  BY <1>2, FS_EmptySet
<1>4. Cardinality(Cached) <= MaxSize
  BY DEF Init, Cached, EvictsEnough
<1>5. SUFFICES ASSUME NEW S \in SUBSET Deleting
               PROVE  Cardinality(Cached) + 0 + 0
                         <= Bound + Cardinality(Doomed(S))
  BY <1>2, <1>3, FS_EmptySet DEF Roomy
<1>6. /\ Cardinality(Cached) \in Nat /\ Cardinality(Doomed(S)) \in Nat
      /\ Cardinality(Writers) \in Nat \ {0} /\ faults \in Nat
  BY <1>1, CachedFinite, Seats DEF Types
<1> QED
  BY <1>4, <1>6, L1Assumption DEF Bound

\* One term of Roomy, in numbers: what the steps below have to bound.
LEMMA RoomyType ==
    ASSUME Types
    PROVE  /\ Cardinality(Cached) \in Nat /\ Cardinality(Adding) \in Nat
           /\ Bound \in Int /\ IsFiniteSet(Adding)
           /\ \A S \in SUBSET Deleting :
                 /\ Cardinality(S) \in Nat /\ IsFiniteSet(S)
                 /\ Cardinality(Doomed(S)) \in Nat
<1>1. IsFiniteSet(Adding) /\ Cardinality(Adding) \in Nat
  BY WritersAssumption, FS_Subset, FS_CardinalityType DEF Adding
<1>2. \A S \in SUBSET Deleting : Cardinality(S) \in Nat /\ IsFiniteSet(S)
  BY WritersAssumption, FS_Subset, FS_CardinalityType DEF Deleting
<1>3. Cardinality(Writers) \in Nat
  BY SlotsNat
<1>4. Bound \in Int
  BY <1>3, L1Assumption DEF Bound, Types
<1> QED
  BY <1>1, <1>2, <1>4, CachedFinite

\* What relates a term of Roomy after a step to one before it.
LEMMA RoomyStep ==
    ASSUME Types, Roomy, NEW n \in Nat, NEW a \in Nat, NEW s \in Nat,
           NEW d \in Nat, NEW b \in Int, NEW T \in SUBSET Deleting,
           n - Cardinality(Cached) + a - Cardinality(Adding)
              + s - Cardinality(T)
                 <= b - Bound + d - Cardinality(Doomed(T))
    PROVE  n + a + s <= b + d
<1>1. /\ Cardinality(Cached) \in Nat /\ Cardinality(Adding) \in Nat
      /\ Bound \in Int /\ Cardinality(T) \in Nat
      /\ Cardinality(Doomed(T)) \in Nat
  BY RoomyType
<1>2. Cardinality(Cached) + Cardinality(Adding) + Cardinality(T)
         <= Bound + Cardinality(Doomed(T))
  BY DEF Roomy
<1> DEFINE n0 == Cardinality(Cached)   a0 == Cardinality(Adding)
           t0 == Cardinality(T)        d0 == Cardinality(Doomed(T))
           b0 == Bound
<1>3. /\ n0 \in Nat /\ a0 \in Nat /\ t0 \in Nat /\ d0 \in Nat /\ b0 \in Int
      /\ n0 + a0 + t0 <= b0 + d0
      /\ n - n0 + a - a0 + s - t0 <= b - b0 + d - d0
  BY <1>1, <1>2
<1> HIDE DEF n0, a0, t0, d0, b0
<1> QED
  BY <1>3

-----------------------------------------------------------------------------
\* A step that leaves the cache and the victims alone and sets nobody to add or
\* delete leaves room where there was room.
LEMMA FrameRoomy ==
    ASSUME Types, Types', Roomy, Cached' = Cached,
           Adding' \subseteq Adding, Deleting' \subseteq Deleting,
           \A w \in Deleting' : victims'[w] = victims[w],
           faults' \in {faults, faults + 1}
    PROVE  Roomy'
<1> SUFFICES ASSUME NEW S \in SUBSET Deleting'
             PROVE  Cardinality(Cached') + Cardinality(Adding') + Cardinality(S)
                       <= Bound' + Cardinality(Doomed(S)')
  BY DEF Roomy
<1>1. S \in SUBSET Deleting /\ Doomed(S)' = Doomed(S)
  BY DEF Doomed
<1>2. /\ Cardinality(Adding') \in Nat
      /\ Cardinality(Adding') <= Cardinality(Adding)
  BY RoomyType, FS_Subset, FS_CardinalityType
<1>3. Bound' \in Int /\ Bound <= Bound'
  BY SlotsNat, L1Assumption DEF Bound, Types
<1>4. /\ Cardinality(Cached) \in Nat /\ Cardinality(S) \in Nat
      /\ Cardinality(Doomed(S)) \in Nat /\ Bound \in Int
      /\ Cardinality(Adding) \in Nat
  BY <1>1, RoomyType
<1> DEFINE n == Cardinality(Cached')   a == Cardinality(Adding')
           s == Cardinality(S)   d == Cardinality(Doomed(S)')   b == Bound'
           n0 == Cardinality(Cached)   a0 == Cardinality(Adding)
           d0 == Cardinality(Doomed(S))   b0 == Bound
<1>5. /\ n \in Nat /\ a \in Nat /\ s \in Nat /\ d \in Nat /\ b \in Int
      /\ n = n0 /\ a <= a0 /\ d = d0 /\ b0 <= b /\ a0 \in Nat /\ b0 \in Int
  BY <1>1, <1>2, <1>3, <1>4
<1>6. n0 + a0 + s <= b0 + d0
  BY <1>1 DEF Roomy
<1> HIDE DEF n, a, s, d, b, n0, a0, d0, b0
<1>7. n + a + s <= b + d
  BY <1>5, <1>6
<1> QED
  BY <1>7 DEF n, a, s, d, b

\* Who adds next, and who deletes, once one Set has gone on.
LEMMA Moved ==
    ASSUME Types, NEW w \in Writers, NEW label, Goto(w, label)
    PROVE  /\ Adding' = IF label = "hset" THEN Adding \cup {w} ELSE Adding \ {w}
           /\ Deleting' = IF label = "hdel" THEN Deleting \cup {w}
                                            ELSE Deleting \ {w}
BY DEF Types, Goto, Adding, Deleting

LEMMA TickRoomy ==
    ASSUME IInv, Roomy, EvictsEnough, Types', Tick PROVE Roomy'
<1>1. Adding' = Adding /\ Deleting' = Deleting /\ victims' = victims
  BY DEF Tick, locals, Adding, Deleting
<1>2. CASE expireAt = clock + 1
  <2>1. Cached' = {}
    BY <1>2 DEF Tick, Store, Empty, Cached
  <2>2. Cardinality(Cached') = 0
    BY <2>1, FS_EmptySet
  <2> QED
    BY <2>2, FewRoomy, L1Assumption DEF EvictsEnough
<1>3. CASE expireAt # clock + 1
  BY <1>1, <1>3, FrameRoomy DEF IInv, Tick, redis, Cached
<1> QED
  BY <1>2, <1>3

LEMMA BeginRoomy ==
    ASSUME IInv, Roomy, EvictsEnough, Types', NEW w \in Writers, Begin(w)
    PROVE  Roomy'
<1>1. Goto(w, "hlen") /\ pc[w] = "idle"
  BY L1Assumption DEF Begin, EvictsEnough
<1>2. Adding' \subseteq Adding /\ Deleting' \subseteq Deleting
  BY <1>1, Moved DEF IInv
<1> QED
  BY <1>2, FrameRoomy DEF IInv, Begin, redis, Cached

LEMMA HLenRoomy ==
    ASSUME IInv, Roomy, EvictsEnough, Types', NEW w \in Writers, HLen(w)
    PROVE  Roomy'
<1>1. Cached' = Cached /\ Cardinality(Cached) \in Nat
  BY CachedFinite DEF IInv, HLen, redis, Cached
<1>2. CASE Cardinality(Cached) >= MaxSize
  <2>1. Goto(w, "hkeys")
    BY <1>2 DEF HLen
  <2>2. Adding' \subseteq Adding /\ Deleting' \subseteq Deleting
    BY <2>1, Moved DEF IInv
  <2> QED
    BY <1>1, <2>2, FrameRoomy DEF IInv, HLen
<1>3. CASE Cardinality(Cached) < MaxSize
  BY <1>1, <1>3, FewRoomy DEF EvictsEnough
<1> QED
  BY <1>1, <1>2, <1>3, L1Assumption

\* A full cache gives up a share, so many that the others need not be asked.
LEMMA HKeysRoomy ==
    ASSUME IInv, Roomy, EvictsEnough, Types', NEW w \in Writers, HKeys(w)
    PROVE  Roomy'
<1> DEFINE n == Cardinality(Cached)
           share == n \div EvictShare
           count == IF share < 1 THEN 1 ELSE share
<1>1. Cached' = Cached /\ n \in Nat /\ IsFiniteSet(Cached)
  BY CachedFinite DEF IInv, HKeys, redis, Cached
<1>2. CASE n < MaxSize
  BY <1>1, <1>2, FewRoomy DEF EvictsEnough
<1>3. CASE n >= MaxSize
  <2>1. PICK vs \in kSubset(Min({count, n}), Cached) :
          /\ victims' = [victims EXCEPT ![w] = vs]
          /\ Goto(w, IF vs = {} THEN "hset" ELSE "hdel")
    BY DEF HKeys
  <2>2. Cardinality(Writers) \in Nat \ {0}
    BY SlotsNat
  <2>3. share \in Nat /\ share <= n /\ share >= MaxSize \div EvictShare
    <3> HIDE DEF n
    <3>1. /\ n \in Nat /\ MaxSize \in Nat /\ EvictShare \in Nat \ {0}
          /\ n >= MaxSize
      BY <1>1, <1>3, L1Assumption
    <3> QED
      BY <3>1
  <2>4. share >= Cardinality(Writers) /\ count = share
    <3> HIDE DEF n
    <3>1. MaxSize \div EvictShare \in Int
      BY L1Assumption
    <3> HIDE DEF share
    <3> QED
      BY <2>2, <2>3, <3>1 DEF EvictsEnough
  <2>5. Min({count, n}) = share
    <3> HIDE DEF n, share
    <3>1. Min({share, n}) = CHOOSE x \in {share, n} : \A y \in {share, n} : x =< y
      BY DEF Min
    <3>2. share \in {share, n} /\ \A y \in {share, n} : share =< y
      BY <1>1, <2>3
    <3>3. \A x \in {share, n} : (\A y \in {share, n} : x =< y) => x = share
      BY <1>1, <2>3
    <3> QED
      BY <2>4, <3>1, <3>2, <3>3
  <2>6. vs \subseteq Cached /\ Cardinality(vs) >= Cardinality(Writers)
    BY <2>1, <2>4, <2>5 DEF kSubset
  <2>7. vs # {} /\ IsFiniteSet(vs) /\ Cardinality(vs) \in Nat
    BY <1>1, <2>2, <2>6, FS_EmptySet, FS_Subset, FS_CardinalityType
  <2>8. Adding' = Adding \ {w} /\ Deleting' = Deleting \cup {w}
    BY <2>1, <2>7, Moved DEF IInv
  <2>9. Adding' = Adding /\ w \notin Deleting /\ Bound' = Bound
    BY <2>8 DEF HKeys, Adding, Deleting, Bound
  <2>10. SUFFICES ASSUME NEW S \in SUBSET Deleting'
                  PROVE  n + Cardinality(Adding) + Cardinality(S)
                            <= Bound + Cardinality(Doomed(S)')
    BY <1>1, <2>9 DEF Roomy
  <2>11. CASE w \notin S
    <3>1. S \in SUBSET Deleting /\ \A v \in S : victims'[v] = victims[v]
      BY <2>1, <2>8, <2>11 DEF IInv, Types, Deleting
    <3>2. Doomed(S)' = Doomed(S)
      BY <1>1, <3>1 DEF Doomed
    <3> QED
      BY <3>1, <3>2 DEF Roomy
  <2>12. CASE w \in S
    <3>1. vs \subseteq Doomed(S)' /\ IsFiniteSet(Doomed(S)')
      <4>1. victims'[w] = vs
        BY <2>1 DEF IInv, Types
      <4> QED
        BY <1>1, <2>6, <2>12, <4>1, FS_Subset DEF Doomed
    <3>2. /\ Cardinality(Doomed(S)') >= Cardinality(vs)
          /\ Cardinality(Doomed(S)') \in Nat
      BY <3>1, FS_Subset, FS_CardinalityType
    <3>3. Cardinality(S) <= Cardinality(Writers) /\ Cardinality(S) \in Nat
      BY WritersAssumption, FS_Subset, FS_CardinalityType DEF Deleting
    <3>4. n + Cardinality(Adding) + Cardinality({})
             <= Bound + Cardinality(Doomed({}))
      BY DEF Roomy
    <3>5. Cardinality({}) = 0 /\ Cardinality(Doomed({})) = 0
      BY FS_EmptySet DEF Doomed
    <3>6. Cardinality(Adding) \in Nat /\ Bound \in Int
      BY RoomyType DEF IInv
    <3> DEFINE a == Cardinality(Adding)   s == Cardinality(S)   b == Bound
               d == Cardinality(Doomed(S)')   W == Cardinality(Writers)
               v == Cardinality(vs)
    <3>7. /\ n \in Nat /\ a \in Nat /\ s \in Nat /\ d \in Nat /\ W \in Nat
          /\ b \in Int /\ v \in Nat /\ n + a <= b /\ s <= W /\ v >= W /\ d >= v
      BY <1>1, <2>2, <2>6, <2>7, <3>2, <3>3, <3>4, <3>5, <3>6
    <3> HIDE DEF n, a, s, d, b, v, W
    <3>8. n + a + s <= b + d
      BY <3>7
    <3> QED
      BY <3>8 DEF n, a, s, d, b
  <2> QED
    BY <2>11, <2>12
<1> QED
  BY <1>1, <1>2, <1>3, L1Assumption

\* Deleting one of its victims, a Set frees a place for each that counted on it.
LEMMA HDelRoomy ==
    ASSUME IInv, Roomy, Types', NEW w \in Writers, HDel(w)
    PROVE  Roomy'
<1>1. PICK k \in victims[w] :
        /\ Store(Restrict(hash, Cached \ {k}))
        /\ victims' = [victims EXCEPT ![w] = @ \ {k}]
        /\ Goto(w, IF victims[w] = {k} THEN "hset" ELSE "hdel")
  BY DEF HDel
<1>2. Cached' = Cached \ {k}
  BY <1>1 DEF Store, Restrict, Cached
<1>3. Bound' = Bound /\ w \in Deleting /\ w \notin Adding
  BY DEF HDel, Bound, Deleting, Adding
<1>4. /\ IsFiniteSet(Cached) /\ Cardinality(Cached) \in Nat
      /\ Cardinality(Cached') \in Nat
      /\ Cardinality(Cached') = IF k \in Cached THEN Cardinality(Cached) - 1
                                                ELSE Cardinality(Cached)
  BY <1>2, CachedFinite, OneLess DEF IInv
<1>5. ASSUME NEW T \in SUBSET Deleting, NEW S \in SUBSET T,
             T = S \/ (T = S \cup {w} /\ victims[w] = {k})
      PROVE  /\ Cardinality(Doomed(S)') \in Nat
             /\ Cardinality(Doomed(T)) \in Nat
             /\ Cardinality(Doomed(S)')
                   >= IF k \in Cached THEN Cardinality(Doomed(T)) - 1
                                      ELSE Cardinality(Doomed(T))
  <2>1. \A v \in S : victims[v] \ {k} \subseteq victims'[v]
    BY <1>1 DEF IInv, Types, Deleting
  <2>2. Doomed(T) \ {k} \subseteq Doomed(S)'
    BY <1>2, <1>5, <2>1 DEF Doomed
  <2>3. IsFiniteSet(Doomed(T)) /\ IsFiniteSet(Doomed(S)')
    BY KeysAssumption, FS_Subset DEF IInv, Types, Doomed
  <2>4. /\ Cardinality(Doomed(T) \ {k}) <= Cardinality(Doomed(S)')
        /\ Cardinality(Doomed(S)') \in Nat
    BY <2>2, <2>3, FS_Subset, FS_CardinalityType
  <2>5. /\ Cardinality(Doomed(T)) \in Nat
        /\ Cardinality(Doomed(T) \ {k}) \in Nat
        /\ Cardinality(Doomed(T) \ {k})
              >= IF k \in Cached THEN Cardinality(Doomed(T)) - 1
                                 ELSE Cardinality(Doomed(T))
    <3>1. k \notin Cached => k \notin Doomed(T)
      BY DEF Doomed
    <3> QED
      BY <2>3, <3>1, OneLess
  <2> QED
    BY <2>4, <2>5
<1>6. SUFFICES ASSUME NEW S \in SUBSET Deleting'
               PROVE  Cardinality(Cached') + Cardinality(Adding') + Cardinality(S)
                         <= Bound' + Cardinality(Doomed(S)')
  BY DEF Roomy
<1>7. CASE victims[w] # {k}
  <2>1. Adding' = Adding /\ Deleting' = Deleting
    BY <1>1, <1>3, <1>7, Moved DEF IInv
  <2>2. S \in SUBSET Deleting
    BY <2>1
  <2>3. /\ Cardinality(Doomed(S)') \in Nat
        /\ Cardinality(Doomed(S)) \in Nat
        /\ Cardinality(Doomed(S)')
              >= IF k \in Cached THEN Cardinality(Doomed(S)) - 1
                                 ELSE Cardinality(Doomed(S))
    BY <1>5, <2>2
  <2>4. Cardinality(Adding) \in Nat /\ Bound \in Int /\ Cardinality(S) \in Nat
    BY <2>2, RoomyType DEF IInv
  <2>5. Cardinality(Cached) + Cardinality(Adding) + Cardinality(S)
           <= Bound + Cardinality(Doomed(S))
    BY <2>2 DEF Roomy
  <2> DEFINE n == Cardinality(Cached')   n0 == Cardinality(Cached)
             a == Cardinality(Adding)    s == Cardinality(S)
             d == Cardinality(Doomed(S)')   d0 == Cardinality(Doomed(S))
             b == Bound
  <2>6. /\ n \in Nat /\ n0 \in Nat /\ a \in Nat /\ s \in Nat /\ d \in Nat
        /\ d0 \in Nat /\ b \in Int /\ n0 + a + s <= b + d0
        /\ n = (IF k \in Cached THEN n0 - 1 ELSE n0)
        /\ d >= IF k \in Cached THEN d0 - 1 ELSE d0
    BY <1>4, <2>3, <2>4, <2>5
  <2> HIDE DEF n, n0, a, s, d, d0, b
  <2>7. n + a + s <= b + d
    BY <2>6
  <2> QED
    BY <1>3, <2>1, <2>7 DEF n, a, s, d, b
<1>8. CASE victims[w] = {k}
  <2>1. Adding' = Adding \cup {w} /\ Deleting' = Deleting \ {w}
    BY <1>1, <1>8, Moved DEF IInv
  <2> DEFINE T == S \cup {w}
  <2>2. T \in SUBSET Deleting /\ S \in SUBSET T /\ S \in SUBSET Deleting
    BY <1>3, <2>1
  <2>3. /\ Cardinality(Doomed(S)') \in Nat
        /\ Cardinality(Doomed(T)) \in Nat
        /\ Cardinality(Doomed(S)')
              >= IF k \in Cached THEN Cardinality(Doomed(T)) - 1
                                 ELSE Cardinality(Doomed(T))
    BY <1>5, <1>8, <2>2
  <2>4. /\ Cardinality(Adding) \in Nat /\ Bound \in Int
        /\ IsFiniteSet(Adding) /\ IsFiniteSet(S) /\ Cardinality(S) \in Nat
    BY <2>2, RoomyType DEF IInv
  <2>5. /\ Cardinality(T) = Cardinality(S) + 1
        /\ Cardinality(Adding') = Cardinality(Adding) + 1
    BY <1>3, <2>1, <2>4, OneMore
  <2>6. Cardinality(Cached) + Cardinality(Adding) + Cardinality(T)
           <= Bound + Cardinality(Doomed(T))
    BY <2>2 DEF Roomy
  <2> DEFINE n == Cardinality(Cached')   n0 == Cardinality(Cached)
             a == Cardinality(Adding')   a0 == Cardinality(Adding)
             s == Cardinality(S)         t == Cardinality(T)
             d == Cardinality(Doomed(S)')   d0 == Cardinality(Doomed(T))
             b == Bound
  <2>7. /\ n \in Nat /\ n0 \in Nat /\ a0 \in Nat /\ s \in Nat /\ d \in Nat
        /\ d0 \in Nat /\ b \in Int /\ n0 + a0 + t <= b + d0
        /\ t = s + 1 /\ a = a0 + 1
        /\ n = (IF k \in Cached THEN n0 - 1 ELSE n0)
        /\ d >= IF k \in Cached THEN d0 - 1 ELSE d0
    BY <1>4, <2>3, <2>4, <2>5, <2>6
  <2> HIDE DEF n, n0, a, a0, s, t, d, d0, b
  <2>8. n + a + s <= b + d
    BY <2>7
  <2> QED
    BY <1>3, <2>8 DEF n, a, s, d, b
<1> QED
  BY <1>7, <1>8

\* The place an entry takes is the one its Set was counted for.
LEMMA AddRoomy ==
    ASSUME IInv, Roomy, Types', NEW w \in Writers, pc[w] = "hset", Add(w),
           NEW label \in {"expire", "idle"}, Goto(w, label),
           UNCHANGED victims \/ victims' = [victims EXCEPT ![w] = {}],
           faults' \in {faults, faults + 1}
    PROVE  Roomy'
<1>1. /\ Cached' = Cached \cup {key[w]} /\ w \in Adding
      /\ Bound' \in {Bound, Bound + 1}
  BY L1Assumption, SlotsNat DEF Add, Cached, Bound, Adding, IInv, Types
<1>3. Adding' = Adding \ {w} /\ Deleting' = Deleting \ {w}
  BY Moved DEF IInv
<1>4. Deleting' \subseteq Deleting /\ \A v \in Deleting' : victims'[v] = victims[v]
  BY <1>3 DEF IInv, Types, Deleting
<1>5. SUFFICES ASSUME NEW S \in SUBSET Deleting'
               PROVE  Cardinality(Cached') + Cardinality(Adding') + Cardinality(S)
                         <= Bound' + Cardinality(Doomed(S)')
  BY DEF Roomy
<1>6. /\ IsFiniteSet(Adding) /\ Cardinality(Adding) \in Nat /\ Bound \in Int
      /\ S \in SUBSET Deleting /\ Cardinality(S) \in Nat
  BY <1>4, RoomyType DEF IInv
<1>7. Cardinality(Adding') = Cardinality(Adding) - 1
  BY <1>1, <1>3, <1>6, OneLess
<1>8. /\ Cardinality(Cached) \in Nat /\ Cardinality(Cached') \in Nat
      /\ Cardinality(Cached') <= Cardinality(Cached) + 1
  <2>1. IsFiniteSet(Cached)
    BY CachedFinite DEF IInv
  <2>2. /\ Cardinality(Cached) \in Nat
        /\ Cardinality(Cached \cup {key[w]}) \in Nat
        /\ Cardinality(Cached \cup {key[w]})
              = IF key[w] \in Cached THEN Cardinality(Cached)
                                    ELSE Cardinality(Cached) + 1
    BY <2>1, OneMore
  <2> QED
    BY <1>1, <2>2
<1>9. Doomed(S) \subseteq Doomed(S)' /\ IsFiniteSet(Doomed(S)')
  BY <1>1, <1>4, KeysAssumption, FS_Subset DEF Doomed, Types
<1>10. /\ Cardinality(Doomed(S)) \in Nat /\ Cardinality(Doomed(S)') \in Nat
       /\ Cardinality(Doomed(S)) <= Cardinality(Doomed(S)')
  BY <1>9, FS_Subset, FS_CardinalityType
<1>11. Cardinality(Cached) + Cardinality(Adding) + Cardinality(S)
          <= Bound + Cardinality(Doomed(S))
  BY <1>6 DEF Roomy
<1> DEFINE n == Cardinality(Cached')   n0 == Cardinality(Cached)
           a == Cardinality(Adding')   a0 == Cardinality(Adding)
           s == Cardinality(S)
           b == Bound'                 b0 == Bound
           d == Cardinality(Doomed(S)')   d0 == Cardinality(Doomed(S))
<1>12. /\ n \in Nat /\ n0 \in Nat /\ a0 \in Nat /\ s \in Nat /\ d \in Nat
       /\ d0 \in Nat /\ b0 \in Int /\ n0 + a0 + s <= b0 + d0
       /\ b \in {b0, b0 + 1} /\ a = a0 - 1 /\ n <= n0 + 1 /\ d0 <= d
  BY <1>1, <1>6, <1>7, <1>8, <1>10, <1>11
<1> HIDE DEF n, n0, a, a0, s, d, d0, b, b0
<1>13. n + a + s <= b + d
  BY <1>12
<1> QED
  BY <1>13 DEF n, a, s, d, b

LEMMA HSetRoomy ==
    ASSUME IInv, Roomy, Types', NEW w \in Writers, HSet(w)
    PROVE  Roomy'
<1>1. PICK label \in {"expire", "idle"} : Goto(w, label)
  BY DEF HSet, Done
<1> QED
  BY <1>1, AddRoomy DEF HSet, Done

LEMMA ExpireRoomy ==
    ASSUME IInv, Roomy, Types', NEW w \in Writers, Expire(w)
    PROVE  Roomy'
<1>1. Goto(w, "idle") /\ Cached' = Cached
  BY DEF Expire, Done, Cached
<1>2. Adding' \subseteq Adding /\ Deleting' = Deleting \ {w}
  BY <1>1, Moved DEF IInv
<1>3. \A v \in Deleting' : victims'[v] = victims[v]
  BY <1>2 DEF Expire, Done, IInv, Types, Deleting
<1> QED
  BY <1>1, <1>2, <1>3, FrameRoomy DEF IInv, Expire

\* A command that fails gives up at most one place of those counted on: one
\* more entry than without it.
LEMMA FaultRoomy ==
    ASSUME IInv, Roomy, Types', NEW w \in Writers, Fault(w)
    PROVE  Roomy'
<1>1. faults' = faults + 1 /\ Bound' = Bound + 1
  BY L1Assumption, SlotsNat DEF Fault, IInv, Types, Bound
<1>2. CASE HSetFails(w) \/ ExpireFails(w)
  <2>1. Done(w) /\ Goto(w, "idle")
    BY <1>2 DEF HSetFails, ExpireFails, Done
  <2>2. Adding' \subseteq Adding /\ Deleting' = Deleting \ {w}
    BY <2>1, Moved DEF IInv
  <2>3. \A v \in Deleting' : victims'[v] = victims[v]
    BY <2>1, <2>2 DEF Done, IInv, Types, Deleting
  <2>4. CASE Cached' = Cached
    BY <1>1, <2>2, <2>3, <2>4, FrameRoomy DEF IInv
  <2>5. CASE pc[w] = "hset" /\ Add(w)
    BY <1>1, <2>1, <2>5, AddRoomy DEF Done
  <2> QED
    BY <1>2, <2>4, <2>5 DEF HSetFails, ExpireFails, redis, Cached
<1>3. CASE EvictionFails(w)
  <2>0. pc[w] \in {"hlen", "hkeys", "hdel"} /\ Cached' = Cached
    BY <1>3 DEF EvictionFails, redis, Cached
  <2>1. PICK label \in {"hset", "hdel"}, K \in SUBSET Keys :
          /\ Goto(w, label)
          /\ victims' = [victims EXCEPT ![w] = @ \ K]
          /\ pc[w] # "hdel" => label = "hset" /\ K = {}
          /\ IsFiniteSet(K) /\ Cardinality(K) <= 1
          /\ label = "hset" => victims'[w] = {}
          /\ label = "hdel" => pc[w] = "hdel"
    <3>1. CASE pc[w] # "hdel"
      <4>1. /\ Goto(w, "hset") /\ victims' = [victims EXCEPT ![w] = @ \ {}]
            /\ victims'[w] = {}
        BY <1>3, <3>1 DEF EvictionFails, IInv, Types
      <4>2. {} \in SUBSET Keys /\ IsFiniteSet({}) /\ Cardinality({}) <= 1
        BY FS_EmptySet
      <4> WITNESS "hset" \in {"hset", "hdel"}, {} \in SUBSET Keys
      <4> QED
        BY <3>1, <4>1, <4>2
    <3>2. CASE pc[w] = "hdel"
      <4>1. PICK k \in victims[w] :
              /\ victims' = [victims EXCEPT ![w] = @ \ {k}]
              /\ Goto(w, IF victims[w] = {k} THEN "hset" ELSE "hdel")
        BY <1>3, <3>2 DEF EvictionFails
      <4>2. {k} \in SUBSET Keys /\ IsFiniteSet({k}) /\ Cardinality({k}) <= 1
        <5>1. k \in Keys
          BY DEF IInv, Types
        <5>2. IsFiniteSet({k}) /\ Cardinality({k}) = 1
          BY FS_Singleton
        <5> QED
          BY <5>1, <5>2
      <4>3. victims[w] = {k} => victims'[w] = {}
        BY <4>1 DEF IInv, Types
      <4> DEFINE next == IF victims[w] = {k} THEN "hset" ELSE "hdel"
      <4>4. next \in {"hset", "hdel"}
        OBVIOUS
      <4>5. {k} \in SUBSET Keys
        BY <4>2
      <4> WITNESS next \in {"hset", "hdel"}, {k} \in SUBSET Keys
      <4> QED
        BY <3>2, <4>1, <4>2, <4>3
    <3> QED
      BY <3>1, <3>2
  <2>2. SUFFICES ASSUME NEW S \in SUBSET Deleting'
                 PROVE  Cardinality(Cached) + Cardinality(Adding') + Cardinality(S)
                           <= Bound + 1 + Cardinality(Doomed(S)')
    BY <1>1, <2>0 DEF Roomy
  <2>3. w \notin Adding
    BY <2>0 DEF Adding
  <2>4. IsFiniteSet(Adding) /\ Cardinality(Adding) \in Nat /\ Bound \in Int
    BY RoomyType DEF IInv
  <2>5. /\ Cardinality(Cached) \in Nat
        /\ IsFiniteSet(Doomed(S)) /\ Cardinality(Doomed(S)) \in Nat
        /\ IsFiniteSet(Doomed(S)') /\ Cardinality(Doomed(S)') \in Nat
    BY CachedFinite, KeysAssumption, FS_Subset, FS_CardinalityType
       DEF IInv, Types, Doomed
  <2>6. CASE label = "hset"
    <3>1. Adding' = Adding \cup {w} /\ Deleting' = Deleting \ {w}
      BY <2>1, <2>6, Moved DEF IInv
    <3>2. S \in SUBSET Deleting /\ Doomed(S)' = Doomed(S)
      <4>1. \A v \in S : victims'[v] = victims[v]
        BY <2>1, <3>1 DEF IInv, Types, Deleting
      <4> QED
        BY <2>0, <3>1, <4>1 DEF Doomed
    <3>3. Cardinality(Adding') = Cardinality(Adding) + 1
      BY <2>3, <2>4, <3>1, OneMore
    <3>4. /\ Cardinality(S) \in Nat
          /\ Cardinality(Cached) + Cardinality(Adding) + Cardinality(S)
                <= Bound + Cardinality(Doomed(S))
      BY <3>2, RoomyType DEF Roomy, IInv
    <3> DEFINE n == Cardinality(Cached)   a == Cardinality(Adding')
               a0 == Cardinality(Adding)   s == Cardinality(S)   b == Bound
               d == Cardinality(Doomed(S)')
    <3>5. /\ n \in Nat /\ a0 \in Nat /\ s \in Nat /\ d \in Nat /\ b \in Int
          /\ a = a0 + 1 /\ n + a0 + s <= b + d
      BY <2>4, <2>5, <3>2, <3>3, <3>4
    <3> HIDE DEF n, a, a0, s, d, b
    <3>6. n + a + s <= b + 1 + d
      BY <3>5
    <3> QED
      BY <3>6 DEF n, a, s, d, b
  <2>7. CASE label = "hdel"
    <3>1. Adding' = Adding /\ Deleting' = Deleting
      BY <2>1, <2>3, <2>7, Moved DEF IInv, Deleting
    <3>2. Doomed(S) \subseteq Doomed(S)' \cup K
      <4>1. \A v \in S : victims[v] \subseteq victims'[v] \cup K
        BY <2>1, <3>1 DEF IInv, Types, Deleting
      <4> QED
        BY <2>0, <4>1 DEF Doomed
    <3>3. /\ Cardinality(Doomed(S)) <= Cardinality(Doomed(S)' \cup K)
          /\ Cardinality(Doomed(S)' \cup K)
                <= Cardinality(Doomed(S)') + Cardinality(K)
          /\ Cardinality(K) \in Nat
          /\ Cardinality(Doomed(S)' \cup K) \in Nat
      <4>1. /\ IsFiniteSet(Doomed(S)' \cup K)
            /\ Cardinality(Doomed(S)' \cup K)
                  = Cardinality(Doomed(S)') + Cardinality(K)
                       - Cardinality(Doomed(S)' \cap K)
        BY <2>1, <2>5, FS_Union
      <4>2. Cardinality(Doomed(S)' \cap K) \in Nat /\ Cardinality(K) \in Nat
        BY <2>1, <2>5, FS_Intersection, FS_CardinalityType
      <4>3. /\ Cardinality(Doomed(S)) <= Cardinality(Doomed(S)' \cup K)
            /\ Cardinality(Doomed(S)' \cup K) \in Nat
        BY <3>2, <4>1, FS_Subset, FS_CardinalityType
      <4> DEFINE u == Cardinality(Doomed(S)' \cup K)   d == Cardinality(Doomed(S)')
                 c == Cardinality(K)   i == Cardinality(Doomed(S)' \cap K)
      <4>4. /\ u \in Nat /\ d \in Nat /\ c \in Nat /\ i \in Nat
            /\ u = d + c - i
        BY <2>5, <4>1, <4>2, <4>3
      <4> HIDE DEF u, d, c, i
      <4>5. u <= d + c
        BY <4>4
      <4> QED
        BY <4>2, <4>3, <4>5 DEF u, d, c
    <3>4. /\ Cardinality(S) \in Nat
          /\ Cardinality(Cached) + Cardinality(Adding) + Cardinality(S)
                <= Bound + Cardinality(Doomed(S))
      BY <3>1, RoomyType DEF Roomy, IInv
    <3> DEFINE n == Cardinality(Cached)   a == Cardinality(Adding)
               s == Cardinality(S)   b == Bound   c == Cardinality(K)
               u == Cardinality(Doomed(S)' \cup K)
               d == Cardinality(Doomed(S)')   d0 == Cardinality(Doomed(S))
    <3>5. /\ n \in Nat /\ a \in Nat /\ s \in Nat /\ d \in Nat /\ b \in Int
          /\ d0 \in Nat /\ c \in Nat /\ u \in Nat /\ n + a + s <= b + d0
          /\ d0 <= u /\ u <= d + c /\ c <= 1
      BY <2>1, <2>4, <2>5, <3>3, <3>4
    <3> HIDE DEF n, a, s, d, d0, b, c, u
    <3>6. n + a + s <= b + 1 + d
      BY <3>5
    <3> QED
      BY <3>1, <3>6 DEF n, a, s, d, b
  <2> QED
    BY <2>1, <2>6, <2>7
<1> QED
  BY <1>2, <1>3 DEF Fault

LEMMA StutterRoomy ==
    ASSUME IInv, Roomy, Types', UNCHANGED vars PROVE Roomy'
<1>1. /\ Cached' = Cached /\ Adding' = Adding /\ Deleting' = Deleting
      /\ victims' = victims /\ faults' = faults
  BY DEF vars, Cached, Adding, Deleting
<1> QED
  BY <1>1, FrameRoomy DEF IInv

\* Sets race between HLEN and HSET: each has seen room for its own entry.  When
\* a share of a full cache is at least one entry for each writer, max_cache_size
\* is exceeded by no more than the other writers and the commands that failed,
\* however they interleave (l1.go Set, evictIfNeeded).
THEOREM SizeIsBounded ==
    ASSUME EvictsEnough
    PROVE  Spec => []SizeBounded
<1>1. Init => IInv /\ Roomy
  BY InitTypes, InitRoomy
<1>2. IInv /\ [Next]_vars => IInv'
  BY TickIInv, BeginIInv, HLenIInv, HKeysIInv, HDelIInv, HSetIInv, ExpireIInv,
     FaultIInv, StutterIInv DEF Next
<1>3. IInv /\ Roomy /\ [Next]_vars => Roomy'
  <2> SUFFICES ASSUME IInv, Roomy, [Next]_vars PROVE Roomy'
    OBVIOUS
  <2>1. Types'
    BY <1>2 DEF IInv
  <2>2. CASE Tick
    BY <2>1, <2>2, TickRoomy
  <2>3. CASE UNCHANGED vars
    BY <2>1, <2>3, StutterRoomy
  <2>4. ASSUME NEW w \in Writers,
               \/ Begin(w) \/ HLen(w) \/ HKeys(w) \/ HDel(w)
               \/ HSet(w) \/ Expire(w) \/ Fault(w)
        PROVE  Roomy'
    BY <2>1, <2>4, BeginRoomy, HLenRoomy, HKeysRoomy, HDelRoomy, HSetRoomy,
       ExpireRoomy, FaultRoomy
  <2> QED
    BY <2>2, <2>3, <2>4 DEF Next
<1>4. IInv /\ Roomy => SizeBounded
  <2> SUFFICES ASSUME IInv, Roomy PROVE SizeBounded
    OBVIOUS
  <2>1. Cardinality(Cached) + Cardinality(Adding) + Cardinality({})
           <= Bound + Cardinality(Doomed({}))
    BY DEF Roomy
  <2>2. Cardinality({}) = 0 /\ Cardinality(Doomed({})) = 0
    BY FS_EmptySet DEF Doomed
  <2>3. /\ Cardinality(Cached) \in Nat /\ Cardinality(Adding) \in Nat
        /\ Bound \in Int
    BY RoomyType DEF IInv
  <2> HIDE DEF Bound
  <2>4. Cardinality(Cached) <= Bound
    BY <2>1, <2>2, <2>3
  <2> QED
    BY <2>4 DEF SizeBounded, Bound
<1> QED
  BY <1>1, <1>2, <1>3, <1>4, PTL DEF Spec
===============================================================================
