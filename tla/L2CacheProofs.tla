----------------------------- MODULE L2CacheProofs -----------------------------
(***************************************************************************)
(* The semantic cache answers with the best entry there is, for any number *)
(* of readers, writers, keys, models and vectors; and what its size is     *)
(* bounded by: each Store adds at most one entry, and the one Store of a   *)
(* group that no other began before evicts one or finds that another has.  *)
(***************************************************************************)
EXTENDS L2Cache, FiniteSetTheorems, TLAPS

Queries == [vector : Vectors, model : Models]

StoreType == [pc : {"idle", "keys", "get", "del", "set", "panic"},
              key : Keys \cup {NoEntry}, entry : Entries \cup {NoEntry},
              todo : SUBSET Keys, read : UNION {[S -> Int] : S \in SUBSET Keys},
              victims : SUBSET Keys]

SearchType == [pc : {"idle", "keys", "get", "answer"},
               query : Queries \cup {NoEntry}, todo : SUBSET Keys,
               best : Entries \cup {NoEntry},
               kept : UNION {[S -> Entries] : S \in SUBSET Keys}]

\* A Store under way knows its key and its entry.
Prepared(s) == s.pc # "idle" => s.key \in Keys /\ s.entry \in Entries

TypeIInv == /\ clock \in Int
            /\ Stored \subseteq Keys /\ redis \in [Stored -> Entries]
            /\ store \in [Writers -> StoreType]
            /\ \A w \in Writers : Prepared(store[w])

-------------------------------------------------------------------------------
LEMMA EmptyRead == [k \in {} |-> 0] \in UNION {[S -> Int] : S \in SUBSET Keys}
<1>1. [k \in {} |-> 0] \in [{} -> Int] /\ {} \in SUBSET Keys
  OBVIOUS
<1> QED
  BY <1>1

LEMMA IdleStoreType == IdleStore \in StoreType /\ Prepared(IdleStore)
  BY EmptyRead DEF IdleStore, StoreType, Prepared

LEMMA InitType == Init => TypeIInv
<1> SUFFICES ASSUME Init PROVE TypeIInv
  OBVIOUS
<1>1. Stored \subseteq Keys /\ redis \in [Stored -> Entries]
  <2>1. PICK ks \in SUBSET Keys :
           \E vector \in [ks -> Vectors] :
             redis = [k \in ks |-> [vector |-> vector[k], model |-> ModelOf[k],
                                    created |-> 0, expires |-> TTL]]
    BY Zenon DEF Init
  <2> QED
    BY <2>1, L2Assumption DEF Stored, Entries
<1>2. clock \in Int /\ store = [w \in Writers |-> IdleStore]
  BY DEF Init
<1> QED
  BY <1>1, <1>2, IdleStoreType DEF TypeIInv

\* A step that replaces the locals of one Store by prepared ones.
LEMMA OneStore ==
    ASSUME TypeIInv, NEW w \in Writers, NEW s \in StoreType, Prepared(s),
           store' = [store EXCEPT ![w] = s], clock' = clock, redis' = redis
    PROVE  TypeIInv'
  BY DEF TypeIInv, Stored

LEMMA BeginStoreType ==
    ASSUME TypeIInv, NEW w \in Writers, BeginStore(w) PROVE TypeIInv'
<1>1. PICK k \in Keys, v \in Vectors :
         store' = [store EXCEPT ![w].pc = "keys", ![w].key = k,
                                ![w].entry = [vector |-> v, model |-> ModelOf[k],
                                              created |-> 0, expires |-> 0]]
  BY DEF BeginStore
<1> DEFINE e == [vector |-> v, model |-> ModelOf[k], created |-> 0, expires |-> 0]
           s == [store[w] EXCEPT !.pc = "keys", !.key = k, !.entry = e]
<1>2. e \in Entries
  BY L2Assumption DEF Entries
<1>3. store' = [store EXCEPT ![w] = s]
  BY <1>1 DEF TypeIInv
<1> HIDE DEF e
<1>4. s \in StoreType /\ Prepared(s)
  BY <1>2 DEF TypeIInv, StoreType, Prepared
<1> HIDE DEF s
<1> QED
  BY <1>3, <1>4, OneStore DEF BeginStore

LEMMA GoSetType ==
    ASSUME TypeIInv, NEW w \in Writers, store[w].pc # "idle", GoSet(w)
    PROVE  \E s \in StoreType : /\ s.pc = "set" /\ Prepared(s)
                                /\ store' = [store EXCEPT ![w] = s]
<1> DEFINE s == [store[w] EXCEPT !.pc = "set",
                                 !.entry = [store[w].entry EXCEPT !.created = clock]]
<1>1. store[w].entry \in Entries /\ store[w].key \in Keys /\ store[w] \in StoreType
  BY DEF TypeIInv, Prepared
<1>2. [store[w].entry EXCEPT !.created = clock] \in Entries
  BY <1>1 DEF Entries, TypeIInv
<1>3. s \in StoreType /\ s.pc = "set" /\ Prepared(s)
  BY <1>1, <1>2 DEF StoreType, Prepared
<1>4. store' = [store EXCEPT ![w] = s]
  BY DEF GoSet, TypeIInv
<1> QED
  BY <1>3, <1>4

LEMMA ListForEvictionType ==
    ASSUME TypeIInv, NEW w \in Writers, ListForEviction(w) PROVE TypeIInv'
<1>1. CASE GoSet(w)
  BY <1>1, GoSetType, OneStore DEF ListForEviction
<1>2. CASE store' = [store EXCEPT ![w].pc = "get", ![w].todo = Stored]
  <2> DEFINE s == [store[w] EXCEPT !.pc = "get", !.todo = Stored]
  <2>1. s \in StoreType /\ Prepared(s)
    BY DEF TypeIInv, StoreType, Prepared, ListForEviction
  <2>2. store' = [store EXCEPT ![w] = s]
    BY <1>2 DEF TypeIInv
  <2> HIDE DEF s
  <2> QED
    BY <2>1, <2>2, OneStore DEF ListForEviction
<1> QED
  BY <1>1, <1>2 DEF ListForEviction

LEMMA WithType ==
    ASSUME NEW f \in UNION {[S -> Int] : S \in SUBSET Keys}, NEW k \in Keys, NEW x \in Int
    PROVE  With(f, k, x) \in UNION {[S -> Int] : S \in SUBSET Keys}
<1>1. PICK S \in SUBSET Keys : f \in [S -> Int]
  OBVIOUS
<1>2. With(f, k, x) \in [S \cup {k} -> Int] /\ S \cup {k} \in SUBSET Keys
  BY <1>1 DEF With
<1> QED
  BY <1>2

LEMMA ReadForEvictionType ==
    ASSUME TypeIInv, NEW w \in Writers, ReadForEviction(w) PROVE TypeIInv'
<1>1. PICK k \in store[w].todo :
         \/ k \in Stored /\ store' = [store EXCEPT ![w].todo = @ \ {k},
                                                   ![w].read = With(@, k, redis[k].created)]
         \/ store' = [store EXCEPT ![w].todo = @ \ {k}]
  BY DEF ReadForEviction
<1>2. store[w] \in StoreType /\ Prepared(store[w]) /\ store[w].pc = "get"
  BY DEF TypeIInv, ReadForEviction
<1>3. CASE k \in Stored /\ store' = [store EXCEPT ![w].todo = @ \ {k},
                                                  ![w].read = With(@, k, redis[k].created)]
  <2> DEFINE f == With(store[w].read, k, redis[k].created)
             s == [store[w] EXCEPT !.todo = @ \ {k}, !.read = f]
  <2>1. redis[k].created \in Int /\ k \in Keys
    BY <1>3 DEF TypeIInv, Entries
  <2>2. f \in UNION {[S -> Int] : S \in SUBSET Keys}
    BY <1>2, <2>1, WithType DEF StoreType
  <2>3. store' = [store EXCEPT ![w] = s]
    BY <1>3 DEF TypeIInv
  <2> HIDE DEF f
  <2>4. s \in StoreType /\ Prepared(s)
    BY <1>2, <2>2 DEF StoreType, Prepared
  <2> HIDE DEF s
  <2> QED
    BY <2>3, <2>4, OneStore DEF ReadForEviction
<1>4. CASE store' = [store EXCEPT ![w].todo = @ \ {k}]
  <2> DEFINE s == [store[w] EXCEPT !.todo = @ \ {k}]
  <2>1. s \in StoreType /\ Prepared(s)
    BY <1>2 DEF StoreType, Prepared
  <2>2. store' = [store EXCEPT ![w] = s]
    BY <1>4 DEF TypeIInv
  <2> HIDE DEF s
  <2> QED
    BY <2>1, <2>2, OneStore DEF ReadForEviction
<1> QED
  BY <1>1, <1>3, <1>4

\* The victims are keys that were read, and there is one at least.
LEMMA VictimsRead ==
    ASSUME TypeIInv, NEW w \in Writers, PickVictims(w)
    PROVE  \/ /\ DOMAIN store[w].read = {}
              /\ store' = [store EXCEPT ![w].pc = "panic"]
           \/ \E vs \in SUBSET DOMAIN store[w].read :
                /\ vs # {}
                /\ store' = [store EXCEPT ![w].pc = "del", ![w].victims = vs]
<1> DEFINE share == Cardinality(DOMAIN store[w].read) \div EvictShare
           deleteCount == IF share < 1 THEN 1 ELSE share
<1>1. CASE store[w].read = [k \in {} |-> 0]
  <2>1. DOMAIN store[w].read = {}
    BY <1>1
  <2> QED
    BY <1>1, <2>1 DEF PickVictims
<1>2. CASE store[w].read # [k \in {} |-> 0]
  <2>1. PICK vs \in kSubset(deleteCount, DOMAIN store[w].read) :
           store' = [store EXCEPT ![w].pc = "del", ![w].victims = vs]
    BY <1>2, Zenon DEF PickVictims
  <2>2. vs \in SUBSET DOMAIN store[w].read /\ Cardinality(vs) = deleteCount
    BY DEF kSubset
  <2>3. deleteCount # 0
    <3> HIDE DEF share
    <3> QED
      BY SMT
  <2>4. vs # {}
    BY <2>2, <2>3, FS_EmptySet
  <2> QED
    BY <2>1, <2>2, <2>4
<1> QED
  BY <1>1, <1>2

LEMMA PickVictimsType ==
    ASSUME TypeIInv, NEW w \in Writers, PickVictims(w) PROVE TypeIInv'
<1>1. store[w] \in StoreType /\ Prepared(store[w]) /\ store[w].pc = "get"
  BY DEF TypeIInv, PickVictims
<1>2. CASE store' = [store EXCEPT ![w].pc = "panic"]
  <2>1. /\ [store[w] EXCEPT !.pc = "panic"] \in StoreType
        /\ Prepared([store[w] EXCEPT !.pc = "panic"])
    BY <1>1 DEF StoreType, Prepared
  <2>2. store' = [store EXCEPT ![w] = [store[w] EXCEPT !.pc = "panic"]]
    BY <1>2 DEF TypeIInv
  <2> QED
    BY <2>1, <2>2, OneStore DEF PickVictims
<1>3. ASSUME NEW vs \in SUBSET DOMAIN store[w].read,
             store' = [store EXCEPT ![w].pc = "del", ![w].victims = vs]
      PROVE  TypeIInv'
  <2> DEFINE s == [store[w] EXCEPT !.pc = "del", !.victims = vs]
  <2>1. vs \subseteq Keys
    BY <1>1 DEF StoreType
  <2>2. s \in StoreType /\ Prepared(s)
    BY <1>1, <2>1 DEF StoreType, Prepared
  <2>3. store' = [store EXCEPT ![w] = s]
    BY <1>3 DEF TypeIInv
  <2> HIDE DEF s
  <2> QED
    BY <2>2, <2>3, OneStore DEF PickVictims
<1> QED
  BY <1>2, <1>3, VictimsRead

LEMMA Fewer ==
    ASSUME TypeIInv, NEW T \in SUBSET Stored, redis' = Restrict(redis, T)
    PROVE  Stored' = T /\ Stored' \subseteq Keys /\ redis' \in [Stored' -> Entries]
<1>1. redis' \in [T -> Entries] /\ Stored' = T
  BY DEF TypeIInv, Restrict, Stored
<1> QED
  BY <1>1 DEF TypeIInv

LEMMA DeleteVictimsType ==
    ASSUME TypeIInv, NEW w \in Writers, DeleteVictims(w) PROVE TypeIInv'
<1>1. PICK s \in StoreType : Prepared(s) /\ store' = [store EXCEPT ![w] = s]
  BY GoSetType DEF DeleteVictims
<1>2. store' \in [Writers -> StoreType] /\ \A x \in Writers : Prepared(store'[x])
  BY <1>1 DEF TypeIInv
<1>3. redis' = Restrict(redis, Stored \ store[w].victims) /\ clock' = clock
  BY DEF DeleteVictims, Commit
<1>4. Stored' \subseteq Keys /\ redis' \in [Stored' -> Entries]
  BY <1>3, Fewer
<1> QED
  BY <1>2, <1>3, <1>4 DEF TypeIInv

LEMMA SetEntryType ==
    ASSUME TypeIInv, NEW w \in Writers, SetEntry(w) PROVE TypeIInv'
<1> DEFINE entry == [store[w].entry EXCEPT !.expires = clock + TTL]
<1>1. store[w].key \in Keys /\ entry \in Entries
  <2>1. store[w].key \in Keys /\ store[w].entry \in Entries
    BY DEF SetEntry, TypeIInv, Prepared
  <2>2. clock + TTL \in Int
    BY L2Assumption DEF TypeIInv
  <2> QED
    BY <2>1, <2>2 DEF Entries
<1>2. redis' = With(redis, store[w].key, entry) /\ clock' = clock
      /\ store' = [store EXCEPT ![w] = IdleStore]
  BY DEF SetEntry, Commit, EndStore
<1> HIDE DEF entry
<1>3. store' \in [Writers -> StoreType] /\ \A x \in Writers : Prepared(store'[x])
  BY <1>2, IdleStoreType DEF TypeIInv
<1>4. Stored' \subseteq Keys /\ redis' \in [Stored' -> Entries]
  BY <1>1, <1>2 DEF TypeIInv, With, Stored
<1> QED
  BY <1>2, <1>3, <1>4 DEF TypeIInv

LEMMA StoreFaultType ==
    ASSUME TypeIInv, NEW w \in Writers, StoreFault(w) PROVE TypeIInv'
<1>1. CASE store[w].pc \in {"keys", "del"} /\ GoSet(w)
  BY <1>1, GoSetType, OneStore DEF StoreFault
<1>2. CASE EndStore(w)
  BY <1>2, IdleStoreType, OneStore DEF StoreFault, EndStore
<1> QED
  BY <1>1, <1>2 DEF StoreFault

LEMMA TickType == TypeIInv /\ Tick => TypeIInv'
<1> SUFFICES ASSUME TypeIInv, Tick PROVE TypeIInv'
  OBVIOUS
<1>1. /\ redis' = Restrict(redis, {k \in Stored : clock' < redis[k].expires})
      /\ clock' = clock + 1 /\ store' = store
  BY DEF Tick, Commit
<1>2. Stored' \subseteq Keys /\ redis' \in [Stored' -> Entries]
  BY <1>1, Fewer
<1> QED
  BY <1>1, <1>2 DEF TypeIInv

SearchStep(r) == BeginSearch(r) \/ ListForSearch(r) \/ ReadForSearch(r) \/ EndSearch(r)

LEMMA SearchOnlyReads ==
    ASSUME NEW r \in Readers, SearchStep(r)
    PROVE  /\ UNCHANGED <<clock, redis, store, stores, raced>>
           /\ faults' = faults \/ faults' = faults + 1
  BY DEF SearchStep, BeginSearch, ListForSearch, ReadForSearch, EndSearch, Fail

LEMMA NextType == TypeIInv /\ [Next]_vars => TypeIInv'
<1> SUFFICES ASSUME TypeIInv, [Next]_vars PROVE TypeIInv'
  OBVIOUS
<1>1. ASSUME UNCHANGED <<clock, redis, store>> PROVE TypeIInv'
  BY <1>1 DEF TypeIInv, Stored
<1>2. CASE UNCHANGED vars
  BY <1>1, <1>2 DEF vars
<1>3. ASSUME NEW r \in Readers, SearchStep(r) PROVE TypeIInv'
  BY <1>1, <1>3, SearchOnlyReads
<1> QED
  BY <1>2, <1>3, TickType, BeginStoreType, ListForEvictionType, ReadForEvictionType,
     PickVictimsType, DeleteVictimsType, SetEntryType, StoreFaultType
     DEF Next, SearchStep

LEMMA TypeHolds == Spec => []TypeIInv
  BY InitType, NextType, PTL DEF Spec
-------------------------------------------------------------------------------
\* Searching.

\* The best entry so far is no worse than this one.
Settled(q, entry) ==
    Matches(entry, q.query) => q.best # NoEntry /\ ~ Better(entry, q.best, q.query)

\* What a Search knows of the cache: its best entry matches, and every listed entry
\* that has stayed is still to be read or no better.
Sound(q, cache) ==
    /\ q.pc # "idle" => q.query \in Queries
    /\ q.pc # "get" => q.todo = {}
    /\ q.best # NoEntry => Matches(q.best, q.query)
    /\ \A k \in DOMAIN q.kept : /\ k \in DOMAIN cache /\ q.kept[k] = cache[k]
                                /\ k \in q.todo \/ Settled(q, q.kept[k])

SearchIInv == /\ search \in [Readers -> SearchType]
              /\ \A r \in Readers : Sound(search[r], redis)

LEMMA EmptyKept == [k \in {} |-> 0] \in UNION {[S -> Entries] : S \in SUBSET Keys}
<1>1. [k \in {} |-> 0] \in [{} -> Entries] /\ {} \in SUBSET Keys
  OBVIOUS
<1> QED
  BY <1>1

LEMMA RestrictKept ==
    ASSUME NEW f \in UNION {[S -> Entries] : S \in SUBSET Keys}, NEW T \in SUBSET DOMAIN f
    PROVE  Restrict(f, T) \in UNION {[S -> Entries] : S \in SUBSET Keys}
<1>1. PICK S \in SUBSET Keys : f \in [S -> Entries]
  OBVIOUS
<1>2. Restrict(f, T) \in [T -> Entries] /\ T \in SUBSET Keys
  BY <1>1 DEF Restrict
<1> QED
  BY <1>2

LEMMA InitSearch == Init => SearchIInv
<1> SUFFICES ASSUME Init PROVE SearchIInv
  OBVIOUS
<1>1. IdleSearch \in SearchType /\ Sound(IdleSearch, redis)
  BY EmptyKept DEF IdleSearch, SearchType, Sound
<1>2. search = [r \in Readers |-> IdleSearch]
  BY DEF Init
<1> QED
  BY <1>1, <1>2 DEF SearchIInv

\* However the cache changes, what stayed has stayed.
LEMMA CommitSearch ==
    ASSUME SearchIInv, NEW new, Commit(new) PROVE SearchIInv'
<1> DEFINE stay(r) == {k \in DOMAIN search[r].kept : k \in DOMAIN new
                                                     /\ new[k] = search[r].kept[k]}
           q(r) == [search[r] EXCEPT !.kept = Restrict(@, stay(r))]
<1>1. redis' = new /\ search' = [r \in Readers |-> q(r)]
  BY DEF Commit
<1>2. ASSUME NEW r \in Readers PROVE q(r) \in SearchType /\ Sound(q(r), new)
  <2>1. search[r] \in SearchType /\ Sound(search[r], redis)
    BY DEF SearchIInv
  <2>2. Restrict(search[r].kept, stay(r)) \in UNION {[S -> Entries] : S \in SUBSET Keys}
    BY <2>1, RestrictKept DEF SearchType
  <2>3. q(r) \in SearchType
    BY <2>1, <2>2 DEF SearchType
  <2>4. /\ q(r).pc = search[r].pc /\ q(r).query = search[r].query
        /\ q(r).todo = search[r].todo /\ q(r).best = search[r].best
        /\ q(r).kept = Restrict(search[r].kept, stay(r))
    BY <2>1 DEF SearchType
  <2>5. ASSUME NEW k \in DOMAIN q(r).kept
        PROVE  /\ k \in DOMAIN search[r].kept /\ k \in DOMAIN new
               /\ q(r).kept[k] = search[r].kept[k] /\ q(r).kept[k] = new[k]
    BY <2>4, <2>5 DEF Restrict
  <2>6. Sound(q(r), new)
    <3> HIDE DEF q
    <3> QED
      BY <2>1, <2>4, <2>5 DEF Sound, Settled
  <2> QED
    BY <2>3, <2>6
<1> HIDE DEF q
<1> QED
  BY <1>1, <1>2 DEF SearchIInv

\* A step that replaces the locals of one Search by sound ones.
LEMMA OneSearch ==
    ASSUME SearchIInv, NEW r \in Readers, NEW q \in SearchType, Sound(q, redis),
           search' = [search EXCEPT ![r] = q], redis' = redis
    PROVE  SearchIInv'
  BY DEF SearchIInv

LEMMA BeginSearchKeeps ==
    ASSUME SearchIInv, NEW r \in Readers, BeginSearch(r) PROVE SearchIInv'
<1>1. PICK v \in Vectors, m \in Models :
         search' = [search EXCEPT ![r] =
             [IdleSearch EXCEPT !.pc = "keys", !.query = [vector |-> v, model |-> m]]]
  BY DEF BeginSearch
<1> DEFINE query == [vector |-> v, model |-> m]
           q == [IdleSearch EXCEPT !.pc = "keys", !.query = query]
<1>2. query \in Queries
  BY DEF Queries
<1> HIDE DEF query
<1>3. q \in SearchType /\ Sound(q, redis)
  BY <1>2, EmptyKept DEF IdleSearch, SearchType, Sound
<1> QED
  BY <1>1, <1>3, OneSearch DEF BeginSearch, query

LEMMA ListForSearchKeeps ==
    ASSUME TypeIInv, SearchIInv, NEW r \in Readers, ListForSearch(r) PROVE SearchIInv'
<1>1. search[r] \in SearchType /\ Sound(search[r], redis) /\ search[r].pc = "keys"
  BY DEF SearchIInv, ListForSearch
<1>2. CASE search' = [search EXCEPT ![r].pc = "answer"]
  <2> DEFINE q == [search[r] EXCEPT !.pc = "answer"]
  <2>1. q \in SearchType /\ Sound(q, redis)
    BY <1>1 DEF SearchType, Sound, Settled
  <2>2. search' = [search EXCEPT ![r] = q]
    BY <1>2 DEF SearchIInv
  <2> HIDE DEF q
  <2> QED
    BY <2>1, <2>2, OneSearch DEF ListForSearch
<1>3. CASE search' = [search EXCEPT ![r].pc = "get", ![r].todo = Stored, ![r].kept = redis]
  <2> DEFINE q == [search[r] EXCEPT !.pc = "get", !.todo = Stored, !.kept = redis]
  <2>1. redis \in UNION {[S -> Entries] : S \in SUBSET Keys}
    BY DEF TypeIInv
  <2>2. q \in SearchType
    BY <1>1, <2>1 DEF SearchType, TypeIInv
  <2>3. Sound(q, redis)
    BY <1>1 DEF SearchType, Sound, Stored
  <2>4. search' = [search EXCEPT ![r] = q]
    BY <1>3 DEF SearchIInv
  <2> HIDE DEF q
  <2> QED
    BY <2>2, <2>3, <2>4, OneSearch DEF ListForSearch
<1> QED
  BY <1>2, <1>3 DEF ListForSearch

LEMMA EndSearchKeeps ==
    ASSUME SearchIInv, NEW r \in Readers, EndSearch(r) PROVE SearchIInv'
<1> DEFINE q == [search[r] EXCEPT !.pc = "answer"]
<1>1. search[r] \in SearchType /\ Sound(search[r], redis) /\ search[r].pc = "get"
      /\ search[r].todo = {}
  BY DEF SearchIInv, EndSearch
<1>2. q \in SearchType /\ Sound(q, redis)
  BY <1>1 DEF SearchType, Sound, Settled
<1>3. search' = [search EXCEPT ![r] = q]
  BY DEF SearchIInv, EndSearch
<1> HIDE DEF q
<1> QED
  BY <1>2, <1>3, OneSearch DEF EndSearch

LEMMA ReadForSearchKeeps ==
    ASSUME TypeIInv, SearchIInv, NEW r \in Readers, ReadForSearch(r) PROVE SearchIInv'
<1>1. search[r] \in SearchType /\ Sound(search[r], redis) /\ search[r].pc = "get"
      /\ search[r].query \in Queries
  BY DEF SearchIInv, ReadForSearch, Sound
<1>2. PICK k \in search[r].todo :
         \/ k \in Stored /\ search' = [search EXCEPT
                ![r].todo = @ \ {k},
                ![r].best = IF Improves(r, redis[k]) THEN redis[k] ELSE @]
         \/ search' = [search EXCEPT ![r].todo = @ \ {k},
                                     ![r].kept = Restrict(@, DOMAIN @ \ {k})]
  BY DEF ReadForSearch
<1>3. CASE k \in Stored /\ search' = [search EXCEPT
             ![r].todo = @ \ {k},
             ![r].best = IF Improves(r, redis[k]) THEN redis[k] ELSE @]
  <2> DEFINE best == IF Improves(r, redis[k]) THEN redis[k] ELSE search[r].best
             q == [search[r] EXCEPT !.todo = @ \ {k}, !.best = best]
  <2>1. redis[k] \in Entries /\ best \in Entries \cup {NoEntry}
    BY <1>1, <1>3 DEF TypeIInv, SearchType
  <2>2. best # NoEntry => Matches(best, search[r].query)
    BY <1>1 DEF Sound, Improves
  <2>3. ASSUME NEW entry \in Entries,
               entry = redis[k] \/ Settled(search[r], entry),
               Matches(entry, search[r].query)
        PROVE  best # NoEntry /\ ~ Better(entry, best, search[r].query)
    <3> DEFINE sim(e) == similarity[search[r].query.vector][e.vector]
    <3>1. \A e \in Entries : sim(e) \in Int
      BY <1>1, L2Assumption DEF Queries, Entries
    <3>2. /\ \A e \in Entries : e # NoEntry
          /\ search[r].best \in Entries \cup {NoEntry}
      BY <1>1, L2Assumption DEF SearchType
    <3>3. \A e, b : Better(e, b, search[r].query) <=> b = NoEntry \/ sim(e) > sim(b)
      BY DEF Better
    <3> HIDE DEF sim
    <3>4. CASE Improves(r, redis[k])
      BY <2>1, <2>3, <3>1, <3>2, <3>3, <3>4 DEF Improves, Settled
    <3>5. CASE ~ Improves(r, redis[k])
      BY <2>1, <2>3, <3>1, <3>2, <3>3, <3>5 DEF Improves, Settled
    <3> QED
      BY <3>4, <3>5
  <2> HIDE DEF best
  <2>4. q \in SearchType
    BY <1>1, <2>1 DEF SearchType
  <2>5. /\ q.pc = "get" /\ q.query = search[r].query /\ q.best = best
        /\ q.todo = search[r].todo \ {k} /\ q.kept = search[r].kept
    BY <1>1 DEF SearchType
  <2>6. ASSUME NEW j \in DOMAIN q.kept
        PROVE  /\ j \in DOMAIN redis /\ q.kept[j] = redis[j]
               /\ j \in q.todo \/ Settled(q, q.kept[j])
    <3>1. /\ j \in DOMAIN redis /\ q.kept[j] = redis[j] /\ q.kept[j] \in Entries
          /\ j \in search[r].todo \/ Settled(search[r], q.kept[j])
      BY <1>1, <2>5, <2>6 DEF Sound, TypeIInv, Stored
    <3> HIDE DEF q
    <3>2. CASE j \in search[r].todo /\ j # k
      BY <2>5, <3>1, <3>2
    <3>3. CASE j = k \/ Settled(search[r], q.kept[j])
      BY <2>3, <2>5, <3>1, <3>3 DEF Settled
    <3> QED
      BY <3>1, <3>2, <3>3
  <2>7. Sound(q, redis)
    <3> HIDE DEF q
    <3> QED
      BY <1>1, <2>2, <2>5, <2>6 DEF Sound
  <2>8. search' = [search EXCEPT ![r] = q]
    BY <1>3 DEF SearchIInv, best
  <2> HIDE DEF q
  <2> QED
    BY <2>4, <2>7, <2>8, OneSearch DEF ReadForSearch
<1>4. CASE search' = [search EXCEPT ![r].todo = @ \ {k},
                                    ![r].kept = Restrict(@, DOMAIN @ \ {k})]
  <2> DEFINE kept == Restrict(search[r].kept, DOMAIN search[r].kept \ {k})
             q == [search[r] EXCEPT !.todo = @ \ {k}, !.kept = kept]
  <2>1. kept \in UNION {[S -> Entries] : S \in SUBSET Keys}
    BY <1>1, RestrictKept DEF SearchType
  <2>2. /\ DOMAIN kept = DOMAIN search[r].kept \ {k}
        /\ \A j \in DOMAIN kept : kept[j] = search[r].kept[j]
    BY DEF Restrict
  <2> HIDE DEF kept
  <2>3. q \in SearchType
    BY <1>1, <2>1 DEF SearchType
  <2>4. /\ q.pc = "get" /\ q.query = search[r].query /\ q.best = search[r].best
        /\ q.todo = search[r].todo \ {k} /\ q.kept = kept
    BY <1>1 DEF SearchType
  <2>5. Sound(q, redis)
    <3> HIDE DEF q
    <3> QED
      BY <1>1, <2>2, <2>4 DEF Sound, Settled
  <2>6. search' = [search EXCEPT ![r] = q]
    BY <1>4 DEF SearchIInv, kept
  <2> HIDE DEF q
  <2> QED
    BY <2>3, <2>5, <2>6, OneSearch DEF ReadForSearch
<1> QED
  BY <1>2, <1>3, <1>4

LEMMA NextSearch == TypeIInv /\ SearchIInv /\ [Next]_vars => SearchIInv'
<1> SUFFICES ASSUME TypeIInv, SearchIInv, [Next]_vars PROVE SearchIInv'
  OBVIOUS
<1>1. ASSUME NEW new, Commit(new) PROVE SearchIInv'
  BY <1>1, CommitSearch
<1>2. ASSUME UNCHANGED <<redis, search>> PROVE SearchIInv'
  BY <1>2 DEF SearchIInv
<1>3. CASE Tick
  BY <1>1, <1>3 DEF Tick
<1>4. ASSUME NEW w \in Writers,
             \/ BeginStore(w) \/ ListForEviction(w) \/ ReadForEviction(w)
             \/ PickVictims(w) \/ StoreFault(w)
      PROVE  SearchIInv'
  BY <1>2, <1>4
     DEF BeginStore, ListForEviction, ReadForEviction, PickVictims, StoreFault
<1>5. ASSUME NEW w \in Writers, DeleteVictims(w) \/ SetEntry(w) PROVE SearchIInv'
  BY <1>1, <1>5 DEF DeleteVictims, SetEntry
<1>6. CASE UNCHANGED vars
  BY <1>2, <1>6 DEF vars
<1> QED
  BY <1>3, <1>4, <1>5, <1>6, BeginSearchKeeps, ListForSearchKeeps, ReadForSearchKeeps,
     EndSearchKeeps DEF Next

\* A hit is for the model and near enough to the vector that was asked for.
THEOREM HitsMatch == Spec => []HitMatches
<1>1. SearchIInv => HitMatches
  BY DEF SearchIInv, Sound, HitMatches
<1> QED
  BY <1>1, InitSearch, NextSearch, TypeHolds, PTL DEF Spec

\* No entry that stays in the cache is missed for a worse one, whatever is stored,
\* evicted or expires between the commands of a Search.
THEOREM HitsAreBest == Spec => []BestMatch
<1>1. SearchIInv => BestMatch
  BY DEF SearchIInv, Sound, Settled, BestMatch
<1> QED
  BY <1>1, InitSearch, NextSearch, TypeHolds, PTL DEF Spec

-------------------------------------------------------------------------------
Active == {w \in Writers : store[w].pc # "idle"}

\* A Store that will still make room: it has not looked yet, or all it has listed,
\* or picked, is there to be deleted.
Owes(s, keys) ==
    \/ s.pc = "keys"
    \/ /\ s.pc = "get"
       /\ s.todo \cup DOMAIN s.read # {} /\ s.todo \cup DOMAIN s.read \subseteq keys
    \/ s.pc = "del" /\ s.victims # {} /\ s.victims \subseteq keys

Allowed == MaxSize + raced + faults

\* Every Store under way may add an entry; all but one of them are raced.
Roomy == \/ Cardinality(Stored) + Cardinality(Active) <= Allowed
         \/ /\ Cardinality(Stored) + Cardinality(Active) <= Allowed + 1
            /\ \E w \in Writers : Owes(store[w], Stored)

SizeIInv ==
    /\ raced \in Nat /\ faults \in Nat
    /\ \A w \in Writers : store[w].pc \in {"idle", "keys"} => DOMAIN store[w].read = {}
    /\ Cardinality(Active) <= raced + 1
    /\ MaxSize > 0 => Roomy

-------------------------------------------------------------------------------
LEMMA Finite ==
    ASSUME TypeIInv
    PROVE  /\ IsFiniteSet(Stored) /\ Cardinality(Stored) \in Nat
           /\ IsFiniteSet(Active) /\ Cardinality(Active) \in Nat
<1>1. IsFiniteSet(Stored) /\ IsFiniteSet(Active)
  BY L2Assumption, FS_Subset DEF TypeIInv, Active
<1> QED
  BY <1>1, FS_CardinalityType

LEMMA InitSize == Init => SizeIInv
<1> SUFFICES ASSUME Init PROVE SizeIInv
  OBVIOUS
<1>1. TypeIInv
  BY InitType
<1>2. MaxSize > 0 => Cardinality(Stored) <= MaxSize
  <2>1. PICK ks \in SUBSET Keys :
           /\ MaxSize > 0 => Cardinality(ks) <= MaxSize
           /\ \E vector \in [ks -> Vectors] :
                redis = [k \in ks |-> [vector |-> vector[k], model |-> ModelOf[k],
                                       created |-> 0, expires |-> TTL]]
    BY Zenon DEF Init
  <2>2. Stored = ks
    BY <2>1 DEF Stored
  <2> QED
    BY <2>1, <2>2
<1>3. store = [w \in Writers |-> IdleStore] /\ raced = 0 /\ faults = 0
  BY DEF Init
<1>4. Active = {} /\ Cardinality(Active) = 0
  BY <1>3, FS_EmptySet DEF Active, IdleStore
<1>5. \A w \in Writers : DOMAIN store[w].read = {}
  BY <1>3 DEF IdleStore
<1>6. MaxSize > 0 => Roomy
  BY <1>1, <1>2, <1>3, <1>4, Finite, L2Assumption DEF Roomy, Allowed
<1> QED
  BY <1>3, <1>4, <1>5, <1>6 DEF SizeIInv

\* The number of Stores under way, when one goes on, begins or ends.
LEMMA ActiveStays ==
    ASSUME TypeIInv, NEW w \in Writers, NEW s \in StoreType, s.pc # "idle",
           store[w].pc # "idle", store' = [store EXCEPT ![w] = s]
    PROVE  Active' = Active
  BY DEF Active, TypeIInv

LEMMA ActiveGrows ==
    ASSUME TypeIInv, NEW w \in Writers, NEW s \in StoreType, s.pc # "idle",
           store[w].pc = "idle", store' = [store EXCEPT ![w] = s]
    PROVE  Cardinality(Active') = Cardinality(Active) + 1
<1>1. Active' = Active \cup {w} /\ w \notin Active
  BY DEF Active, TypeIInv
<1> QED
  BY <1>1, Finite, FS_AddElement

LEMMA ActiveShrinks ==
    ASSUME TypeIInv, NEW w \in Writers, store[w].pc # "idle",
           store' = [store EXCEPT ![w] = IdleStore]
    PROVE  Cardinality(Active') = Cardinality(Active) - 1
<1>1. Active' = Active \ {w} /\ w \in Active
  BY DEF Active, TypeIInv, IdleStore
<1> QED
  BY <1>1, Finite, FS_RemoveElement

\* The size of the cache, when entries are removed or one is set.
LEMMA StoredShrinks ==
    ASSUME TypeIInv, NEW T \in SUBSET Stored, redis' = Restrict(redis, T)
    PROVE  /\ Stored' = T
           /\ T # Stored => Cardinality(Stored') <= Cardinality(Stored) - 1
           /\ Cardinality(Stored') \in Nat
<1>1. Stored' = T
  BY Fewer
<1>2. IsFiniteSet(T) /\ Cardinality(T) \in Nat
  BY Finite, FS_Subset, FS_CardinalityType
<1>3. T # Stored => Cardinality(T) <= Cardinality(Stored) - 1
  <2>1. Cardinality(T) <= Cardinality(Stored) /\ (Cardinality(Stored) = Cardinality(T) => Stored = T)
    BY Finite, FS_Subset
  <2> QED
    BY <1>2, <2>1, Finite
<1> QED
  BY <1>1, <1>2, <1>3, Finite

LEMMA StoredGrows ==
    ASSUME TypeIInv, NEW k \in Keys, NEW entry, redis' = With(redis, k, entry)
    PROVE  /\ Stored \subseteq Stored'
           /\ Cardinality(Stored') <= Cardinality(Stored) + 1
           /\ Cardinality(Stored') \in Nat
<1>1. Stored' = Stored \cup {k}
  BY DEF With, Stored
<1>2. Cardinality(Stored \cup {k}) \in {Cardinality(Stored), Cardinality(Stored) + 1}
  BY Finite, FS_AddElement
<1> QED
  BY <1>1, <1>2, Finite

-------------------------------------------------------------------------------
\* A step that leaves Redis and the counters alone keeps the size, when the number
\* of Stores under way stays and a Store that owed still does.
LEMMA SameSize ==
    ASSUME SizeIInv, Active' = Active, Stored' = Stored, raced' = raced, faults' = faults,
           \A w \in Writers : store'[w].pc \in {"idle", "keys"} => DOMAIN store'[w].read = {},
           \A w \in Writers : Owes(store[w], Stored) => Owes(store'[w], Stored)
    PROVE  SizeIInv'
  BY DEF SizeIInv, Roomy, Allowed

\* A command that fails makes room for the entry it did not remove.
LEMMA FaultSize ==
    ASSUME TypeIInv, SizeIInv, Cardinality(Active') = Cardinality(Active),
           Stored' = Stored, raced' = raced, faults' = faults + 1,
           \A w \in Writers : store'[w].pc \in {"idle", "keys"} => DOMAIN store'[w].read = {}
    PROVE  SizeIInv'
<1>1. MaxSize > 0 => Roomy'
  BY Finite, L2Assumption DEF SizeIInv, Roomy, Allowed
<1> QED
  BY <1>1 DEF SizeIInv

LEMMA BeginStoreSize ==
    ASSUME TypeIInv, SizeIInv, NEW w \in Writers, BeginStore(w) PROVE SizeIInv'
<1>1. PICK s \in StoreType : /\ s.pc = "keys" /\ s.read = store[w].read
                             /\ store' = [store EXCEPT ![w] = s]
  <2>1. PICK k \in Keys, v \in Vectors :
           store' = [store EXCEPT ![w].pc = "keys", ![w].key = k,
                                  ![w].entry = [vector |-> v, model |-> ModelOf[k],
                                                created |-> 0, expires |-> 0]]
    BY DEF BeginStore
  <2> DEFINE e == [vector |-> v, model |-> ModelOf[k], created |-> 0, expires |-> 0]
             s == [store[w] EXCEPT !.pc = "keys", !.key = k, !.entry = e]
  <2>2. e \in Entries
    BY L2Assumption DEF Entries
  <2>3. store' = [store EXCEPT ![w] = s]
    BY <2>1 DEF TypeIInv
  <2> HIDE DEF e
  <2>4. s \in StoreType /\ s.pc = "keys" /\ s.read = store[w].read
    BY <2>2 DEF TypeIInv, StoreType
  <2> QED
    BY <2>3, <2>4
<1>2. store[w].pc = "idle" /\ Stored' = Stored /\ faults' = faults
  BY DEF BeginStore, Stored
<1>3. Cardinality(Active') = Cardinality(Active) + 1
  BY <1>1, <1>2, ActiveGrows
<1>4. store'[w] = s /\ \A x \in Writers \ {w} : store'[x] = store[x]
  BY <1>1 DEF TypeIInv
<1>5. \A x \in Writers : store'[x].pc \in {"idle", "keys"} => DOMAIN store'[x].read = {}
  BY <1>1, <1>2, <1>4 DEF SizeIInv
<1>6. \A x \in Writers : Owes(store[x], Stored) => Owes(store'[x], Stored)
  BY <1>1, <1>4 DEF Owes
<1>7. CASE \E x \in Writers : store[x].pc # "idle"
  <2>1. raced' = raced + 1
    BY <1>7 DEF BeginStore, SizeIInv
  <2>2. Cardinality(Active') <= raced' + 1 /\ raced' \in Nat
    BY <1>3, <2>1, Finite DEF SizeIInv
  <2>3. MaxSize > 0 => Roomy'
    BY <1>2, <1>3, <1>6, <2>1, Finite, L2Assumption DEF SizeIInv, Roomy, Allowed
  <2> QED
    BY <1>2, <1>5, <2>2, <2>3 DEF SizeIInv
<1>8. CASE \A x \in Writers : store[x].pc = "idle"
  <2>1. raced' = raced
    BY <1>8 DEF BeginStore, SizeIInv
  <2>2. Cardinality(Active) = 0
    BY <1>8, FS_EmptySet DEF Active
  <2>3. Owes(store'[w], Stored')
    BY <1>1, <1>4 DEF Owes
  <2>4. ~ \E x \in Writers : Owes(store[x], Stored)
    BY <1>8 DEF Owes
  <2>5. Cardinality(Active') <= raced' + 1
    BY <1>3, <2>1, <2>2 DEF SizeIInv
  <2>6. MaxSize > 0 => Roomy'
    BY <1>2, <1>3, <2>1, <2>2, <2>3, <2>4, Finite, L2Assumption
       DEF SizeIInv, Roomy, Allowed
  <2> QED
    BY <1>2, <1>5, <2>1, <2>5, <2>6 DEF SizeIInv
<1> QED
  BY <1>7, <1>8

LEMMA SetLocals ==
    ASSUME TypeIInv, NEW w \in Writers, store[w].pc # "idle", GoSet(w)
    PROVE  /\ Active' = Active /\ store'[w].pc = "set"
           /\ \A x \in Writers \ {w} : store'[x] = store[x]
<1>1. PICK s \in StoreType : s.pc = "set" /\ store' = [store EXCEPT ![w] = s]
  BY GoSetType
<1>2. Active' = Active
  BY <1>1, ActiveStays
<1> QED
  BY <1>1, <1>2 DEF TypeIInv

LEMMA ListForEvictionSize ==
    ASSUME TypeIInv, SizeIInv, NEW w \in Writers, ListForEviction(w) PROVE SizeIInv'
<1>1. /\ store[w].pc = "keys" /\ Stored' = Stored /\ raced' = raced /\ faults' = faults
  BY DEF ListForEviction, Stored
<1>2. CASE MaxSize > 0 /\ Cardinality(Stored) >= MaxSize
  <2> DEFINE s == [store[w] EXCEPT !.pc = "get", !.todo = Stored]
  <2>1. s \in StoreType /\ s.pc = "get" /\ s.todo = Stored /\ s.read = store[w].read
    BY DEF TypeIInv, StoreType
  <2>2. store' = [store EXCEPT ![w] = s]
    BY <1>2 DEF ListForEviction, TypeIInv
  <2> HIDE DEF s
  <2>3. Active' = Active
    BY <1>1, <2>1, <2>2, ActiveStays
  <2>4. store'[w] = s /\ \A x \in Writers \ {w} : store'[x] = store[x]
    BY <2>2 DEF TypeIInv
  <2>5. Stored # {}
    BY <1>2, Finite, FS_EmptySet, L2Assumption
  <2>6. Owes(store'[w], Stored)
    BY <1>1, <2>1, <2>4, <2>5 DEF Owes, SizeIInv
  <2> QED
    BY <1>1, <2>1, <2>3, <2>4, <2>6, SameSize DEF SizeIInv
<1>3. CASE ~ (MaxSize > 0 /\ Cardinality(Stored) >= MaxSize)
  <2>1. GoSet(w)
    BY <1>3 DEF ListForEviction
  <2>2. /\ Active' = Active /\ store'[w].pc = "set"
        /\ \A x \in Writers \ {w} : store'[x] = store[x]
    BY <1>1, <2>1, SetLocals
  <2>3. MaxSize > 0 => Roomy'
    BY <1>1, <1>3, <2>2, Finite, L2Assumption DEF SizeIInv, Roomy, Allowed
  <2> QED
    BY <1>1, <2>2, <2>3 DEF SizeIInv
<1> QED
  BY <1>2, <1>3

LEMMA ReadForEvictionSize ==
    ASSUME TypeIInv, SizeIInv, NEW w \in Writers, ReadForEviction(w) PROVE SizeIInv'
<1>1. /\ store[w].pc = "get" /\ Stored' = Stored /\ raced' = raced
      /\ store[w] \in StoreType
  BY DEF ReadForEviction, Stored, TypeIInv
<1>2. PICK k \in store[w].todo :
         \/ /\ k \in Stored
            /\ store' = [store EXCEPT ![w].todo = @ \ {k},
                                      ![w].read = With(@, k, redis[k].created)]
            /\ UNCHANGED faults
         \/ /\ IF k \in Stored THEN Fail ELSE UNCHANGED faults
            /\ store' = [store EXCEPT ![w].todo = @ \ {k}]
  BY DEF ReadForEviction
<1>3. CASE /\ k \in Stored
           /\ store' = [store EXCEPT ![w].todo = @ \ {k},
                                     ![w].read = With(@, k, redis[k].created)]
           /\ UNCHANGED faults
  <2> DEFINE f == With(store[w].read, k, redis[k].created)
             s == [store[w] EXCEPT !.todo = @ \ {k}, !.read = f]
  <2>1. DOMAIN f = DOMAIN store[w].read \cup {k}
    BY DEF With
  <2>2. store' = [store EXCEPT ![w] = s]
    BY <1>3 DEF TypeIInv
  <2> HIDE DEF f
  <2>3. s.pc = "get" /\ s.todo = store[w].todo \ {k} /\ s.read = f
    BY <1>1 DEF StoreType
  <2> HIDE DEF s
  <2>4. store'[w] = s /\ \A x \in Writers \ {w} : store'[x] = store[x]
    BY <2>2 DEF TypeIInv
  <2>5. Active' = Active
    BY <1>1, <2>3, <2>4 DEF Active
  <2>6. s.todo \cup DOMAIN s.read = store[w].todo \cup DOMAIN store[w].read
    BY <2>1, <2>3
  <2>7. Owes(store[w], Stored) => Owes(store'[w], Stored)
    BY <1>1, <2>3, <2>4, <2>6 DEF Owes
  <2> QED
    BY <1>1, <1>3, <2>3, <2>4, <2>5, <2>7, SameSize DEF SizeIInv
<1>4. CASE /\ IF k \in Stored THEN Fail ELSE UNCHANGED faults
           /\ store' = [store EXCEPT ![w].todo = @ \ {k}]
  <2> DEFINE s == [store[w] EXCEPT !.todo = @ \ {k}]
  <2>1. store' = [store EXCEPT ![w] = s]
    BY <1>4 DEF TypeIInv
  <2>2. s.pc = "get"
    BY <1>1 DEF StoreType
  <2> HIDE DEF s
  <2>3. store'[w] = s /\ \A x \in Writers \ {w} : store'[x] = store[x]
    BY <2>1 DEF TypeIInv
  <2>4. Active' = Active
    BY <1>1, <2>2, <2>3 DEF Active
  <2>5. \A x \in Writers : store'[x].pc \in {"idle", "keys"} => DOMAIN store'[x].read = {}
    BY <2>2, <2>3 DEF SizeIInv
  <2>6. CASE k \in Stored
    BY <1>1, <1>4, <2>4, <2>5, <2>6, FaultSize DEF Fail
  <2>7. CASE k \notin Stored
    <3>1. ~ Owes(store[w], Stored)
      BY <1>1, <2>7 DEF Owes
    <3> QED
      BY <1>1, <1>4, <2>3, <2>4, <2>5, <2>7, <3>1, SameSize
  <2> QED
    BY <2>6, <2>7
<1> QED
  BY <1>2, <1>3, <1>4

LEMMA PickVictimsSize ==
    ASSUME TypeIInv, SizeIInv, NEW w \in Writers, PickVictims(w) PROVE SizeIInv'
<1>1. /\ store[w].pc = "get" /\ store[w].todo = {} /\ store[w] \in StoreType
      /\ Stored' = Stored /\ raced' = raced /\ faults' = faults
  BY DEF PickVictims, Stored, TypeIInv
<1>2. CASE /\ DOMAIN store[w].read = {}
           /\ store' = [store EXCEPT ![w].pc = "panic"]
  <2>1. store'[w].pc = "panic" /\ \A x \in Writers \ {w} : store'[x] = store[x]
    BY <1>1, <1>2 DEF TypeIInv, StoreType
  <2>2. Active' = Active
    BY <1>1, <2>1 DEF Active
  <2>3. ~ Owes(store[w], Stored)
    BY <1>1, <1>2 DEF Owes
  <2> QED
    BY <1>1, <2>1, <2>2, <2>3, SameSize DEF SizeIInv
<1>3. ASSUME NEW vs \in SUBSET DOMAIN store[w].read, vs # {},
             store' = [store EXCEPT ![w].pc = "del", ![w].victims = vs]
      PROVE  SizeIInv'
  <2>1. /\ store'[w].pc = "del" /\ store'[w].victims = vs
        /\ \A x \in Writers \ {w} : store'[x] = store[x]
    BY <1>1, <1>3 DEF TypeIInv, StoreType
  <2>2. Active' = Active
    BY <1>1, <2>1 DEF Active
  <2>3. Owes(store[w], Stored) => Owes(store'[w], Stored)
    BY <1>1, <1>3, <2>1 DEF Owes
  <2> QED
    BY <1>1, <2>1, <2>2, <2>3, SameSize DEF SizeIInv
<1> QED
  BY <1>2, <1>3, VictimsRead

\* Entries are removed: either room is made or nothing was there to be removed.
LEMMA Removed ==
    ASSUME TypeIInv, SizeIInv, NEW T \in SUBSET Stored, redis' = Restrict(redis, T),
           Active' = Active, raced' = raced, faults' = faults,
           \A x \in Writers : store'[x].pc \in {"idle", "keys"} => DOMAIN store'[x].read = {},
           T = Stored => \A x \in Writers : Owes(store[x], Stored) => Owes(store'[x], Stored)
    PROVE  SizeIInv'
<1>1. Stored' = T
  BY StoredShrinks
<1>2. CASE T = Stored
  BY <1>1, <1>2, SameSize
<1>3. CASE T # Stored
  <2>1. Cardinality(Stored') <= Cardinality(Stored) - 1 /\ Cardinality(Stored') \in Nat
    BY <1>3, StoredShrinks
  <2>2. MaxSize > 0 => Roomy'
    BY <2>1, Finite, L2Assumption DEF SizeIInv, Roomy, Allowed
  <2> QED
    BY <2>2 DEF SizeIInv
<1> QED
  BY <1>2, <1>3

LEMMA TickSize == TypeIInv /\ SizeIInv /\ Tick => SizeIInv'
<1> SUFFICES ASSUME TypeIInv, SizeIInv, Tick PROVE SizeIInv'
  OBVIOUS
<1>1. redis' = Restrict(redis, {k \in Stored : clock' < redis[k].expires})
      /\ store' = store /\ raced' = raced /\ faults' = faults
  BY DEF Tick, Commit
<1>2. {k \in Stored : clock' < redis[k].expires} \in SUBSET Stored
  OBVIOUS
<1> QED
  BY <1>1, <1>2, Removed DEF Active, SizeIInv

LEMMA DeleteVictimsSize ==
    ASSUME TypeIInv, SizeIInv, NEW w \in Writers, DeleteVictims(w) PROVE SizeIInv'
<1>1. /\ store[w].pc = "del" /\ redis' = Restrict(redis, Stored \ store[w].victims)
      /\ raced' = raced /\ faults' = faults
  BY DEF DeleteVictims, Commit
<1>2. /\ Active' = Active /\ store'[w].pc = "set"
      /\ \A x \in Writers \ {w} : store'[x] = store[x]
  BY <1>1, SetLocals DEF DeleteVictims
<1>3. Owes(store[w], Stored) => Stored \ store[w].victims # Stored
  BY <1>1 DEF Owes
<1>4. \A x \in Writers : store'[x].pc \in {"idle", "keys"} => DOMAIN store'[x].read = {}
  BY <1>2 DEF SizeIInv
<1> QED
  BY <1>1, <1>2, <1>3, <1>4, Removed

LEMMA EndedStore ==
    ASSUME TypeIInv, SizeIInv, NEW w \in Writers, EndStore(w), store[w].pc # "idle"
    PROVE  /\ Cardinality(Active') = Cardinality(Active) - 1
           /\ \A x \in Writers \ {w} : store'[x] = store[x]
           /\ \A x \in Writers : store'[x].pc \in {"idle", "keys"}
                                   => DOMAIN store'[x].read = {}
<1>1. Cardinality(Active') = Cardinality(Active) - 1
  BY ActiveShrinks DEF EndStore
<1> QED
  BY <1>1 DEF EndStore, TypeIInv, IdleStore, SizeIInv

LEMMA SetEntrySize ==
    ASSUME TypeIInv, SizeIInv, NEW w \in Writers, SetEntry(w) PROVE SizeIInv'
<1>1. /\ store[w].pc = "set" /\ EndStore(w) /\ raced' = raced /\ faults' = faults
      /\ redis' = With(redis, store[w].key, [store[w].entry EXCEPT !.expires = clock + TTL])
  BY DEF SetEntry, Commit
<1>2. store[w].key \in Keys
  BY <1>1 DEF TypeIInv, Prepared
<1>3. /\ Stored \subseteq Stored' /\ Cardinality(Stored') <= Cardinality(Stored) + 1
      /\ Cardinality(Stored') \in Nat
  BY <1>1, <1>2, StoredGrows
<1>4. /\ Cardinality(Active') = Cardinality(Active) - 1
      /\ \A x \in Writers \ {w} : store'[x] = store[x]
      /\ \A x \in Writers : store'[x].pc \in {"idle", "keys"} => DOMAIN store'[x].read = {}
  BY <1>1, EndedStore
<1>5. ~ Owes(store[w], Stored)
  BY <1>1 DEF Owes
<1>6. \A x \in Writers \ {w} : Owes(store[x], Stored) => Owes(store'[x], Stored')
  BY <1>3, <1>4 DEF Owes
<1>7. MaxSize > 0 => Roomy'
  BY <1>1, <1>3, <1>4, <1>5, <1>6, Finite, L2Assumption DEF SizeIInv, Roomy, Allowed
<1>8. Cardinality(Active') <= raced' + 1
  BY <1>1, <1>4, Finite DEF SizeIInv
<1> QED
  BY <1>1, <1>4, <1>7, <1>8 DEF SizeIInv

LEMMA StoreFaultSize ==
    ASSUME TypeIInv, SizeIInv, NEW w \in Writers, StoreFault(w) PROVE SizeIInv'
<1>1. Stored' = Stored /\ raced' = raced
  BY DEF StoreFault, Stored
<1>2. CASE Fail /\ store[w].pc \in {"keys", "del"} /\ GoSet(w)
  <2>1. /\ Active' = Active /\ store'[w].pc = "set"
        /\ \A x \in Writers \ {w} : store'[x] = store[x]
    BY <1>2, SetLocals
  <2> QED
    BY <1>1, <1>2, <2>1, FaultSize DEF Fail, SizeIInv
<1>3. CASE /\ store[w].pc \in {"set", "panic"} /\ EndStore(w)
           /\ faults' = faults \/ Fail
  <2>1. /\ Cardinality(Active') = Cardinality(Active) - 1
        /\ \A x \in Writers \ {w} : store'[x] = store[x]
        /\ \A x \in Writers : store'[x].pc \in {"idle", "keys"} => DOMAIN store'[x].read = {}
    BY <1>3, EndedStore
  <2>2. faults' \in Nat /\ faults' >= faults
    BY <1>3 DEF Fail, SizeIInv
  <2>3. ~ Owes(store[w], Stored)
    BY <1>3 DEF Owes
  <2>4. MaxSize > 0 => Roomy'
    BY <1>1, <2>1, <2>2, <2>3, Finite, L2Assumption DEF SizeIInv, Roomy, Allowed
  <2>5. Cardinality(Active') <= raced' + 1
    BY <1>1, <2>1, Finite DEF SizeIInv
  <2> QED
    BY <1>1, <2>1, <2>2, <2>4, <2>5 DEF SizeIInv
<1> QED
  BY <1>2, <1>3 DEF StoreFault

LEMMA NextSize == TypeIInv /\ SizeIInv /\ [Next]_vars => SizeIInv'
<1> SUFFICES ASSUME TypeIInv, SizeIInv, [Next]_vars PROVE SizeIInv'
  OBVIOUS
<1>1. CASE UNCHANGED vars
  BY <1>1, SameSize DEF vars, Active, Stored, SizeIInv
<1>2. ASSUME NEW r \in Readers, SearchStep(r) PROVE SizeIInv'
  <2>1. /\ Active' = Active /\ Stored' = Stored /\ raced' = raced /\ store' = store
        /\ faults' = faults \/ faults' = faults + 1
    BY <1>2, SearchOnlyReads DEF Active, Stored
  <2> QED
    BY <2>1, SameSize, FaultSize DEF SizeIInv
<1> QED
  BY <1>1, <1>2, TickSize, BeginStoreSize, ListForEvictionSize, ReadForEvictionSize,
     PickVictimsSize, DeleteVictimsSize, SetEntrySize, StoreFaultSize DEF Next, SearchStep

\* The cache outgrows its size by no more than the Stores that began while another
\* ran and the commands that failed, for any size, share, TTL and number of Stores.
THEOREM SizeIsBounded == Spec => []SizeBounded
<1>1. TypeIInv /\ SizeIInv => SizeBounded
  <2> SUFFICES ASSUME TypeIInv, SizeIInv, MaxSize > 0
               PROVE  Cardinality(Stored) <= MaxSize + raced + faults
    BY DEF SizeBounded
  <2>1. CASE \E w \in Writers : Owes(store[w], Stored)
    <3>1. Active # {}
      BY <2>1 DEF Active, Owes
    <3>2. Cardinality(Active) >= 1
      BY <3>1, Finite, FS_EmptySet
    <3> QED
      BY <3>2, Finite, L2Assumption DEF SizeIInv, Roomy, Allowed
  <2>2. CASE ~ \E w \in Writers : Owes(store[w], Stored)
    BY <2>2, Finite, L2Assumption DEF SizeIInv, Roomy, Allowed
  <2> QED
    BY <2>1, <2>2
<1> QED
  BY <1>1, InitSize, NextSize, TypeHolds, PTL DEF Spec
=================================================================================
