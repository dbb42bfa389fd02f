-------------------------------- MODULE L2Cache --------------------------------
(***************************************************************************)
(* The semantic cache of internal/service/cache/l2.go: one Redis key per   *)
(* entry, each with its own expiry.  Store and Search list the keys and    *)
(* then read them one by one, so other requests run in between.  A vector  *)
(* is known by its similarity to the others; an entry's response is known  *)
(* by the entry.  A slot of Writers runs one Store, a slot of Readers one  *)
(* Search after the other.                                                 *)
(***************************************************************************)
EXTENDS Integers, FiniteSets, FiniteSetsExt, Functions

CONSTANTS Writers, Readers, Keys, Models, Vectors,
          ModelOf,     \* the model a key was made for (GenerateCacheKey)
          similarity,  \* cosineSimilarity, scaled to integers
          Threshold,   \* similarityThreshold
          MaxSize,     \* maxSize; 0 turns eviction off
          EvictShare,  \* one in EvictShare entries is evicted, 10 in the code
          TTL,         \* ttl, in ticks
          MaxClock,    \* bound: the clock stops here
          MaxStores,   \* bound on the number of Stores
          MaxFaults,   \* bound on the number of commands that fail
          NoEntry

Entries == [vector : Vectors, model : Models, created : Int, expires : Int]

ASSUME L2Assumption == /\ IsFiniteSet(Keys) /\ IsFiniteSet(Writers)
                       /\ ModelOf \in [Keys -> Models]
                       /\ similarity \in [Vectors -> [Vectors -> Int]]
                       /\ Threshold \in Int /\ NoEntry \notin Entries
                       /\ MaxSize \in Nat /\ TTL \in Nat \ {0}
                       /\ EvictShare \in Nat \ {0}
                       /\ MaxClock \in Nat /\ MaxStores \in Nat
                       /\ MaxFaults \in Nat

VARIABLES clock,
          redis,     \* from the stored keys to their entries
          store,     \* locals of each Store
          search,    \* locals of each Search
          stores,    \* Stores begun
          raced,     \* history: Stores begun while another one ran
          faults     \* commands that have failed

vars == <<clock, redis, store, search, stores, raced, faults>>

Stored == DOMAIN redis

IdleStore == [pc |-> "idle", key |-> NoEntry, entry |-> NoEntry,
              todo |-> {}, read |-> [k \in {} |-> 0], victims |-> {}]
\* kept is a history: the listed entries that stay as they were and whose GET
\* does not fail.
IdleSearch == [pc |-> "idle", query |-> NoEntry, todo |-> {},
               best |-> NoEntry, kept |-> [k \in {} |-> 0]]

\* Redis outlives the gateway: a cache may be there already.
Init == /\ clock = 0
        /\ \E ks \in SUBSET Keys :
             /\ MaxSize > 0 => Cardinality(ks) <= MaxSize
             /\ \E vector \in [ks -> Vectors] :
               redis = [k \in ks |-> [vector |-> vector[k], model |-> ModelOf[k],
                                     created |-> 0, expires |-> TTL]]
        /\ store = [w \in Writers |-> IdleStore]
        /\ search = [r \in Readers |-> IdleSearch]
        /\ stores = 0 /\ raced = 0 /\ faults = 0

\* Eviction is over: the entry is stamped, then it is set.
GoSet(w) == store' = [store EXCEPT ![w].pc = "set", ![w].entry.created = clock]

EndStore(w) == store' = [store EXCEPT ![w] = IdleStore]

\* f where k is x, whether f knew k or not.
With(f, k, x) == [i \in DOMAIN f \cup {k} |-> IF i = k THEN x ELSE f[i]]

\* Redis moves to new; running searches note which listed entries stay.
Commit(new) ==
    /\ redis' = new
    /\ search' = [r \in Readers |->
          [search[r] EXCEPT !.kept =
              Restrict(@, {k \in DOMAIN @ : k \in DOMAIN new /\ new[k] = @[k]})]]

\* Time passes; entries that have reached their TTL are gone.
Tick == /\ clock < MaxClock
        /\ clock' = clock + 1
        /\ Commit(Restrict(redis, {k \in Stored : clock' < redis[k].expires}))
        /\ UNCHANGED <<store, stores, raced, faults>>
-------------------------------------------------------------------------------
BeginStore(w) ==
    /\ store[w].pc = "idle"
    /\ stores < MaxStores
    /\ stores' = stores + 1
    /\ raced' = raced + (IF \E v \in Writers : store[v].pc # "idle" THEN 1 ELSE 0)
    /\ \E k \in Keys, v \in Vectors :
         store' = [store EXCEPT ![w].pc = "keys", ![w].key = k,
                                ![w].entry = [vector |-> v, model |-> ModelOf[k],
                                              created |-> 0, expires |-> 0]]
    /\ UNCHANGED <<clock, redis, search, faults>>

\* Faulty variant: only a cache that is over its size is evicted from.
ListForEvictionAbove(w) ==
    /\ store[w].pc = "keys"
    /\ IF MaxSize > 0 /\ Cardinality(Stored) > MaxSize
       THEN store' = [store EXCEPT ![w].pc = "get", ![w].todo = Stored]
       ELSE GoSet(w)
    /\ UNCHANGED <<clock, redis, search, stores, raced, faults>>

ListForEviction(w) ==
    /\ store[w].pc = "keys"
    /\ IF MaxSize > 0 /\ Cardinality(Stored) >= MaxSize
       THEN store' = [store EXCEPT ![w].pc = "get", ![w].todo = Stored]
       ELSE GoSet(w)
    /\ UNCHANGED <<clock, redis, search, stores, raced, faults>>

Fail == faults < MaxFaults /\ faults' = faults + 1

\* A key that is gone, or whose GET fails, is passed over.
ReadForEviction(w) ==
    /\ store[w].pc = "get"
    /\ \E k \in store[w].todo :
         \/ /\ k \in Stored
            /\ store' = [store EXCEPT ![w].todo = @ \ {k},
                                      ![w].read = With(@, k, redis[k].created)]
            /\ UNCHANGED faults
         \/ /\ IF k \in Stored THEN Fail ELSE UNCHANGED faults
            /\ store' = [store EXCEPT ![w].todo = @ \ {k}]
    /\ UNCHANGED <<clock, redis, search, stores, raced>>

\* Sort by creation time and pick a tenth, but at least one: entries[0] of an
\* empty slice is an index out of range.
PickVictims(w) ==
    /\ store[w].pc = "get" /\ store[w].todo = {}
    /\ LET read == store[w].read
           share == Cardinality(DOMAIN read) \div EvictShare
           deleteCount == IF share < 1 THEN 1 ELSE share
       IN  IF read = [k \in {} |-> 0]
           THEN store' = [store EXCEPT ![w].pc = "panic"]
           ELSE \E vs \in kSubset(deleteCount, DOMAIN read) :
                  /\ \A v \in vs, k \in DOMAIN read \ vs : read[v] <= read[k]
                  /\ store' = [store EXCEPT ![w].pc = "del", ![w].victims = vs]
    /\ UNCHANGED <<clock, redis, search, stores, raced, faults>>

DeleteVictims(w) ==
    /\ store[w].pc = "del"
    /\ Commit(Restrict(redis, Stored \ store[w].victims))
    /\ GoSet(w)
    /\ UNCHANGED <<clock, stores, raced, faults>>

SetEntry(w) ==
    /\ store[w].pc = "set"
    /\ LET entry == [store[w].entry EXCEPT !.expires = clock + TTL]
       IN  Commit(With(redis, store[w].key, entry))
    /\ EndStore(w)
    /\ UNCHANGED <<clock, stores, raced, faults>>

\* KEYS or DEL fails and eviction is given up, or SET fails; the recovered
\* panic ends the request.
StoreFault(w) ==
    /\ \/ Fail /\ store[w].pc \in {"keys", "del"} /\ GoSet(w)
       \/ Fail /\ store[w].pc = "set" /\ EndStore(w)
       \/ /\ store[w].pc = "panic" /\ EndStore(w)
          /\ UNCHANGED faults
    /\ UNCHANGED <<clock, redis, search, stores, raced>>
-------------------------------------------------------------------------------
BeginSearch(r) ==
    /\ search[r].pc \in {"idle", "answer"}
    /\ \E v \in Vectors, m \in Models :
         search' = [search EXCEPT ![r] =
             [IdleSearch EXCEPT !.pc = "keys", !.query = [vector |-> v, model |-> m]]]
    /\ UNCHANGED <<clock, redis, store, stores, raced, faults>>

ListForSearch(r) ==
    /\ search[r].pc = "keys"
    /\ \/ /\ IF Stored = {} THEN UNCHANGED faults ELSE Fail
          /\ search' = [search EXCEPT ![r].pc = "answer"]
       \/ /\ Stored # {}
          /\ search' = [search EXCEPT ![r].pc = "get", ![r].todo = Stored, ![r].kept = redis]
          /\ UNCHANGED faults
    /\ UNCHANGED <<clock, redis, store, stores, raced>>

Matches(entry, query) ==
    /\ entry.model = query.model
    /\ similarity[query.vector][entry.vector] >= Threshold

Better(entry, best, query) ==
    \/ best = NoEntry
    \/ similarity[query.vector][entry.vector] > similarity[query.vector][best.vector]

\* Faulty variants: the model is not compared; the first match is kept.
ImprovesAnyModel(r, entry) ==
    /\ similarity[search[r].query.vector][entry.vector] >= Threshold
    /\ Better(entry, search[r].best, search[r].query)
ImprovesOnce(r, entry) ==
    Matches(entry, search[r].query) /\ search[r].best = NoEntry

Improves(r, entry) ==
    Matches(entry, search[r].query) /\ Better(entry, search[r].best, search[r].query)

ReadForSearch(r) ==
    /\ search[r].pc = "get"
    /\ \E k \in search[r].todo :
         \/ /\ k \in Stored
            /\ search' = [search EXCEPT ![r].todo = @ \ {k},
                                        ![r].best = IF Improves(r, redis[k])
                                                    THEN redis[k] ELSE @]
            /\ UNCHANGED faults
         \/ /\ IF k \in Stored THEN Fail ELSE UNCHANGED faults
            /\ search' = [search EXCEPT ![r].todo = @ \ {k},
                                        ![r].kept = Restrict(@, DOMAIN @ \ {k})]
    /\ UNCHANGED <<clock, redis, store, stores, raced>>

EndSearch(r) ==
    /\ search[r].pc = "get" /\ search[r].todo = {}
    /\ search' = [search EXCEPT ![r].pc = "answer"]
    /\ UNCHANGED <<clock, redis, store, stores, raced, faults>>

Next == \/ Tick
        \/ \E w \in Writers :
             \/ BeginStore(w) \/ ListForEviction(w) \/ ReadForEviction(w)
             \/ PickVictims(w) \/ DeleteVictims(w) \/ SetEntry(w) \/ StoreFault(w)
        \/ \E r \in Readers :
             BeginSearch(r) \/ ListForSearch(r) \/ ReadForSearch(r) \/ EndSearch(r)

Spec == Init /\ [][Next]_vars
-------------------------------------------------------------------------------
\* l2.go:92-100: a hit is for the model that was asked for and similar enough,
\* also when an entry is set anew between KEYS and GET or commands fail.
HitMatches ==
    \A r \in Readers : search[r].pc = "answer" /\ search[r].best # NoEntry
        => Matches(search[r].best, search[r].query)

\* l2.go:61 "finds similar responses": nothing that stayed in the cache while
\* Search ran is more similar than its answer.  Stores, evictions and expiries
\* between its commands cannot hide the best entry.
BestMatch ==
    \A r \in Readers : search[r].pc = "answer" =>
        \A k \in DOMAIN search[r].kept :
            Matches(search[r].kept[k], search[r].query)
                => /\ search[r].best # NoEntry
                   /\ ~ Better(search[r].kept[k], search[r].best, search[r].query)

\* l2.go:168 "removes oldest entries if cache exceeds max size": the cache outgrows
\* its size only by Stores that ran together (all evict the same entry, then each
\* sets its own) and by commands that failed.
SizeBounded == MaxSize > 0 => Cardinality(Stored) <= MaxSize + raced + faults
===============================================================================
