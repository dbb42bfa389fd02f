---------------------------- MODULE RoutingProofs ----------------------------
(***************************************************************************)
(* Routing for any configuration, any number of concurrent requests and    *)
(* any errors of the providers.                                            *)
(***************************************************************************)
EXTENDS ProviderRegistry, WeightedRouting, FiniteSetTheorems, SequenceTheorems,
        NaturalsInduction, WellFoundedInduction, TLAPS

\* Induction: a set of natural numbers that has a member has a least one.
LEMMA LeastNat == ASSUME NEW T \in SUBSET Nat, T # {}
                  PROVE  \E x \in T : \A y \in T : x <= y
<1> DEFINE R == {ss \in Nat \X Nat : ss[1] < ss[2]}
<1>1. IsWellFoundedOn(R, Nat)
  BY NatLessThanWellFounded DEF OpToRel
<1> HIDE DEF R
<1>2. PICK x \in T : \A y \in T : <<y, x>> \notin R
  BY <1>1, WFMin
<1>3. \A y \in T : ~ (y < x)
  BY <1>2 DEF R
<1> QED
  BY <1>3

\* A loop of n rounds over values of X, and a run of it from x0.
Loops(n, X) == [1..n -> [X -> X]]
Runs(f, n, X, x0, F) ==
    /\ f = [i \in 0..n |-> f[i]] /\ f[0] = x0
    /\ \A i \in 1..n : f[i - 1] \in X => f[i] = F[i][f[i - 1]]
Within(f, n, X) == f \in [0..n -> X]

LEMMA LoopStays ==
    ASSUME NEW n \in Nat, NEW X, NEW x0 \in X, NEW F \in Loops(n, X),
           NEW f, Runs(f, n, X, x0, F)
    PROVE  Within(f, n, X)
<1> DEFINE T == {i \in 0..n : f[i] \notin X}
<1>1. CASE T = {}
  BY <1>1 DEF Runs, Within
<1>2. CASE T # {}
  <2>1. PICK i \in T : \A j \in T : i <= j
    <3>1. T \in SUBSET Nat
      OBVIOUS
    <3> HIDE DEF T
    <3> QED
      BY <1>2, <3>1, LeastNat
  <2>2. i # 0
    BY <2>1 DEF Runs
  <2>3. i \in 1..n /\ f[i - 1] \in X
    BY <2>1, <2>2
  <2>4. f[i] = F[i][f[i - 1]] /\ F[i] \in [X -> X]
    BY <2>3 DEF Runs, Loops
  <2> QED
    BY <2>1, <2>3, <2>4
<1> QED
  BY <1>1, <1>2

LEMMA LoopRuns ==
    ASSUME NEW n \in Nat, NEW X, NEW x0 \in X, NEW F \in Loops(n, X)
    PROVE  \E f : Runs(f, n, X, x0, F) /\ Within(f, n, X)
<1> DEFINE Run(k, g) == /\ g \in [0..k -> X] /\ g[0] = x0
                        /\ \A i \in 1..k : g[i] = F[i][g[i - 1]]
           T == {k \in 0..n : ~ \E g : Run(k, g)}
<1>1. CASE T = {}
  <2>1. PICK g : Run(n, g)
    BY <1>1
  <2>2. Runs(g, n, X, x0, F) /\ Within(g, n, X)
    BY <2>1 DEF Runs, Within
  <2> QED
    BY <2>2
<1>2. CASE T # {}
  <2>1. PICK k \in T : \A j \in T : k <= j
    <3>1. T \in SUBSET Nat
      OBVIOUS
    <3> HIDE DEF T
    <3> QED
      BY <1>2, <3>1, LeastNat
  <2>2. CASE k = 0
    <3>1. Run(0, [i \in 0..0 |-> x0])
      OBVIOUS
    <3> QED
      BY <2>1, <2>2, <3>1
  <2>3. CASE k # 0
    <3>1. k - 1 \in 0..n /\ k - 1 \notin T /\ k \in 1..n
      BY <2>1, <2>3
    <3>2. PICK g : Run(k - 1, g)
      BY <3>1
    <3> DEFINE h == [i \in 0..k |-> IF i = k THEN F[k][g[k - 1]] ELSE g[i]]
    <3>3. F[k][g[k - 1]] \in X
      BY <3>1, <3>2 DEF Loops
    <3>4. h \in [0..k -> X] /\ h[0] = x0
      BY <2>3, <3>1, <3>2, <3>3
    <3>5. ASSUME NEW i \in 1..k PROVE h[i] = F[i][h[i - 1]]
      BY <3>1, <3>2
    <3>6. Run(k, h)
      BY <3>4, <3>5
    <3> QED
      BY <2>1, <3>6
  <2> QED
    BY <2>2, <2>3
<1> QED
  BY <1>1, <1>2

-----------------------------------------------------------------------------
\* The loops of the routing code do what their recursive definitions say.
LEMMA WeighedLoop ==
    ASSUME NEW cands, Len(cands) \in Nat,
           \A i \in 1..Len(cands) : cands[i].weight \in Int
    PROVE  /\ Weighed(cands) \in [0..Len(cands) -> Int]
           /\ Weighed(cands)[0] = 0
           /\ \A i \in 1..Len(cands) :
                 Weighed(cands)[i] = Weighed(cands)[i - 1] + cands[i].weight
<1> DEFINE n == Len(cands)
           X == Int
           F == [i \in 1..n |-> [x \in X |-> x + cands[i].weight]]
           W == Weighed(cands)
<1>1. n \in Nat /\ 0 \in X
  BY DEF n, X
<1>2. ASSUME NEW i \in 1..n, NEW x \in X PROVE x + cands[i].weight \in X
  BY <1>1, <1>2
<1> HIDE DEF n, X, W
<1>3. F \in Loops(n, X)
  BY <1>2 DEF Loops
<1>4. PICK f : Runs(f, n, X, 0, F) /\ Within(f, n, X)
  <2> HIDE DEF F
  <2> QED
    BY <1>1, <1>3, LoopRuns, Zenon
<1>5. f = [i \in 0..n |-> IF i = 0 THEN 0 ELSE f[i - 1] + cands[i].weight]
  <2>1. ASSUME NEW i \in 0..n, i # 0 PROVE f[i] = f[i - 1] + cands[i].weight
    <3>1. i \in 1..n /\ i - 1 \in 0..n
      BY <1>1, <2>1
    <3>2. f[i - 1] \in X
      BY <1>4, <3>1 DEF Within
    <3>3. f[i] = F[i][f[i - 1]]
      BY <1>4, <3>1, <3>2 DEF Runs
    <3> QED
      BY <3>1, <3>2, <3>3
  <2> HIDE DEF F
  <2>2. f = [i \in 0..n |-> f[i]] /\ f[0] = 0
    BY <1>4 DEF Runs
  <2> QED
    BY <2>1, <2>2
<1>6. W = [i \in 0..n |-> IF i = 0 THEN 0 ELSE W[i - 1] + cands[i].weight]
  BY <1>5, Zenon DEF W, n, Weighed
<1>7. /\ W = [i \in 0..n |-> W[i]] /\ W[0] = 0
      /\ \A i \in 1..n : W[i] = W[i - 1] + cands[i].weight
  <2>1. ASSUME NEW i \in 1..n PROVE W[i] = W[i - 1] + cands[i].weight
    <3>1. i \in 0..n /\ i # 0
      BY <1>1
    <3> QED
      BY <1>6, <3>1, Zenon
  <2>2. 0 \in 0..n
    BY <1>1
  <2>3. W[0] = 0
    BY <1>6, <2>2, Zenon
  <2>4. W = [i \in 0..n |-> W[i]]
    BY <1>6
  <2> QED
    BY <2>1, <2>3, <2>4, Zenon
<1>8. Within(W, n, X)
  <2>1. ASSUME NEW i \in 1..n, W[i - 1] \in X PROVE W[i] = F[i][W[i - 1]]
    BY <1>7, <2>1
  <2> HIDE DEF F
  <2>2. Runs(W, n, X, 0, F)
    BY <1>7, <2>1 DEF Runs
  <2> QED
    BY <1>1, <1>3, <2>2, LoopStays, Zenon
<1> QED
  BY <1>7, <1>8 DEF W, n, X, Within

LEMMA RemainingLoop ==
    ASSUME NEW cands, Len(cands) \in Nat, NEW pick \in Int,
           \A i \in 1..Len(cands) : cands[i].weight \in Int
    PROVE  /\ Remaining(cands, pick) \in [0..Len(cands) -> Int]
           /\ Remaining(cands, pick)[0] = pick
           /\ \A i \in 1..Len(cands) :
                 Remaining(cands, pick)[i]
                    = Remaining(cands, pick)[i - 1] - cands[i].weight
<1> DEFINE n == Len(cands)
           X == Int
           F == [i \in 1..n |-> [x \in X |-> x - cands[i].weight]]
           W == Remaining(cands, pick)
<1>1. n \in Nat /\ pick \in X
  BY DEF n, X
<1>2. ASSUME NEW i \in 1..n, NEW x \in X PROVE x - cands[i].weight \in X
  BY <1>1, <1>2
<1> HIDE DEF n, X, W
<1>3. F \in Loops(n, X)
  BY <1>2 DEF Loops
<1>4. PICK f : Runs(f, n, X, pick, F) /\ Within(f, n, X)
  <2> HIDE DEF F
  <2> QED
    BY <1>1, <1>3, LoopRuns, Zenon
<1>5. f = [i \in 0..n |-> IF i = 0 THEN pick ELSE f[i - 1] - cands[i].weight]
  <2>1. ASSUME NEW i \in 0..n, i # 0 PROVE f[i] = f[i - 1] - cands[i].weight
    <3>1. i \in 1..n /\ i - 1 \in 0..n
      BY <1>1, <2>1
    <3>2. f[i - 1] \in X
      BY <1>4, <3>1 DEF Within
    <3>3. f[i] = F[i][f[i - 1]]
      BY <1>4, <3>1, <3>2 DEF Runs
    <3> QED
      BY <3>1, <3>2, <3>3
  <2> HIDE DEF F
  <2>2. f = [i \in 0..n |-> f[i]] /\ f[0] = pick
    BY <1>4 DEF Runs
  <2> QED
    BY <2>1, <2>2
<1>6. W = [i \in 0..n |-> IF i = 0 THEN pick ELSE W[i - 1] - cands[i].weight]
  BY <1>5, Zenon DEF W, n, Remaining
<1>7. /\ W = [i \in 0..n |-> W[i]] /\ W[0] = pick
      /\ \A i \in 1..n : W[i] = W[i - 1] - cands[i].weight
  <2>1. ASSUME NEW i \in 1..n PROVE W[i] = W[i - 1] - cands[i].weight
    <3>1. i \in 0..n /\ i # 0
      BY <1>1
    <3> QED
      BY <1>6, <3>1, Zenon
  <2>2. 0 \in 0..n
    BY <1>1
  <2>3. W[0] = pick
    BY <1>6, <2>2, Zenon
  <2>4. W = [i \in 0..n |-> W[i]]
    BY <1>6
  <2> QED
    BY <2>1, <2>3, <2>4, Zenon
<1>8. Within(W, n, X)
  <2>1. ASSUME NEW i \in 1..n, W[i - 1] \in X PROVE W[i] = F[i][W[i - 1]]
    BY <1>7, <2>1
  <2> HIDE DEF F
  <2>2. Runs(W, n, X, pick, F)
    BY <1>7, <2>1 DEF Runs
  <2> QED
    BY <1>1, <1>3, <2>2, LoopStays, Zenon
<1> QED
  BY <1>7, <1>8 DEF W, n, X, Within

LEMMA EnteredLoop ==
    ASSUME NEW conf, conf \in Seq(ToSet(conf)), NEW m
    PROVE  /\ Entered(conf, m) \in [0..Len(conf) -> Seq(ToSet(conf))]
           /\ Entered(conf, m)[0] = <<>>
           /\ \A i \in 1..Len(conf) :
                 Entered(conf, m)[i]
                    = IF conf[i].isActive /\ conf[i].name = m
                      THEN Append(Entered(conf, m)[i - 1], conf[i])
                      ELSE Entered(conf, m)[i - 1]
<1> DEFINE n == Len(conf)
           X == Seq(ToSet(conf))
           F == [i \in 1..n |-> [x \in X |-> (IF conf[i].isActive /\ conf[i].name = m
               THEN Append(x, conf[i]) ELSE x)]]
           W == Entered(conf, m)
<1>1. n \in Nat /\ <<>> \in X
  BY DEF n, X
<1>2. ASSUME NEW i \in 1..n, NEW x \in X PROVE (IF conf[i].isActive /\ conf[i].name = m
               THEN Append(x, conf[i]) ELSE x) \in X
  <2>1. conf[i] \in ToSet(conf)
    BY DEF ToSet
  <2> QED
    BY <1>1, <1>2, <2>1
<1> HIDE DEF n, X, W
<1>3. F \in Loops(n, X)
  BY <1>2 DEF Loops
<1>4. PICK f : Runs(f, n, X, <<>>, F) /\ Within(f, n, X)
  <2> HIDE DEF F
  <2> QED
    BY <1>1, <1>3, LoopRuns, Zenon
<1>5. f = [i \in 0..n |-> IF i = 0 THEN <<>> ELSE (IF conf[i].isActive /\ conf[i].name = m
               THEN Append(f[i - 1], conf[i]) ELSE f[i - 1])]
  <2>1. ASSUME NEW i \in 0..n, i # 0 PROVE f[i] = (IF conf[i].isActive /\ conf[i].name = m
               THEN Append(f[i - 1], conf[i]) ELSE f[i - 1])
    <3>1. i \in 1..n /\ i - 1 \in 0..n
      BY <1>1, <2>1
    <3>2. f[i - 1] \in X
      BY <1>4, <3>1 DEF Within
    <3>3. f[i] = F[i][f[i - 1]]
      BY <1>4, <3>1, <3>2 DEF Runs
    <3> QED
      BY <3>1, <3>2, <3>3
  <2> HIDE DEF F
  <2>2. f = [i \in 0..n |-> f[i]] /\ f[0] = <<>>
    BY <1>4 DEF Runs
  <2> QED
    BY <2>1, <2>2
<1>6. W = [i \in 0..n |-> IF i = 0 THEN <<>> ELSE (IF conf[i].isActive /\ conf[i].name = m
               THEN Append(W[i - 1], conf[i]) ELSE W[i - 1])]
  BY <1>5, Zenon DEF W, n, Entered
<1>7. /\ W = [i \in 0..n |-> W[i]] /\ W[0] = <<>>
      /\ \A i \in 1..n : W[i] = (IF conf[i].isActive /\ conf[i].name = m
               THEN Append(W[i - 1], conf[i]) ELSE W[i - 1])
  <2>1. ASSUME NEW i \in 1..n PROVE W[i] = (IF conf[i].isActive /\ conf[i].name = m
               THEN Append(W[i - 1], conf[i]) ELSE W[i - 1])
    <3>1. i \in 0..n /\ i # 0
      BY <1>1
    <3> QED
      BY <1>6, <3>1, Zenon
  <2>2. 0 \in 0..n
    BY <1>1
  <2>3. W[0] = <<>>
    BY <1>6, <2>2, Zenon
  <2>4. W = [i \in 0..n |-> W[i]]
    BY <1>6
  <2> QED
    BY <2>1, <2>3, <2>4, Zenon
<1>8. Within(W, n, X)
  <2>1. ASSUME NEW i \in 1..n, W[i - 1] \in X PROVE W[i] = F[i][W[i - 1]]
    BY <1>7, <2>1
  <2> HIDE DEF F
  <2>2. Runs(W, n, X, <<>>, F)
    BY <1>7, <2>1 DEF Runs
  <2> QED
    BY <1>1, <1>3, <2>2, LoopStays, Zenon
<1> QED
  BY <1>7, <1>8 DEF W, n, X, Within

\* The entries of a model are some of conf's.
LEMMA EntriesType ==
    ASSUME NEW conf, IsConfig(conf), NEW m
    PROVE  /\ Entries(conf, m) \in Seq(ToSet(conf))
           /\ \A i \in 1..Len(Entries(conf, m)) :
                 /\ Entries(conf, m)[i].name \in Models
                 /\ Entries(conf, m)[i].fallback \in Models \cup {NoName}
                 /\ Entries(conf, m)[i].weight \in Int
<1>1. conf \in Seq(ToSet(conf)) /\ Len(conf) \in 0..Len(conf)
  BY DEF IsConfig
<1>2. Entries(conf, m) \in Seq(ToSet(conf))
  BY <1>1, EnteredLoop DEF Entries
<1>3. \A i \in 1..Len(Entries(conf, m)) : Entries(conf, m)[i] \in ToSet(conf)
  BY <1>2
<1> QED
  BY <1>2, <1>3 DEF IsConfig

LEMMA FallbackType ==
    ASSUME NEW conf, IsConfig(conf), NEW m
    PROVE  /\ ModelFallback(conf, m) \in Models \cup {NoName}
           /\ Entries(conf, m) = <<>> => ModelFallback(conf, m) = NoName
<1> DEFINE es == Entries(conf, m)
           named == {i \in DOMAIN es : es[i].fallback # NoName}
<1>1. CASE named = {}
  BY <1>1 DEF ModelFallback
<1>2. CASE named # {}
  <2>1. es \in Seq(ToSet(conf)) /\ named \in SUBSET Nat
    BY EntriesType
  <2>2. \E i \in named : \A j \in named : i <= j
    <3> HIDE DEF named
    <3> QED
      BY <1>2, <2>1, LeastNat
  <2>3. PICK i \in named : ModelFallback(conf, m) = es[i].fallback
    <3>1. ModelFallback(conf, m)
             = es[CHOOSE i \in named : \A j \in named : i <= j].fallback
      BY <1>2 DEF ModelFallback
    <3> HIDE DEF named
    <3> QED
      BY <2>2, <3>1
  <2>4. i \in 1..Len(es) /\ es # <<>>
    BY <2>1, <2>3
  <2> QED
    BY <2>3, <2>4, EntriesType
<1> QED
  BY <1>1, <1>2

LEMMA UnseenLoop ==
    ASSUME NEW K, NEW queue \in Seq(K), NEW cands, Len(cands) \in Nat,
           \A i \in 1..Len(cands) : CircuitKey(cands[i]) \in K
    PROVE  /\ Unseen(queue, cands) \in [0..Len(cands) -> Seq(K)]
           /\ Unseen(queue, cands)[0] = queue
           /\ \A i \in 1..Len(cands) :
                 Unseen(queue, cands)[i]
                    = IF CircuitKey(cands[i]) \in ToSet(Unseen(queue, cands)[i - 1])
                      THEN Unseen(queue, cands)[i - 1]
                      ELSE Append(Unseen(queue, cands)[i - 1], CircuitKey(cands[i]))
<1> DEFINE n == Len(cands)
           X == Seq(K)
           F == [i \in 1..n |-> [x \in X |-> (IF CircuitKey(cands[i]) \in ToSet(x) THEN x
               ELSE Append(x, CircuitKey(cands[i])))]]
           W == Unseen(queue, cands)
<1>1. n \in Nat /\ queue \in X
  BY DEF n, X
<1>2. ASSUME NEW i \in 1..n, NEW x \in X PROVE (IF CircuitKey(cands[i]) \in ToSet(x) THEN x
               ELSE Append(x, CircuitKey(cands[i]))) \in X
  BY <1>1, <1>2
<1> HIDE DEF n, X, W
<1>3. F \in Loops(n, X)
  BY <1>2 DEF Loops
<1>4. PICK f : Runs(f, n, X, queue, F) /\ Within(f, n, X)
  <2> HIDE DEF F
  <2> QED
    BY <1>1, <1>3, LoopRuns, Zenon
<1>5. f = [i \in 0..n |->
               IF i = 0 THEN queue
               ELSE (IF CircuitKey(cands[i]) \in ToSet(f[i - 1]) THEN f[i - 1]
               ELSE Append(f[i - 1], CircuitKey(cands[i])))]
  <2>1. ASSUME NEW i \in 0..n, i # 0 PROVE f[i] =
               (IF CircuitKey(cands[i]) \in ToSet(f[i - 1]) THEN f[i - 1]
               ELSE Append(f[i - 1], CircuitKey(cands[i])))
    <3>1. i \in 1..n /\ i - 1 \in 0..n
      BY <1>1, <2>1
    <3>2. f[i - 1] \in X
      BY <1>4, <3>1 DEF Within
    <3>3. f[i] = F[i][f[i - 1]]
      BY <1>4, <3>1, <3>2 DEF Runs
    <3> QED
      BY <3>1, <3>2, <3>3
  <2> HIDE DEF F
  <2>2. f = [i \in 0..n |-> f[i]] /\ f[0] = queue
    BY <1>4 DEF Runs
  <2> QED
    BY <2>1, <2>2
<1>6. W = [i \in 0..n |->
               IF i = 0 THEN queue
               ELSE (IF CircuitKey(cands[i]) \in ToSet(W[i - 1]) THEN W[i - 1]
               ELSE Append(W[i - 1], CircuitKey(cands[i])))]
  BY <1>5, Zenon DEF W, n, Unseen
<1>7. /\ W = [i \in 0..n |-> W[i]] /\ W[0] = queue
      /\ \A i \in 1..n : W[i] = (IF CircuitKey(cands[i]) \in ToSet(W[i - 1]) THEN W[i - 1]
               ELSE Append(W[i - 1], CircuitKey(cands[i])))
  <2>1. ASSUME NEW i \in 1..n PROVE W[i] =
               (IF CircuitKey(cands[i]) \in ToSet(W[i - 1]) THEN W[i - 1]
               ELSE Append(W[i - 1], CircuitKey(cands[i])))
    <3>1. i \in 0..n /\ i # 0
      BY <1>1
    <3> QED
      BY <1>6, <3>1, Zenon
  <2>2. 0 \in 0..n
    BY <1>1
  <2>3. W[0] = queue
    BY <1>6, <2>2, Zenon
  <2>4. W = [i \in 0..n |-> W[i]]
    BY <1>6
  <2> QED
    BY <2>1, <2>3, <2>4, Zenon
<1>8. Within(W, n, X)
  <2>1. ASSUME NEW i \in 1..n, W[i - 1] \in X PROVE W[i] = F[i][W[i - 1]]
    BY <1>7, <2>1
  <2> HIDE DEF F
  <2>2. Runs(W, n, X, queue, F)
    BY <1>7, <2>1 DEF Runs
  <2> QED
    BY <1>1, <1>3, <2>2, LoopStays, Zenon
<1> QED
  BY <1>7, <1>8 DEF W, n, X, Within

LEMMA QueuedLoop ==
    ASSUME NEW K, NEW o, Len(o) \in Nat,
           \A i \in 1..Len(o) :
              /\ Len(o[i]) \in Nat
              /\ \A j \in 1..Len(o[i]) : CircuitKey(o[i][j]) \in K
    PROVE  /\ Queued(o) \in [0..Len(o) -> Seq(K)]
           /\ Queued(o)[0] = <<>>
           /\ \A i \in 1..Len(o) : Queued(o)[i] = WithUnseen(Queued(o)[i - 1], o[i])
<1> DEFINE n == Len(o)
           X == Seq(K)
           F == [i \in 1..n |-> [x \in X |-> WithUnseen(x, o[i])]]
           W == Queued(o)
<1>1. n \in Nat /\ <<>> \in X
  BY DEF n, X
<1>2. ASSUME NEW i \in 1..n, NEW x \in X PROVE WithUnseen(x, o[i]) \in X
  <2>1. /\ Len(o[i]) \in Nat
        /\ \A j \in 1..Len(o[i]) : CircuitKey(o[i][j]) \in K
    OBVIOUS
  <2> DEFINE cands == o[i]
  <2>2. Len(cands) \in Nat /\ \A j \in 1..Len(cands) : CircuitKey(cands[j]) \in K
    BY <2>1
  <2>3. x \in Seq(K)
    BY <1>2
  <2> HIDE DEF cands
  <2>4. Unseen(x, cands) \in [0..Len(cands) -> Seq(K)]
    BY <2>2, <2>3, UnseenLoop
  <2> QED
    BY <2>2, <2>4 DEF WithUnseen, cands
<1> HIDE DEF n, X, W
<1>3. F \in Loops(n, X)
  BY <1>2 DEF Loops
<1>4. PICK f : Runs(f, n, X, <<>>, F) /\ Within(f, n, X)
  <2> HIDE DEF F
  <2> QED
    BY <1>1, <1>3, LoopRuns, Zenon
<1>5. f = [i \in 0..n |-> IF i = 0 THEN <<>> ELSE WithUnseen(f[i - 1], o[i])]
  <2>1. ASSUME NEW i \in 0..n, i # 0 PROVE f[i] = WithUnseen(f[i - 1], o[i])
    <3>1. i \in 1..n /\ i - 1 \in 0..n
      BY <1>1, <2>1
    <3>2. f[i - 1] \in X
      BY <1>4, <3>1 DEF Within
    <3>3. f[i] = F[i][f[i - 1]]
      BY <1>4, <3>1, <3>2 DEF Runs
    <3> QED
      BY <3>1, <3>2, <3>3
  <2> HIDE DEF F
  <2>2. f = [i \in 0..n |-> f[i]] /\ f[0] = <<>>
    BY <1>4 DEF Runs
  <2> QED
    BY <2>1, <2>2
<1>6. W = [i \in 0..n |-> IF i = 0 THEN <<>> ELSE WithUnseen(W[i - 1], o[i])]
  BY <1>5, Zenon DEF W, n, Queued
<1>7. /\ W = [i \in 0..n |-> W[i]] /\ W[0] = <<>>
      /\ \A i \in 1..n : W[i] = WithUnseen(W[i - 1], o[i])
  <2>1. ASSUME NEW i \in 1..n PROVE W[i] = WithUnseen(W[i - 1], o[i])
    <3>1. i \in 0..n /\ i # 0
      BY <1>1
    <3> QED
      BY <1>6, <3>1, Zenon
  <2>2. 0 \in 0..n
    BY <1>1
  <2>3. W[0] = <<>>
    BY <1>6, <2>2, Zenon
  <2>4. W = [i \in 0..n |-> W[i]]
    BY <1>6
  <2> QED
    BY <2>1, <2>3, <2>4, Zenon
<1>8. Within(W, n, X)
  <2>1. ASSUME NEW i \in 1..n, W[i - 1] \in X PROVE W[i] = F[i][W[i - 1]]
    BY <1>7, <2>1
  <2> HIDE DEF F
  <2>2. Runs(W, n, X, <<>>, F)
    BY <1>7, <2>1 DEF Runs
  <2> QED
    BY <1>1, <1>3, <2>2, LoopStays, Zenon
<1> QED
  BY <1>7, <1>8 DEF W, n, X, Within

LEMMA HopsLoop ==
    ASSUME NEW conf, IsConfig(conf), NEW m \in Models
    PROVE  /\ Hops(conf, m) \in [0..Cardinality(Models) -> Models \cup {NoName}]
           /\ Hops(conf, m)[0] = m
           /\ \A i \in 1..Cardinality(Models) :
                 Hops(conf, m)[i] = IF Hops(conf, m)[i - 1] = NoName THEN NoName
                                   ELSE ModelFallback(conf, Hops(conf, m)[i - 1])
<1> DEFINE n == Cardinality(Models)
           X == (Models \cup {NoName})
           F == [i \in 1..n |-> [x \in X |->
               (IF x = NoName THEN NoName ELSE ModelFallback(conf, x))]]
           W == Hops(conf, m)
<1>1. n \in Nat /\ m \in X
  BY ModelsAssumption, FS_CardinalityType DEF n, X
<1>2. ASSUME NEW i \in 1..n, NEW x \in X PROVE
               (IF x = NoName THEN NoName ELSE ModelFallback(conf, x)) \in X
  BY FallbackType
<1> HIDE DEF n, X, W
<1>3. F \in Loops(n, X)
  BY <1>2 DEF Loops
<1>4. PICK f : Runs(f, n, X, m, F) /\ Within(f, n, X)
  <2> HIDE DEF F
  <2> QED
    BY <1>1, <1>3, LoopRuns, Zenon
<1>5. f = [i \in 0..n |->
               IF i = 0 THEN m
               ELSE (IF f[i - 1] = NoName THEN NoName ELSE ModelFallback(conf, f[i - 1]))]
  <2>1. ASSUME NEW i \in 0..n, i # 0 PROVE f[i] =
               (IF f[i - 1] = NoName THEN NoName ELSE ModelFallback(conf, f[i - 1]))
    <3>1. i \in 1..n /\ i - 1 \in 0..n
      BY <1>1, <2>1
    <3>2. f[i - 1] \in X
      BY <1>4, <3>1 DEF Within
    <3>3. f[i] = F[i][f[i - 1]]
      BY <1>4, <3>1, <3>2 DEF Runs
    <3> QED
      BY <3>1, <3>2, <3>3
  <2> HIDE DEF F
  <2>2. f = [i \in 0..n |-> f[i]] /\ f[0] = m
    BY <1>4 DEF Runs
  <2> QED
    BY <2>1, <2>2
<1>6. W = [i \in 0..n |->
               IF i = 0 THEN m
               ELSE (IF W[i - 1] = NoName THEN NoName ELSE ModelFallback(conf, W[i - 1]))]
  BY <1>5, Zenon DEF W, n, Hops
<1>7. /\ W = [i \in 0..n |-> W[i]] /\ W[0] = m
      /\ \A i \in 1..n : W[i] =
               (IF W[i - 1] = NoName THEN NoName ELSE ModelFallback(conf, W[i - 1]))
  <2>1. ASSUME NEW i \in 1..n PROVE W[i] =
               (IF W[i - 1] = NoName THEN NoName ELSE ModelFallback(conf, W[i - 1]))
    <3>1. i \in 0..n /\ i # 0
      BY <1>1
    <3> QED
      BY <1>6, <3>1, Zenon
  <2>2. 0 \in 0..n
    BY <1>1
  <2>3. W[0] = m
    BY <1>6, <2>2, Zenon
  <2>4. W = [i \in 0..n |-> W[i]]
    BY <1>6
  <2> QED
    BY <2>1, <2>3, <2>4, Zenon
<1>8. Within(W, n, X)
  <2>1. ASSUME NEW i \in 1..n, W[i - 1] \in X PROVE W[i] = F[i][W[i - 1]]
    BY <1>7, <2>1
  <2> HIDE DEF F
  <2>2. Runs(W, n, X, m, F)
    BY <1>7, <2>1 DEF Runs
  <2> QED
    BY <1>1, <1>3, <2>2, LoopStays, Zenon
<1> QED
  BY <1>7, <1>8 DEF W, n, X, Within

-----------------------------------------------------------------------------
\* A model always has a route, and all of its candidates are for itself.
LEMMA CandidatesType ==
    ASSUME NEW conf, IsConfig(conf), NEW m
    PROVE  LET cands == RoutesForModel(conf, m)
           IN  /\ cands \in Seq(ToSet(cands)) /\ cands # <<>>
               /\ \A i \in 1..Len(cands) : /\ cands[i].model = m
                                           /\ cands[i].weight \in Nat \ {0}
<1> DEFINE es == Entries(conf, m)
           routes == ModelRoutes(conf, m)
<1>1. /\ es \in Seq(ToSet(conf))
      /\ \A i \in 1..Len(es) : es[i].weight \in Int
  BY EntriesType
<1>2. /\ DOMAIN es = 1..Len(es) /\ Len(es) \in Nat
  BY <1>1
<1>3. routes = [i \in 1..Len(es) |-> Candidate(es[i], m)]
  BY <1>2 DEF ModelRoutes
<1>4. ASSUME NEW i \in 1..Len(es)
      PROVE  /\ Candidate(es[i], m).model = m
             /\ Candidate(es[i], m).weight \in Nat \ {0}
  <2>1. es[i].weight \in Int
    BY <1>1
  <2> HIDE DEF es
  <2> QED
    BY <2>1 DEF Candidate
<1>5. CASE routes # <<>>
  <2>1. RoutesForModel(conf, m) = routes
    BY <1>5 DEF RoutesForModel
  <2> HIDE DEF es
  <2>2. routes \in Seq(ToSet(routes)) /\ Len(routes) = Len(es)
    BY <1>2, <1>3 DEF ToSet
  <2> QED
    BY <1>2, <1>3, <1>4, <1>5, <2>1, <2>2
<1>6. CASE routes = <<>>
  <2> DEFINE c == [model |-> m, provider |-> DetectProvider[m], weight |-> 1]
  <2>1. RoutesForModel(conf, m) = <<c>>
    BY <1>6 DEF RoutesForModel
  <2>2. c.model = m /\ c.weight \in Nat \ {0}
    OBVIOUS
  <2> HIDE DEF c
  <2> QED
    BY <2>1, <2>2 DEF ToSet
<1> QED
  BY <1>5, <1>6

\* An order of the candidates holds all of them.
LEMMA OrdersType ==
    ASSUME NEW cands, cands \in Seq(ToSet(cands)), NEW o \in WeightedOrders(cands)
    PROVE  /\ o \in Seq(ToSet(cands)) /\ Len(o) = Len(cands)
           /\ \A i \in 1..Len(o) : \E j \in 1..Len(cands) : o[i] = cands[j]
           /\ \A j \in 1..Len(cands) : \E i \in 1..Len(o) : o[i] = cands[j]
<1> DEFINE n == Len(cands)
<1>1. n \in Nat
  OBVIOUS
<1>2. PICK p \in [1..n -> 1..n] : IsInjective(p) /\ o = [i \in 1..n |-> cands[p[i]]]
  BY DEF WeightedOrders
<1>3. \A i \in 1..n : cands[i] \in ToSet(cands)
  BY DEF ToSet
<1>4. p \in Surjection(1..n, 1..n)
  <2>1. IsFiniteSet(1..n)
    BY <1>1, FS_Interval
  <2>2. p \in Injection(1..n, 1..n)
    BY <1>2 DEF Injection
  <2> QED
    BY <2>1, <2>2, FS_Injection, Zenon
<1>5. \A j \in 1..n : \E i \in 1..n : p[i] = j
  BY <1>4 DEF Surjection
<1>6. o \in Seq(ToSet(cands)) /\ Len(o) = n
  <2> HIDE DEF n
  <2> QED
    BY <1>1, <1>2, <1>3
<1> HIDE DEF n
<1> QED
  BY <1>2, <1>5, <1>6 DEF n

\* Of an order, the keys that are new are added at the end, each once.
Extends(q, queue, cands) ==
    /\ IsInjective(q)
    /\ Len(queue) <= Len(q)
    /\ \A i \in 1..Len(queue) : q[i] = queue[i]
    /\ \A i \in 1..Len(q) : i > Len(queue) =>
          \E j \in 1..Len(cands) : q[i] = CircuitKey(cands[j])
    /\ \A j \in 1..Len(cands) : \E i \in 1..Len(q) : q[i] = CircuitKey(cands[j])

LEMMA UnseenExtends ==
    ASSUME NEW K, NEW queue \in Seq(K), IsInjective(queue),
           NEW cands, Len(cands) \in Nat,
           \A i \in 1..Len(cands) : CircuitKey(cands[i]) \in K
    PROVE  /\ WithUnseen(queue, cands) \in Seq(K)
           /\ Extends(WithUnseen(queue, cands), queue, cands)
<1> DEFINE n == Len(cands)
           kept == Unseen(queue, cands)
           Good(j) == /\ IsInjective(kept[j])
                      /\ Len(queue) <= Len(kept[j])
                      /\ \A i \in 1..Len(queue) : kept[j][i] = queue[i]
                      /\ \A i \in 1..Len(kept[j]) : i > Len(queue) =>
                            \E l \in 1..n : kept[j][i] = CircuitKey(cands[l])
                      /\ \A l \in 1..j : \E i \in 1..Len(kept[j]) :
                            kept[j][i] = CircuitKey(cands[l])
<1>1. /\ n \in Nat /\ kept \in [0..n -> Seq(K)] /\ kept[0] = queue
      /\ \A i \in 1..n : kept[i] = IF CircuitKey(cands[i]) \in ToSet(kept[i - 1])
                                   THEN kept[i - 1]
                                   ELSE Append(kept[i - 1], CircuitKey(cands[i]))
  BY UnseenLoop
<1>2. Good(0)
  BY <1>1
<1>3. ASSUME NEW j \in 1..n, Good(j - 1) PROVE Good(j)
  <2> DEFINE old == kept[j - 1]   new == kept[j]   key == CircuitKey(cands[j])
  <2>1. old \in Seq(K) /\ new \in Seq(K) /\ key \in K
    BY <1>1
  <2>2. new = IF key \in ToSet(old) THEN old ELSE Append(old, key)
    BY <1>1
  <2>3. \A l \in 1..j : l \in 1..j - 1 \/ l = j
    BY <1>1
  <2>4. /\ IsInjective(old) /\ Len(queue) <= Len(old)
        /\ \A i \in 1..Len(queue) : old[i] = queue[i]
        /\ \A i \in 1..Len(old) : i > Len(queue) =>
              \E l \in 1..n : old[i] = CircuitKey(cands[l])
        /\ \A l \in 1..j - 1 : \E i \in 1..Len(old) : old[i] = CircuitKey(cands[l])
    BY <1>3
  <2>5. CASE key \in ToSet(old)
    <3>1. new = old /\ \E i \in 1..Len(old) : old[i] = key
      BY <2>1, <2>2, <2>5 DEF ToSet
    <3>2. \A l \in 1..j : \E i \in 1..Len(new) : new[i] = CircuitKey(cands[l])
      <4> SUFFICES ASSUME NEW l \in 1..j
                   PROVE  \E i \in 1..Len(old) : old[i] = CircuitKey(cands[l])
        BY <3>1
      <4> QED
        BY <2>3, <2>4, <3>1
    <3> HIDE DEF old, new
    <3> QED
      BY <2>4, <3>1, <3>2 DEF new
  <2>6. CASE key \notin ToSet(old)
    <3> HIDE DEF key, old, new
    <3>1. /\ Len(new) = Len(old) + 1 /\ Len(old) \in Nat /\ new[Len(old) + 1] = key
          /\ \A i \in 1..Len(old) : new[i] = old[i]
      BY <2>1, <2>2, <2>6, AppendProperties
    <3>2. IsInjective(new)
      <4>1. DOMAIN new = 1..Len(old) + 1 /\ DOMAIN old = 1..Len(old)
        BY <2>1, <3>1
      <4>2. \A i \in 1..Len(old) : new[i] # key
        BY <2>6, <3>1, <4>1 DEF ToSet
      <4> QED
        BY <2>4, <3>1, <4>1, <4>2 DEF IsInjective
    <3>3. Len(queue) <= Len(new) /\ \A i \in 1..Len(queue) : new[i] = queue[i]
      BY <2>4, <3>1
    <3>4. ASSUME NEW i \in 1..Len(new), i > Len(queue)
          PROVE  \E l \in 1..n : new[i] = CircuitKey(cands[l])
      <4>1. CASE i = Len(old) + 1
        BY <3>1, <4>1 DEF key
      <4>2. CASE i \in 1..Len(old)
        BY <2>4, <3>1, <3>4, <4>2
      <4> QED
        BY <3>1, <4>1, <4>2
    <3>5. ASSUME NEW l \in 1..j
          PROVE  \E i \in 1..Len(new) : new[i] = CircuitKey(cands[l])
      <4>1. CASE l = j
        <5>1. Len(old) + 1 \in 1..Len(new)
          BY <3>1
        <5> QED
          BY <3>1, <4>1, <5>1 DEF key
      <4>2. CASE l \in 1..j - 1
        <5>1. PICK i \in 1..Len(old) : old[i] = CircuitKey(cands[l])
          BY <2>4, <4>2
        <5>2. i \in 1..Len(new)
          BY <3>1
        <5> QED
          BY <3>1, <5>1, <5>2
      <4> QED
        BY <2>3, <4>1, <4>2
    <3> QED
      BY <3>2, <3>3, <3>4, <3>5 DEF new
  <2> QED
    BY <2>5, <2>6
<1>4. Good(n)
  <2> DEFINE T == {j \in 0..n : ~ Good(j)}
  <2> HIDE DEF Good
  <2>1. CASE T # {}
    <3>1. PICK j \in T : \A l \in T : j <= l
      <4>1. T \in SUBSET Nat
        OBVIOUS
      <4> HIDE DEF T
      <4> QED
        BY <2>1, <4>1, LeastNat
    <3>2. j # 0
      BY <1>2, <3>1
    <3>3. j \in 1..n /\ j - 1 \notin T /\ j - 1 \in 0..n
      BY <1>1, <3>1, <3>2
    <3> QED
      BY <1>3, <3>1, <3>3
  <2>2. CASE T = {}
    BY <1>1, <2>2
  <2> QED
    BY <2>1, <2>2
<1>5. WithUnseen(queue, cands) = kept[n] /\ kept[n] \in Seq(K)
  BY <1>1 DEF WithUnseen
<1> HIDE DEF kept, n
<1>6. Extends(kept[n], queue, cands)
  BY <1>4 DEF Extends, n
<1> QED
  BY <1>5, <1>6

-----------------------------------------------------------------------------
\* A chain of fallbacks begins with the model asked for, goes from each model to
\* its fallback, repeats none, and ends where there is none or one comes up
\* again.
IsChain(conf, m, chain) ==
    /\ chain \in Seq(Models) /\ chain # <<>> /\ chain[1] = m
    /\ \A i, j \in 1..Len(chain) : chain[i] = chain[j] => i = j
    /\ \A i \in 1..Len(chain) - 1 : chain[i + 1] = ModelFallback(conf, chain[i])
    /\ \A i \in 1..Len(chain) :
          ModelFallback(conf, chain[i]) # NoName =>
             \E j \in 1..Len(chain) : chain[j] = ModelFallback(conf, chain[i])

LEMMA ChainResolved ==
    ASSUME NEW conf, IsConfig(conf), NEW m \in Models
    PROVE  IsChain(conf, m, ResolveModelChain(conf, m))
<1> DEFINE n == Cardinality(Models)
           hop == Hops(conf, m)
           Stop(i) == hop[i] = NoName \/ \E j \in 0..(i - 1) : hop[j] = hop[i]
           First(i) == Stop(i) /\ \A j \in 1..(i - 1) : ~ Stop(j)
           len == CHOOSE i \in 1..n : First(i)
<1>1. /\ hop \in [0..n -> Models \cup {NoName}] /\ hop[0] = m
      /\ \A i \in 1..n : hop[i] = IF hop[i - 1] = NoName THEN NoName
                                  ELSE ModelFallback(conf, hop[i - 1])
  BY HopsLoop
<1>2. n \in Nat
  BY ModelsAssumption, FS_CardinalityType
<1> HIDE DEF n, hop
<1>3. \E i \in 1..n : Stop(i)
  <2> SUFFICES ASSUME \A i \in 1..n : ~ Stop(i) PROVE FALSE
    OBVIOUS
  <2>1. hop[0] \in Models /\ \A i \in 1..n : hop[i] \in Models
    BY <1>1, <1>2
  <2>2. hop \in [0..n -> Models]
    BY <1>1, <2>1
  <2>3. IsFiniteSet(0..n) /\ Cardinality(0..n) = n + 1
    BY <1>2, FS_Interval
  <2>4. Cardinality(Models) < Cardinality(0..n)
    BY <1>2, <2>3 DEF n
  <2>5. \E x, y \in 0..n : x # y /\ hop[x] = hop[y]
    BY <2>2, <2>3, <2>4, ModelsAssumption, FS_PigeonHole, Zenon
  <2>6. PICK x, y \in 0..n : x # y /\ hop[x] = hop[y]
    BY <2>5
  <2>7. CASE x < y
    <3>1. y \in 1..n /\ x \in 0..(y - 1)
      BY <1>2, <2>7
    <3> QED
      BY <2>6, <3>1
  <2>8. CASE y < x
    <3>1. x \in 1..n /\ y \in 0..(x - 1)
      BY <1>2, <2>8
    <3> QED
      BY <2>6, <3>1
  <2> QED
    BY <1>2, <2>6, <2>7, <2>8
<1>4. \E i \in 1..n : First(i)
  <2> DEFINE T == {i \in 1..n : Stop(i)}
  <2>1. T \in SUBSET Nat /\ T # {}
    BY <1>3
  <2>2. PICK i \in T : \A j \in T : i <= j
    <3> HIDE DEF T
    <3> QED
      BY <2>1, LeastNat
  <2>3. \A j \in 1..(i - 1) : j \in 1..n /\ ~ (i <= j)
    BY <1>2, <2>2
  <2>4. \A j \in 1..(i - 1) : j \notin T
    <3> HIDE DEF T
    <3> QED
      BY <2>2, <2>3
  <2> HIDE DEF Stop
  <2>5. First(i)
    BY <2>2, <2>3, <2>4
  <2> QED
    BY <2>2, <2>5
<1> DEFINE chain == ResolveModelChain(conf, m)
<1>5. len \in 1..n /\ First(len)
  <2> HIDE DEF First
  <2> QED
    BY <1>4
<1>6. chain = [i \in 1..len |-> hop[i - 1]]
  BY DEF ResolveModelChain, hop, n
<1>7. len \in Nat \ {0} /\ len <= n
  BY <1>2, <1>5
<1> HIDE DEF len, chain
<1>8. \A i \in 0..len - 1 : i \in 0..n /\ hop[i] \in Models
  <2> SUFFICES ASSUME NEW i \in 0..len - 1 PROVE i \in 0..n /\ hop[i] \in Models
    OBVIOUS
  <2>1. i \in 0..n
    BY <1>2, <1>7
  <2>2. CASE i = 0
    BY <1>1, <2>1, <2>2
  <2>3. CASE i # 0
    <3>1. i \in 1..(len - 1)
      BY <1>7, <2>3
    <3>2. hop[i] # NoName
      BY <1>5, <3>1
    <3> QED
      BY <1>1, <2>1, <3>2
  <2> QED
    BY <2>2, <2>3
<1>9. /\ DOMAIN chain = 1..len /\ chain \in Seq(Models) /\ Len(chain) = len
      /\ chain # <<>> /\ chain[1] = m
  <2>1. \A i \in 1..len : hop[i - 1] \in Models
    BY <1>7, <1>8
  <2>2. chain \in Seq(Models) /\ Len(chain) = len /\ DOMAIN chain = 1..len
    BY <1>6, <1>7, <2>1
  <2>3. 1 \in 1..len /\ chain[1] = hop[0]
    BY <1>6, <1>7
  <2> QED
    BY <1>1, <2>2, <2>3
<1>10. \A i, j \in 1..len : i < j => chain[i] # chain[j]
  <2> SUFFICES ASSUME NEW i \in 1..len, NEW j \in 1..len, i < j
               PROVE  chain[i] # chain[j]
    OBVIOUS
  <2>1. j - 1 \in 1..(len - 1) /\ i - 1 \in 0..((j - 1) - 1)
    BY <1>7
  <2>2. hop[i - 1] # hop[j - 1]
    BY <1>5, <2>1
  <2> QED
    BY <1>6, <2>2
<1>11. ASSUME NEW i \in 1..len
       PROVE  /\ i \in 0..n /\ hop[i] = ModelFallback(conf, chain[i])
              /\ i < len => i + 1 \in 1..len /\ chain[i + 1] = hop[i]
  <2>1. i \in 1..n /\ i - 1 \in 0..len - 1
    BY <1>2, <1>7
  <2>2. chain[i] = hop[i - 1] /\ hop[i - 1] # NoName
    BY <1>6, <1>8, <2>1, ModelsAssumption
  <2>3. hop[i] = ModelFallback(conf, chain[i])
    BY <1>1, <2>1, <2>2
  <2>4. i < len => i + 1 \in 1..len /\ chain[i + 1] = hop[(i + 1) - 1]
    BY <1>6, <1>7
  <2>5. (i + 1) - 1 = i
    OBVIOUS
  <2> QED
    BY <2>1, <2>3, <2>4, <2>5
<1>12. ASSUME NEW i \in 1..len, ModelFallback(conf, chain[i]) # NoName
       PROVE  \E j \in 1..len : chain[j] = ModelFallback(conf, chain[i])
  <2>1. CASE i < len
    BY <1>11, <2>1
  <2>2. CASE i = len
    <3>1. hop[len] # NoName
      BY <1>11, <1>12, <2>2
    <3>2. PICK j \in 0..(len - 1) : hop[j] = hop[len]
      BY <1>5, <3>1
    <3>3. j + 1 \in 1..len /\ chain[j + 1] = hop[(j + 1) - 1] /\ (j + 1) - 1 = j
      BY <1>6, <1>7
    <3> QED
      BY <1>11, <2>2, <3>2, <3>3
  <2> QED
    BY <1>7, <2>1, <2>2
<1>13. \A i, j \in 1..len : chain[i] = chain[j] => i = j
  BY <1>7, <1>10
<1>14. \A i \in 1..len - 1 : chain[i + 1] = ModelFallback(conf, chain[i])
  BY <1>7, <1>11
<1> QED
  BY <1>9, <1>12, <1>13, <1>14 DEF IsChain, chain

-----------------------------------------------------------------------------
\* A queue for a chain of models: each key once, those of the models of the
\* chain and no others, model after model.
IsQueue(conf, chain, q) ==
    /\ q \in Seq(ToSet(q)) /\ IsInjective(q)
    /\ \A i \in 1..Len(q) : \E a \in 1..Len(chain) :
          \E c \in ToSet(RoutesForModel(conf, chain[a])) : q[i] = CircuitKey(c)
    /\ \A a \in 1..Len(chain) : \A c \in ToSet(RoutesForModel(conf, chain[a])) :
          \E i \in 1..Len(q) : q[i] = CircuitKey(c)
    /\ \A i \in 1..Len(q) : \E a \in 1..Len(chain) : q[i][2] = chain[a]
    /\ \A i, j \in 1..Len(q) : \A a, b \in 1..Len(chain) :
          i < j /\ q[i][2] = chain[a] /\ q[j][2] = chain[b] => a <= b

LEMMA QueueBuilt ==
    ASSUME NEW conf, IsConfig(conf), NEW m \in Models, NEW q \in RouteQueues(conf, m)
    PROVE  IsQueue(conf, ResolveModelChain(conf, m), q)
<1> DEFINE chain == ResolveModelChain(conf, m)
           routes(a) == RoutesForModel(conf, chain[a])
           orders == [i \in DOMAIN chain |-> WeightedOrders(RoutesForModel(conf, chain[i]))]
           L == Len(chain)
<1>1. PICK o \in [DOMAIN chain -> UNION {orders[i] : i \in DOMAIN chain}] :
        (\A i \in DOMAIN chain : o[i] \in orders[i]) /\ q = Queued(o)[Len(o)]
  BY DEF RouteQueues
<1>2. /\ chain \in Seq(Models) /\ L \in Nat /\ DOMAIN chain = 1..L
      /\ \A a, b \in 1..L : chain[a] = chain[b] => a = b
  <2>1. IsChain(conf, m, chain)
    BY ChainResolved, Zenon
  <2> HIDE DEF chain
  <2> QED
    BY <2>1 DEF IsChain
<1>3. DOMAIN o = 1..L /\ Len(o) = L
  <2> HIDE DEF chain, L, orders
  <2>1. DOMAIN o = 1..L /\ o = [i \in 1..L |-> o[i]]
    BY <1>1, <1>2
  <2> QED
    BY <1>2, <2>1
<1>4. ASSUME NEW a \in 1..L
      PROVE  /\ o[a] \in WeightedOrders(routes(a))
             /\ Len(o[a]) \in Nat
             /\ \A i \in 1..Len(o[a]) : \E c \in ToSet(routes(a)) : o[a][i] = c
             /\ \A c \in ToSet(routes(a)) : \E i \in 1..Len(o[a]) : o[a][i] = c
             /\ \A i \in 1..Len(o[a]) : CircuitKey(o[a][i])[2] = chain[a]
  <2>1. o[a] \in WeightedOrders(routes(a))
    BY <1>1, <1>2, <1>4
  <2> DEFINE cands == routes(a)   order == o[a]
  <2>2. /\ cands \in Seq(ToSet(cands))
        /\ \A i \in 1..Len(cands) : cands[i].model = chain[a]
    BY CandidatesType
  <2>3. /\ order \in Seq(ToSet(cands)) /\ Len(order) = Len(cands)
        /\ \A i \in 1..Len(order) : \E j \in 1..Len(cands) : order[i] = cands[j]
        /\ \A j \in 1..Len(cands) : \E i \in 1..Len(order) : order[i] = cands[j]
    <3>1. order \in WeightedOrders(cands)
      BY <2>1
    <3> HIDE DEF cands, order
    <3> QED
      BY <2>2, <3>1, OrdersType
  <2>4. /\ ToSet(cands) = {cands[j] : j \in 1..Len(cands)}
    <3> HIDE DEF cands
    <3> QED
      BY <2>2 DEF ToSet
  <2> HIDE DEF cands, order
  <2>5. \A i \in 1..Len(order) : order[i].model = chain[a]
    <3> SUFFICES ASSUME NEW i \in 1..Len(order) PROVE order[i].model = chain[a]
      OBVIOUS
    <3>1. PICK j \in 1..Len(cands) : order[i] = cands[j]
      BY <2>3
    <3>2. cands[j].model = chain[a]
      BY <2>2
    <3> QED
      BY <3>1, <3>2
  <2>6. /\ Len(order) \in Nat
        /\ \A i \in 1..Len(order) : \E c \in ToSet(cands) : order[i] = c
        /\ \A c \in ToSet(cands) : \E i \in 1..Len(order) : order[i] = c
    <3>1. Len(order) \in Nat
      BY <2>3
    <3>2. \A i \in 1..Len(order) : order[i] \in ToSet(cands)
      BY <2>3, <2>4
    <3>3. \A c \in ToSet(cands) : \E j \in 1..Len(cands) : cands[j] = c
      BY <2>4
    <3>4. ASSUME NEW c \in ToSet(cands) PROVE \E i \in 1..Len(order) : order[i] = c
      <4>1. PICK j \in 1..Len(cands) : cands[j] = c
        BY <3>3
      <4> QED
        BY <2>3, <4>1
    <3> QED
      BY <3>1, <3>2, <3>4
  <2>7. \A i \in 1..Len(order) : CircuitKey(order[i])[2] = chain[a]
    BY <2>5 DEF CircuitKey
  <2> QED
    BY <2>1, <2>6, <2>7 DEF cands, order
<1> DEFINE K == UNION {{CircuitKey(o[a][i]) : i \in 1..Len(o[a])} : a \in 1..L}
<1>5. \A a \in 1..L : \A i \in 1..Len(o[a]) : CircuitKey(o[a][i]) \in K
  OBVIOUS
<1> HIDE DEF K
<1>6. /\ Queued(o) \in [0..L -> Seq(K)] /\ Queued(o)[0] = <<>>
      /\ \A k \in 1..L : Queued(o)[k] = WithUnseen(Queued(o)[k - 1], o[k])
  <2>1. Len(o) \in Nat
    BY <1>2, <1>3
  <2>2. \A i \in 1..Len(o) : /\ Len(o[i]) \in Nat
                             /\ \A j \in 1..Len(o[i]) : CircuitKey(o[i][j]) \in K
    BY <1>3, <1>4, <1>5
  <2>3. /\ Queued(o) \in [0..Len(o) -> Seq(K)] /\ Queued(o)[0] = <<>>
        /\ \A k \in 1..Len(o) : Queued(o)[k] = WithUnseen(Queued(o)[k - 1], o[k])
    BY <2>1, <2>2, QueuedLoop
  <2> QED
    BY <1>3, <2>3
<1> HIDE DEF chain, L
<1> DEFINE Grown(p, k) ==
             /\ p \in Seq(K) /\ IsInjective(p)
             /\ \A i \in 1..Len(p) : \E a \in 1..k : \E l \in 1..Len(o[a]) :
                   p[i] = CircuitKey(o[a][l])
             /\ \A a \in 1..k : \A l \in 1..Len(o[a]) : \E i \in 1..Len(p) :
                   p[i] = CircuitKey(o[a][l])
             /\ \A i, j \in 1..Len(p) : \A a, b \in 1..L :
                   i < j /\ p[i][2] = chain[a] /\ p[j][2] = chain[b] => a <= b
<1>7. Grown(Queued(o)[0], 0)
  <2>1. Queued(o)[0] = <<>> /\ Len(<<>>) = 0 /\ <<>> \in Seq(K) /\ DOMAIN <<>> = {}
    BY <1>6
  <2>2. IsInjective(<<>>)
    BY <2>1 DEF IsInjective
  <2> QED
    BY <2>1, <2>2
<1>8. ASSUME NEW k \in 1..L, NEW p, Grown(p, k - 1)
      PROVE  Grown(WithUnseen(p, o[k]), k)
  <2> DEFINE cands == o[k]   r == WithUnseen(p, cands)
  <2>1. /\ Len(cands) \in Nat /\ \A i \in 1..Len(cands) : CircuitKey(cands[i]) \in K
        /\ \A i \in 1..Len(cands) : CircuitKey(cands[i])[2] = chain[k]
    BY <1>4, <1>5
  <2>2. /\ p \in Seq(K) /\ IsInjective(p) /\ Len(p) \in Nat
        /\ \A i \in 1..Len(p) : \E a \in 1..k - 1 : \E l \in 1..Len(o[a]) :
              p[i] = CircuitKey(o[a][l])
        /\ \A a \in 1..k - 1 : \A l \in 1..Len(o[a]) : \E i \in 1..Len(p) :
              p[i] = CircuitKey(o[a][l])
        /\ \A i, j \in 1..Len(p) : \A a, b \in 1..L :
              i < j /\ p[i][2] = chain[a] /\ p[j][2] = chain[b] => a <= b
    BY <1>8
  <2>3. r \in Seq(K) /\ Extends(r, p, cands)
    <3> HIDE DEF cands
    <3> QED
      BY <2>1, <2>2, UnseenExtends
  <2> HIDE DEF r
  <2>4. /\ IsInjective(r) /\ Len(r) \in Nat /\ Len(p) <= Len(r)
        /\ \A i \in 1..Len(p) : r[i] = p[i]
        /\ \A i \in 1..Len(r) : i > Len(p) =>
              \E j \in 1..Len(cands) : r[i] = CircuitKey(cands[j])
        /\ \A j \in 1..Len(cands) : \E i \in 1..Len(r) : r[i] = CircuitKey(cands[j])
    <3> HIDE DEF cands, Grown
    <3>1. Len(r) \in Nat
      BY <2>3
    <3> QED
      BY <2>3, <3>1, Zenon DEF Extends
  <2>5. k \in Nat \ {0} /\ k <= L /\ L \in Nat /\ \A a \in 1..k : a \in 1..L
    BY <1>2
  <2>6. ASSUME NEW i \in 1..Len(r)
        PROVE  /\ \E a \in 1..k : \E l \in 1..Len(o[a]) : r[i] = CircuitKey(o[a][l])
               /\ \E a \in 1..k : r[i][2] = chain[a]
               /\ i > Len(p) => r[i][2] = chain[k]
    <3>1. CASE i <= Len(p)
      <4>1. i \in 1..Len(p)
        BY <2>2, <3>1
      <4>2. PICK a \in 1..k - 1 : \E l \in 1..Len(o[a]) : p[i] = CircuitKey(o[a][l])
        BY <2>2, <4>1
      <4>3. a \in 1..k /\ a \in 1..L
        BY <2>5
      <4>4. PICK l \in 1..Len(o[a]) : p[i] = CircuitKey(o[a][l])
        BY <4>2
      <4>5. r[i] = CircuitKey(o[a][l]) /\ r[i][2] = chain[a]
        BY <1>4, <2>4, <4>1, <4>3, <4>4
      <4> QED
        BY <2>2, <3>1, <4>3, <4>5
    <3>2. CASE i > Len(p)
      <4>1. PICK l \in 1..Len(cands) : r[i] = CircuitKey(cands[l])
        BY <2>4, <3>2
      <4>2. k \in 1..k /\ r[i][2] = chain[k]
        BY <2>1, <2>5, <4>1
      <4> QED
        BY <4>1, <4>2
    <3> QED
      BY <2>2, <3>1, <3>2
  <2>7. ASSUME NEW a \in 1..k, NEW l \in 1..Len(o[a])
        PROVE  \E i \in 1..Len(r) : r[i] = CircuitKey(o[a][l])
    <3>1. CASE a = k
      BY <2>4, <3>1
    <3>2. CASE a \in 1..k - 1
      <4>1. PICK i \in 1..Len(p) : p[i] = CircuitKey(o[a][l])
        BY <2>2, <3>2
      <4>2. i \in 1..Len(r) /\ r[i] = p[i]
        BY <2>2, <2>4
      <4> QED
        BY <4>1, <4>2
    <3> QED
      BY <2>5, <3>1, <3>2
  <2>8. ASSUME NEW i \in 1..Len(r), NEW j \in 1..Len(r), NEW a \in 1..L, NEW b \in 1..L,
               i < j, r[i][2] = chain[a], r[j][2] = chain[b]
        PROVE  a <= b
    <3>1. CASE j <= Len(p)
      <4>1. i \in 1..Len(p) /\ j \in 1..Len(p)
        BY <2>2, <2>8, <3>1
      <4> QED
        BY <2>2, <2>4, <2>8, <4>1
    <3>2. CASE j > Len(p)
      <4>1. chain[b] = chain[k] /\ k \in 1..L
        BY <2>5, <2>6, <2>8, <3>2
      <4>2. b = k
        BY <1>2, <4>1
      <4>3. PICK d \in 1..k : r[i][2] = chain[d]
        BY <2>6
      <4>4. d \in 1..L /\ chain[d] = chain[a]
        BY <2>5, <2>8, <4>3
      <4>5. a = d
        BY <1>2, <4>4
      <4> QED
        BY <2>5, <4>2, <4>5
    <3> QED
      BY <2>2, <3>1, <3>2
  <2>9. Grown(r, k)
    BY <2>3, <2>4, <2>6, <2>7, <2>8
  <2> QED
    BY <2>9 DEF r
<1>9. Grown(q, L)
  <2> DEFINE T == {k \in 0..L : ~ Grown(Queued(o)[k], k)}
  <2> HIDE DEF Grown
  <2>1. CASE T # {}
    <3>1. PICK k \in T : \A l \in T : k <= l
      <4>1. T \in SUBSET Nat
        OBVIOUS
      <4> HIDE DEF T
      <4> QED
        BY <2>1, <4>1, LeastNat
    <3>2. k # 0
      BY <1>7, <3>1
    <3>3. k \in 1..L /\ k - 1 \notin T /\ k - 1 \in 0..L
      BY <1>2, <3>1, <3>2
    <3>4. Grown(Queued(o)[k - 1], k - 1)
      BY <3>3
    <3>5. Grown(WithUnseen(Queued(o)[k - 1], o[k]), k)
      BY <1>8, <3>3, <3>4
    <3>6. Queued(o)[k] = WithUnseen(Queued(o)[k - 1], o[k])
      BY <1>6, <3>3
    <3> QED
      BY <3>1, <3>5, <3>6
  <2>2. CASE T = {}
    <3>1. L \in 0..L
      BY <1>2
    <3>2. Grown(Queued(o)[L], L)
      BY <2>2, <3>1
    <3> QED
      BY <1>1, <1>3, <3>2
  <2> QED
    BY <2>1, <2>2
<1>10. q \in Seq(ToSet(q)) /\ IsInjective(q)
  BY <1>9 DEF ToSet
<1>11. ASSUME NEW i \in 1..Len(q)
       PROVE  /\ \E a \in 1..L : \E c \in ToSet(routes(a)) : q[i] = CircuitKey(c)
              /\ \E a \in 1..L : q[i][2] = chain[a]
  <2>1. PICK a \in 1..L : \E l \in 1..Len(o[a]) : q[i] = CircuitKey(o[a][l])
    BY <1>9
  <2>2. PICK l \in 1..Len(o[a]) : q[i] = CircuitKey(o[a][l])
    BY <2>1
  <2>3. /\ \E c \in ToSet(routes(a)) : o[a][l] = c
        /\ CircuitKey(o[a][l])[2] = chain[a]
    BY <1>4
  <2> QED
    BY <2>2, <2>3
<1>12. ASSUME NEW a \in 1..L, NEW c \in ToSet(routes(a))
       PROVE  \E i \in 1..Len(q) : q[i] = CircuitKey(c)
  <2>1. PICK l \in 1..Len(o[a]) : o[a][l] = c
    BY <1>4
  <2> QED
    BY <1>9, <2>1
<1>13. \A i, j \in 1..Len(q) : \A a, b \in 1..L :
          i < j /\ q[i][2] = chain[a] /\ q[j][2] = chain[b] => a <= b
  BY <1>9
<1> QED
  BY <1>10, <1>11, <1>12, <1>13 DEF IsQueue, L, chain

-----------------------------------------------------------------------------
\* A queue has a route of a model exactly when the model is in the chain.
LEMMA QueueReaches ==
    ASSUME NEW conf, IsConfig(conf), NEW m \in Models, NEW q \in RouteQueues(conf, m)
    PROVE  LET chain == ResolveModelChain(conf, m)
           IN  /\ IsChain(conf, m, chain) /\ IsQueue(conf, chain, q)
               /\ \A a \in 1..Len(chain) : \E i \in 1..Len(q) : q[i][2] = chain[a]
<1> DEFINE chain == ResolveModelChain(conf, m)
<1>1. IsChain(conf, m, chain) /\ IsQueue(conf, chain, q)
  BY ChainResolved, QueueBuilt, Zenon
<1> HIDE DEF chain
<1>2. ASSUME NEW a \in 1..Len(chain) PROVE \E i \in 1..Len(q) : q[i][2] = chain[a]
  <2> DEFINE cands == RoutesForModel(conf, chain[a])
  <2>1. /\ cands \in Seq(ToSet(cands)) /\ cands # <<>>
        /\ \A i \in 1..Len(cands) : cands[i].model = chain[a]
    BY CandidatesType
  <2>2. \A c \in ToSet(cands) : \E i \in 1..Len(q) : q[i] = CircuitKey(c)
    BY <1>1, Zenon DEF IsQueue
  <2> HIDE DEF cands
  <2>3. 1 \in 1..Len(cands) /\ cands[1] \in ToSet(cands)
    BY <2>1 DEF ToSet
  <2>4. PICK i \in 1..Len(q) : q[i] = CircuitKey(cands[1])
    BY <2>2, <2>3
  <2>5. CircuitKey(cands[1])[2] = chain[a]
    BY <2>1, <2>3 DEF CircuitKey
  <2> QED
    BY <2>4, <2>5
<1> QED
  BY <1>1, <1>2 DEF chain

\* A queue is that of the whole chain, in order.
WholeQueue(conf, m, q) ==
    LET Reach == {x \in Models : \E i \in DOMAIN q : q[i][2] = x}
        First(x) == CHOOSE i \in DOMAIN q :
                        q[i][2] = x /\ \A j \in 1..(i - 1) : q[j][2] # x
    IN  /\ q # <<>> /\ q[1][2] = m /\ IsInjective(q)
        /\ \A x \in Reach :
             LET next == ModelFallback(conf, x)
             IN  /\ {CircuitKey(c) : c \in ToSet(RoutesForModel(conf, x))}
                      \subseteq ToSet(q)
                 /\ next # NoName => next \in Reach
                 /\ First(x) > 1 => ModelFallback(conf, q[First(x) - 1][2]) = x

LEMMA QueueWhole ==
    ASSUME NEW conf, IsConfig(conf), NEW m \in Models, NEW q \in RouteQueues(conf, m)
    PROVE  WholeQueue(conf, m, q)
<1> DEFINE Reach == {x \in Models : \E i \in DOMAIN q : q[i][2] = x}
           Leads(x, i) == q[i][2] = x /\ \A j \in 1..(i - 1) : q[j][2] # x
           First(x) == CHOOSE i \in DOMAIN q : Leads(x, i)
           chain == ResolveModelChain(conf, m)
           L == Len(chain)
<1>1. /\ IsChain(conf, m, chain) /\ IsQueue(conf, chain, q)
      /\ \A a \in 1..L : \E i \in 1..Len(q) : q[i][2] = chain[a]
  BY QueueReaches
<1> HIDE DEF chain
<1>2. /\ chain \in Seq(Models) /\ L \in Nat \ {0} /\ chain[1] = m
      /\ \A a, b \in 1..L : chain[a] = chain[b] => a = b
      /\ \A a \in 1..L - 1 : chain[a + 1] = ModelFallback(conf, chain[a])
      /\ \A a \in 1..L : ModelFallback(conf, chain[a]) # NoName =>
            \E b \in 1..L : chain[b] = ModelFallback(conf, chain[a])
  <2>1. chain \in Seq(Models) /\ chain # <<>>
    BY <1>1 DEF IsChain
  <2>2. L \in Nat \ {0}
    BY <2>1
  <2> HIDE DEF L
  <2> QED
    BY <1>1, <2>1, <2>2, Zenon DEF IsChain, L
<1>3. /\ q \in Seq(ToSet(q)) /\ IsInjective(q)
      /\ \A a \in 1..L : \A c \in ToSet(RoutesForModel(conf, chain[a])) :
            \E i \in 1..Len(q) : q[i] = CircuitKey(c)
      /\ \A i \in 1..Len(q) : \E a \in 1..L : q[i][2] = chain[a]
      /\ \A i, j \in 1..Len(q) : \A a, b \in 1..L :
            i < j /\ q[i][2] = chain[a] /\ q[j][2] = chain[b] => a <= b
  BY <1>1, Zenon DEF IsQueue
<1>4. Len(q) \in Nat /\ DOMAIN q = 1..Len(q)
  BY <1>3
<1>5. \A a \in 1..L : chain[a] \in Models
  BY <1>2
<1> HIDE DEF L
<1>6. ASSUME NEW x \in Reach PROVE \E a \in 1..L : chain[a] = x
  BY <1>3, <1>4
<1>7. ASSUME NEW a \in 1..L PROVE chain[a] \in Reach
  BY <1>1, <1>4, <1>5
<1>8. q # <<>> /\ q[1][2] = m
  <2>1. PICK i \in 1..Len(q) : q[i][2] = chain[1]
    BY <1>1, <1>2
  <2>2. 1 \in 1..Len(q) /\ 1 \in 1..L
    BY <1>2, <1>4
  <2>3. PICK b \in 1..L : q[1][2] = chain[b]
    BY <1>3, <2>2
  <2>4. CASE i = 1
    BY <1>2, <2>1, <2>2, <2>4
  <2>5. CASE 1 < i
    <3>1. b <= 1
      BY <1>3, <2>1, <2>2, <2>3, <2>5
    <3>2. b = 1
      BY <1>2, <3>1
    <3> QED
      BY <1>2, <2>2, <2>3, <3>2
  <2> QED
    BY <1>4, <2>4, <2>5
<1>9. ASSUME NEW x \in Reach PROVE First(x) \in DOMAIN q /\ Leads(x, First(x))
  <2> DEFINE T == {i \in DOMAIN q : q[i][2] = x}
  <2>1. T \in SUBSET Nat /\ T # {}
    BY <1>4
  <2>2. PICK i \in T : \A j \in T : i <= j
    <3> HIDE DEF T
    <3> QED
      BY <2>1, LeastNat
  <2>3. \A j \in 1..(i - 1) : j \in 1..Len(q) /\ ~ (i <= j)
    BY <1>4, <2>2
  <2>4. Leads(x, i)
    BY <1>4, <2>2, <2>3
  <2> HIDE DEF Leads
  <2> QED
    BY <2>2, <2>4
<1>10. ASSUME NEW x \in Reach, First(x) > 1
       PROVE  ModelFallback(conf, q[First(x) - 1][2]) = x
  <2> DEFINE f == First(x)
  <2>1. f \in 1..Len(q) /\ q[f][2] = x /\ \A j \in 1..(f - 1) : q[j][2] # x
    BY <1>4, <1>9
  <2>2. f > 1
    BY <1>10
  <2> HIDE DEF f, Reach
  <2>3. PICK a \in 1..L : chain[a] = x
    BY <1>6
  <2>4. f - 1 \in 1..Len(q) /\ f - 1 \in 1..(f - 1) /\ f - 1 < f
    BY <1>4, <2>1, <2>2
  <2>5. PICK b \in 1..L : q[f - 1][2] = chain[b]
    BY <1>3, <2>4
  <2>6. b <= a /\ b # a
    BY <1>3, <2>1, <2>3, <2>4, <2>5
  <2>7. a - 1 \in 1..L /\ a - 1 \in 1..L - 1
    BY <1>2, <2>6
  <2>8. PICK i \in 1..Len(q) : q[i][2] = chain[a - 1]
    BY <1>1, <2>7
  <2>9. ~ (f < i)
    <3>1. ASSUME f < i PROVE a <= a - 1
      BY <1>3, <2>1, <2>3, <2>7, <2>8, <3>1
    <3> QED
      BY <1>2, <3>1
  <2>10. i # f
    <3>1. ASSUME i = f PROVE a - 1 = a
      BY <1>2, <2>1, <2>3, <2>7, <2>8, <3>1
    <3> QED
      BY <1>2, <3>1
  <2>11. CASE i = f - 1
    <3>1. b = a - 1
      BY <1>2, <2>5, <2>7, <2>8, <2>11
    <3> QED
      BY <1>2, <2>3, <2>5, <2>7, <3>1 DEF f
  <2>12. CASE i < f - 1
    <3>1. a - 1 <= b
      BY <1>3, <2>4, <2>5, <2>7, <2>8, <2>12
    <3>2. b = a - 1
      BY <1>2, <2>6, <3>1
    <3>3. (a - 1) + 1 = a
      BY <1>2
    <3> QED
      BY <1>2, <2>3, <2>5, <2>7, <3>2, <3>3 DEF f
  <2> QED
    BY <1>4, <2>1, <2>9, <2>10, <2>11, <2>12
<1>11. ASSUME NEW x \in Reach
       PROVE  {CircuitKey(c) : c \in ToSet(RoutesForModel(conf, x))} \subseteq ToSet(q)
  <2>1. PICK a \in 1..L : chain[a] = x
    BY <1>6
  <2>2. \A c \in ToSet(RoutesForModel(conf, x)) : \E i \in 1..Len(q) : q[i] = CircuitKey(c)
    BY <1>3, <2>1
  <2> QED
    BY <1>4, <2>2 DEF ToSet
<1>12. ASSUME NEW x \in Reach, ModelFallback(conf, x) # NoName
       PROVE  ModelFallback(conf, x) \in Reach
  <2>1. PICK a \in 1..L : chain[a] = x
    BY <1>6
  <2>2. PICK b \in 1..L : chain[b] = ModelFallback(conf, x)
    BY <1>2, <1>12, <2>1
  <2> HIDE DEF Reach
  <2> QED
    BY <1>7, <2>2
<1> QED
  BY <1>3, <1>8, <1>10, <1>11, <1>12 DEF WholeQueue

\* A queue over configured models holds only routes NewRegistry knows.
LEMMA QueueKnown ==
    ASSUME NEW conf, IsConfig(conf), NEW m \in Models, NEW q \in RouteQueues(conf, m),
           \A i \in DOMAIN q : Entries(conf, q[i][2]) # <<>>
    PROVE  ToSet(q) \subseteq InitialCircuits(conf)
<1> DEFINE chain == ResolveModelChain(conf, m)
           routes(x) == RoutesForModel(conf, x)
<1>1. IsChain(conf, m, chain) /\ IsQueue(conf, chain, q)
  BY QueueReaches
<1> HIDE DEF chain
<1>2. /\ q \in Seq(ToSet(q))
      /\ \A i \in 1..Len(q) : \E a \in 1..Len(chain) :
            \E c \in ToSet(routes(chain[a])) : q[i] = CircuitKey(c)
  BY <1>1, Zenon DEF IsQueue
<1>3. DOMAIN q = 1..Len(q)
  BY <1>2
<1>4. \A a \in 1..Len(chain) : chain[a] \in Models
  BY <1>1 DEF IsChain
<1> SUFFICES ASSUME NEW i \in 1..Len(q) PROVE q[i] \in InitialCircuits(conf)
  BY <1>3 DEF ToSet
<1>5. PICK a \in 1..Len(chain) : \E c \in ToSet(routes(chain[a])) : q[i] = CircuitKey(c)
  BY <1>2
<1>6. PICK c \in ToSet(routes(chain[a])) : q[i] = CircuitKey(c)
  BY <1>5
<1> DEFINE x == chain[a]
<1>7. c.model = x
  <2>1. /\ routes(x) \in Seq(ToSet(routes(x)))
        /\ \A j \in 1..Len(routes(x)) : routes(x)[j].model = x
    BY CandidatesType
  <2> HIDE DEF routes
  <2> QED
    BY <2>1 DEF ToSet
<1>8. q[i][2] = x
  BY <1>6, <1>7 DEF CircuitKey
<1>9. Entries(conf, x) # <<>>
  BY <1>3, <1>8
<1>10. ModelRoutes(conf, x) # <<>>
  <2>1. Entries(conf, x) \in Seq(ToSet(conf))
    BY EntriesType
  <2>2. DOMAIN Entries(conf, x) # {}
    <3> DEFINE es == Entries(conf, x)
    <3>1. es \in Seq(ToSet(conf)) /\ es # <<>>
      BY <1>9, <2>1
    <3> HIDE DEF es
    <3>2. 1 \in 1..Len(es) /\ DOMAIN es = 1..Len(es)
      BY <3>1
    <3> QED
      BY <3>2 DEF es
  <2>3. DOMAIN ModelRoutes(conf, x) = DOMAIN Entries(conf, x)
    BY DEF ModelRoutes
  <2> QED
    BY <2>2, <2>3
<1>11. routes(x) = ModelRoutes(conf, x)
  BY <1>10 DEF RoutesForModel
<1>12. c \in ToSet(ModelRoutes(conf, x)) /\ x \in Models
  BY <1>4, <1>6, <1>11
<1> HIDE DEF x
<1>13. c \in UNION {ToSet(ModelRoutes(conf, y)) : y \in Models}
  BY <1>12
<1> QED
  BY <1>6, <1>13 DEF InitialCircuits

-----------------------------------------------------------------------------
\* Induction up to n.
LEMMA UpTo ==
    ASSUME NEW n \in Nat, NEW T, 0 \in T, \A i \in 1..n : i - 1 \in T => i \in T
    PROVE  \A i \in 0..n : i \in T
<1> DEFINE B == (0..n) \ T
<1>1. CASE B # {}
  <2>1. B \in SUBSET Nat
    OBVIOUS
  <2>2. PICK i \in B : \A j \in B : i <= j
    <3> HIDE DEF B
    <3> QED
      BY <1>1, <2>1, LeastNat
  <2>3. i \in 1..n
    BY <2>2
  <2>4. i - 1 \in 0..n /\ i - 1 \notin B
    BY <2>2, <2>3
  <2> QED
    BY <2>2, <2>3, <2>4
<1> QED
  BY <1>1

\* The draw left after i candidates is the pick less their weights, which grow.
LEMMA WeighedGrows ==
    ASSUME NEW S, NEW cands \in Seq(S),
           \A i \in 1..Len(cands) : cands[i].weight \in Nat \ {0}
    PROVE  LET total == Weighed(cands)
               n == Len(cands)
           IN  /\ n \in Nat /\ total \in [0..n -> Nat] /\ total[0] = 0
               /\ \A i \in 1..n : total[i] = total[i - 1] + cands[i].weight
               /\ \A i \in 0..n : \A j \in 0..i : total[j] <= total[i]
               /\ \A pick \in Int : \A i \in 0..n :
                     Remaining(cands, pick)[i] = pick - total[i]
<1> DEFINE total == Weighed(cands)
           n == Len(cands)
           w(i) == cands[i].weight
<1>1. n \in Nat
  OBVIOUS
<1>2. /\ total \in [0..n -> Int] /\ total[0] = 0
      /\ \A i \in 1..n : total[i] = total[i - 1] + w(i)
  BY <1>1, WeighedLoop
<1>3. \A i \in 1..n : w(i) \in Nat \ {0}
  OBVIOUS
<1> HIDE DEF total, n, w
<1>4. total \in [0..n -> Nat]
  <2> DEFINE T == {i \in 0..n : total[i] >= 0}
  <2>1. 0 \in T
    BY <1>1, <1>2
  <2>2. ASSUME NEW i \in 1..n, i - 1 \in T PROVE i \in T
    <3>1. i - 1 \in 0..n /\ i \in 0..n /\ total[i - 1] \in Int /\ w(i) \in Nat
      BY <1>1, <1>2, <1>3
    <3> QED
      BY <1>2, <2>2, <3>1
  <2> HIDE DEF T
  <2>3. \A i \in 0..n : i \in T
    BY <1>1, <2>1, <2>2, UpTo
  <2> QED
    BY <1>2, <2>3 DEF T
<1>5. \A i \in 0..n : \A j \in 0..i : total[j] <= total[i]
  <2> DEFINE T == {i \in 0..n : \A j \in 0..i : total[j] <= total[i]}
  <2>1. 0 \in T
    BY <1>1, <1>2
  <2>2. ASSUME NEW i \in 1..n, i - 1 \in T PROVE i \in T
    <3>1. i - 1 \in 0..n /\ i \in 0..n /\ total[i - 1] \in Nat /\ w(i) \in Nat
      BY <1>1, <1>3, <1>4
    <3>2. total[i] = total[i - 1] + w(i) /\ total[i] \in Nat
      BY <1>2, <1>4, <3>1
    <3>3. ASSUME NEW j \in 0..i PROVE total[j] <= total[i]
      <4>1. j = i \/ j \in 0..(i - 1)
        BY <1>1
      <4>2. CASE j = i
        BY <3>2, <4>2
      <4>3. CASE j \in 0..(i - 1)
        <5>1. total[j] <= total[i - 1] /\ j \in 0..n
          BY <1>1, <2>2, <4>3
        <5>2. total[j] \in Nat
          BY <1>4, <5>1
        <5> QED
          BY <3>1, <3>2, <5>1, <5>2
      <4> QED
        BY <4>1, <4>2, <4>3
    <3> QED
      BY <3>1, <3>3
  <2> HIDE DEF T
  <2>3. \A i \in 0..n : i \in T
    BY <1>1, <2>1, <2>2, UpTo
  <2> QED
    BY <2>3 DEF T
<1>6. ASSUME NEW pick \in Int
      PROVE  \A i \in 0..n : Remaining(cands, pick)[i] = pick - total[i]
  <2> DEFINE left == Remaining(cands, pick)
  <2>1. /\ left[0] = pick
        /\ \A i \in 1..n : left[i] = left[i - 1] - w(i)
    <3>1. Len(cands) \in Nat /\ \A i \in 1..Len(cands) : cands[i].weight \in Int
      BY <1>1, <1>3 DEF n, w
    <3> QED
      BY <3>1, RemainingLoop DEF n, w
  <2> HIDE DEF left
  <2> DEFINE T == {i \in 0..n : left[i] = pick - total[i]}
  <2>2. 0 \in T
    BY <1>1, <1>2, <2>1
  <2>3. ASSUME NEW i \in 1..n, i - 1 \in T PROVE i \in T
    <3>1. i - 1 \in 0..n /\ i \in 0..n /\ total[i - 1] \in Int /\ w(i) \in Nat
      BY <1>1, <1>2, <1>3
    <3>2. left[i] = left[i - 1] - w(i) /\ total[i] = total[i - 1] + w(i)
      BY <1>2, <2>1
    <3> QED
      BY <2>3, <3>1, <3>2
  <2> HIDE DEF T
  <2>4. \A i \in 0..n : i \in T
    BY <1>1, <2>2, <2>3, UpTo
  <2> QED
    BY <2>4 DEF T, left
<1> QED
  BY <1>1, <1>2, <1>4, <1>5, <1>6 DEF total, n, w

\* The draws that select candidate i are as many as its weight.
LEMMA PickShare ==
    ASSUME NEW S, NEW cands \in Seq(S),
           \A i \in 1..Len(cands) : cands[i].weight \in Nat \ {0}
    PROVE  /\ \A pick \in 0..(TotalWeight(cands) - 1) :
                 WeightedPickIndex(cands, pick) \in 1..Len(cands)
           /\ \A i \in 1..Len(cands) :
                 cands[i].weight
                    = Cardinality({pick \in 0..(TotalWeight(cands) - 1) :
                                       WeightedPickIndex(cands, pick) = i})
<1> DEFINE total == Weighed(cands)
           n == Len(cands)
<1>1. /\ n \in Nat /\ total \in [0..n -> Nat] /\ total[0] = 0
      /\ \A i \in 1..n : total[i] = total[i - 1] + cands[i].weight
      /\ \A i \in 0..n : \A j \in 0..i : total[j] <= total[i]
  BY WeighedGrows
<1>2. \A pick \in Int : \A i \in 0..n : Remaining(cands, pick)[i] = pick - total[i]
  BY WeighedGrows
<1>3. TotalWeight(cands) = total[n]
  BY DEF TotalWeight
<1> HIDE DEF total
<1>4. ASSUME NEW pick \in 0..(total[n] - 1)
      PROVE  /\ WeightedPickIndex(cands, pick) \in 1..n
             /\ \A i \in 1..n : WeightedPickIndex(cands, pick) = i
                                   <=> pick \in total[i - 1]..(total[i] - 1)
  <2> DEFINE Hit(i) == Remaining(cands, pick)[i - 1] < cands[i].weight
             First(i) == Hit(i) /\ \A j \in 1..(i - 1) : ~ Hit(j)
  <2>0. total[n] \in Nat /\ pick \in Nat
    <3>1. n \in 0..n
      BY <1>1
    <3> QED
      BY <1>1, <3>1
  <2>1. \A i \in 1..n : Hit(i) <=> pick < total[i]
    <3> SUFFICES ASSUME NEW i \in 1..n PROVE Hit(i) <=> pick < total[i]
      OBVIOUS
    <3>1. i - 1 \in 0..n /\ i \in 0..n
      BY <1>1
    <3>2. Remaining(cands, pick)[i - 1] = pick - total[i - 1]
      BY <1>1, <1>2, <3>1
    <3>3. total[i] = total[i - 1] + cands[i].weight /\ cands[i].weight \in Nat
      BY <1>1
    <3>4. total[i - 1] \in Nat /\ total[i] \in Nat
      BY <1>1, <3>1
    <3>5. pick \in Nat
      BY <2>0
    <3> QED
      BY <3>2, <3>3, <3>4, <3>5
  <2>2. n \in 0..n /\ total[n] \in Nat
    BY <1>1
  <2>3. n \in 1..n
    BY <1>1, <2>2
  <2>4. Hit(n)
    BY <2>1, <2>2, <2>3
  <2>5. PICK k \in 1..n : First(k)
    <3> DEFINE T == {i \in 1..n : Hit(i)}
    <3>1. T \in SUBSET Nat /\ T # {}
      BY <2>3, <2>4
    <3>2. PICK i \in T : \A j \in T : i <= j
      <4> HIDE DEF T
      <4> QED
        BY <3>1, LeastNat
    <3>3. \A j \in 1..(i - 1) : j \in 1..n /\ ~ (i <= j)
      BY <1>1, <3>2
    <3>4. \A j \in 1..(i - 1) : j \notin T
      <4> HIDE DEF T
      <4> QED
        BY <3>2, <3>3
    <3> HIDE DEF Hit
    <3> QED
      BY <3>2, <3>3, <3>4
  <2>6. ASSUME NEW i \in 1..n
        PROVE  First(i) <=> pick \in total[i - 1]..(total[i] - 1)
    <3>0. i - 1 \in 0..n /\ i \in 0..n
      BY <1>1
    <3>1. /\ i - 1 \in 0..n /\ i \in 0..n
          /\ total[i - 1] \in Nat /\ total[i] \in Nat /\ pick \in Nat
      BY <1>1, <2>0, <3>0
    <3>2. \A j \in 1..(i - 1) : j \in 1..n /\ j \in 0..n /\ j \in 0..(i - 1)
      BY <1>1
    <3>3. ASSUME First(i) PROVE total[i - 1] <= pick /\ pick < total[i]
      <4>1. CASE i = 1
        BY <1>1, <2>1, <3>1, <3>3, <4>1
      <4>2. CASE i # 1
        <5>1. i - 1 \in 1..(i - 1) /\ i - 1 \in 1..n
          BY <1>1, <4>2
        <5>2. ~ Hit(i - 1)
          <6> HIDE DEF Hit
          <6> QED
            BY <3>3, <5>1
        <5>3. ~ (pick < total[i - 1])
          <6> HIDE DEF Hit
          <6> QED
            BY <2>1, <5>1, <5>2
        <5> QED
          BY <2>1, <3>1, <3>3, <5>3
      <4> QED
        BY <4>1, <4>2
    <3>4. ASSUME total[i - 1] <= pick, pick < total[i] PROVE First(i)
      <4>1. ASSUME NEW j \in 1..(i - 1) PROVE ~ Hit(j)
        <5>1. total[j] <= total[i - 1] /\ total[j] \in Nat /\ j \in 1..n
          BY <1>1, <3>1, <3>2
        <5>2. ~ (pick < total[j])
          BY <3>1, <3>4, <5>1
        <5> HIDE DEF Hit
        <5> QED
          BY <2>1, <5>1, <5>2
      <4> HIDE DEF Hit
      <4> QED
        BY <2>1, <3>4, <4>1
    <3> HIDE DEF First
    <3> QED
      BY <3>1, <3>3, <3>4
  <2>7. ASSUME NEW i \in 1..n, NEW j \in 1..n, First(i), First(j), i < j PROVE FALSE
    <3>1. i \in 1..(j - 1)
      BY <1>1, <2>7
    <3> HIDE DEF Hit
    <3> QED
      BY <2>7, <3>1
  <2>8. WeightedPickIndex(cands, pick) = CHOOSE i \in DOMAIN cands : First(i)
    <3>1. DOMAIN cands = 1..n
      OBVIOUS
    <3>2. \E i \in DOMAIN cands : Hit(i)
      BY <2>3, <2>4, <3>1
    <3> QED
      BY <3>2 DEF WeightedPickIndex
  <2> HIDE DEF First
  <2>9. WeightedPickIndex(cands, pick) = k
    <3>1. DOMAIN cands = 1..n
      OBVIOUS
    <3>2. \A i \in 1..n : First(i) => i = k
      BY <1>1, <2>5, <2>7
    <3> QED
      BY <2>5, <2>8, <3>1, <3>2
  <2> QED
    BY <2>5, <2>6, <2>7, <2>9
<1>5. ASSUME NEW i \in 1..n
      PROVE  cands[i].weight
                = Cardinality({pick \in 0..(total[n] - 1) :
                                   WeightedPickIndex(cands, pick) = i})
  <2> DEFINE lo == total[i - 1]   hi == total[i] - 1
  <2>1. /\ i - 1 \in 0..n /\ i \in 0..n /\ n \in 0..n /\ i \in 0..n
        /\ cands[i].weight \in Nat \ {0}
    BY <1>1
  <2>2. /\ total[i - 1] \in Nat /\ total[i] \in Nat /\ total[n] \in Nat
        /\ total[i] = total[i - 1] + cands[i].weight /\ total[i] <= total[n]
    BY <1>1, <2>1
  <2>3. {pick \in 0..(total[n] - 1) : WeightedPickIndex(cands, pick) = i} = lo..hi
    <3>1. \A pick \in lo..hi : pick \in 0..(total[n] - 1)
      BY <2>2
    <3> QED
      BY <1>4, <3>1
  <2>4. Cardinality(lo..hi) = IF lo > hi THEN 0 ELSE hi - lo + 1
    <3>1. lo \in Int /\ hi \in Int
      BY <2>2
    <3> QED
      BY <3>1, FS_Interval
  <2>5. ~ (lo > hi) /\ hi - lo + 1 = cands[i].weight
    BY <2>1, <2>2
  <2> HIDE DEF lo, hi
  <2>6. Cardinality(lo..hi) = cands[i].weight
    BY <2>4, <2>5, Zenon
  <2> QED
    BY <2>3, <2>6, Zenon
<1> QED
  BY <1>3, <1>4, <1>5

-----------------------------------------------------------------------------
\* weightedOrder draws from candidates of the model asked for, with weights
\* that NewRegistry made positive.
DrawInv == /\ IsConfig(cfg) /\ model \in Models
           /\ pool \in Seq(ToSet(pool))
           /\ \A i \in 1..Len(pool) : pool[i].weight \in Nat \ {0}

LEMMA DrawsKeepShape == DrawSpec => []DrawInv
<1>1. DrawInit => DrawInv
  <2> SUFFICES ASSUME DrawInit PROVE DrawInv
    OBVIOUS
  <2>1. PICK n \in 0..MaxEntries : cfg \in [1..n -> Entry]
    BY DEF DrawInit
  <2>2. cfg \in Seq(Entry)
    BY <2>1, WeightsAssumption
  <2>3. cfg \in Seq(ToSet(cfg))
    BY <2>2 DEF ToSet
  <2>4. \A e \in ToSet(cfg) : e \in Entry
    BY <2>2 DEF ToSet
  <2>5. \A e \in Entry : /\ e.name \in Models /\ e.fallback \in Models \cup {NoName}
                         /\ e.weight \in Int
    BY WeightsAssumption DEF Entry
  <2>6. IsConfig(cfg)
    BY <2>3, <2>4, <2>5 DEF IsConfig
  <2>7. model \in Models /\ pool = RoutesForModel(cfg, model)
    BY DEF DrawInit
  <2>8. /\ pool \in Seq(ToSet(pool))
        /\ \A i \in 1..Len(pool) : pool[i].weight \in Nat \ {0}
    BY <2>6, <2>7, CandidatesType
  <2> QED
    BY <2>6, <2>7, <2>8 DEF DrawInv
<1>2. DrawInv /\ [DrawNext]_drawn => DrawInv'
  <2> SUFFICES ASSUME DrawInv, [DrawNext]_drawn PROVE DrawInv'
    OBVIOUS
  <2>1. ASSUME pool # <<>>, NEW pick \in 0..(TotalWeight(pool) - 1), Draw(pick)
        PROVE  DrawInv'
    <3> DEFINE S == ToSet(pool)   k == WeightedPickIndex(pool, pick)
    <3>1. /\ pool \in Seq(S)
          /\ \A i \in 1..Len(pool) : pool[i].weight \in Nat \ {0}
      BY DEF DrawInv
    <3>2. k \in 1..Len(pool)
      BY <3>1, PickShare
    <3>3. pool' = RemoveAt(pool, k) /\ cfg' = cfg /\ model' = model
      BY <2>1 DEF Draw
    <3> HIDE DEF k
    <3>4. pool' = SubSeq(pool, 1, k - 1) \o SubSeq(pool, k + 1, Len(pool))
      BY <3>3 DEF RemoveAt
    <3> HIDE DEF S
    <3>5. /\ pool' \in Seq(S)
          /\ \A i \in 1..Len(pool') : \E j \in 1..Len(pool) : pool'[i] = pool[j]
      <4> DEFINE front == SubSeq(pool, 1, k - 1)
                 back == SubSeq(pool, k + 1, Len(pool))
      <4>1. Len(pool) \in Nat /\ k \in Nat /\ 1 <= k /\ k <= Len(pool)
        BY <3>1, <3>2
      <4>2. /\ front \in Seq(S) /\ Len(front) = k - 1
            /\ \A i \in 1..Len(front) : front[i] = pool[i]
        BY <3>1, <4>1
      <4>3. /\ back \in Seq(S) /\ Len(back) = Len(pool) - k
            /\ \A i \in 1..Len(back) : back[i] = pool[k + i]
        <5>1. \A i \in k + 1..Len(pool) : pool[i] \in S
          BY <3>1, <4>1
        <5>2. /\ back \in Seq(S)
              /\ Len(back) = IF k + 1 <= Len(pool) THEN Len(pool) - (k + 1) + 1 ELSE 0
              /\ \A i \in 1..Len(pool) - (k + 1) + 1 : back[i] = pool[k + 1 + i - 1]
          BY <4>1, <5>1, SubSeqProperties
        <5> HIDE DEF back
        <5>3. Len(back) = Len(pool) - k
          BY <4>1, <5>2
        <5>4. ASSUME NEW i \in 1..Len(back) PROVE back[i] = pool[k + i]
          <6>1. i \in 1..Len(pool) - (k + 1) + 1 /\ k + 1 + i - 1 = k + i
            BY <4>1, <5>3
          <6> QED
            BY <5>2, <6>1
        <5> QED
          BY <5>2, <5>3, <5>4
      <4> HIDE DEF front, back
      <4>4. /\ front \o back \in Seq(S) /\ Len(front \o back) = Len(pool) - 1
            /\ \A i \in 1..Len(pool) - 1 : (front \o back)[i]
                  = IF i <= k - 1 THEN front[i] ELSE back[i - (k - 1)]
        <5>1. /\ front \o back \in Seq(S)
              /\ Len(front \o back) = Len(front) + Len(back)
              /\ \A i \in 1..Len(front) + Len(back) : (front \o back)[i]
                    = IF i <= Len(front) THEN front[i] ELSE back[i - Len(front)]
          BY <4>2, <4>3, ConcatProperties
        <5>2. Len(front) + Len(back) = Len(pool) - 1
          BY <4>1, <4>2, <4>3
        <5> DEFINE both == front \o back
        <5> HIDE DEF both
        <5>3. \A i \in 1..Len(pool) - 1 :
                 both[i] = IF i <= k - 1 THEN front[i] ELSE back[i - (k - 1)]
          BY <4>2, <5>1, <5>2 DEF both
        <5> QED
          BY <5>1, <5>2, <5>3 DEF both
      <4>5. ASSUME NEW i \in 1..Len(pool) - 1
            PROVE  \E j \in 1..Len(pool) : (front \o back)[i] = pool[j]
        <5>1. CASE i <= k - 1
          BY <4>1, <4>2, <4>4, <5>1
        <5>2. CASE ~ (i <= k - 1)
          <6>1. i - (k - 1) \in 1..Len(back) /\ k + (i - (k - 1)) \in 1..Len(pool)
            BY <4>1, <4>3, <5>2
          <6> QED
            BY <4>3, <4>4, <5>2, <6>1
        <5> QED
          BY <5>1, <5>2
      <4> QED
        BY <3>4, <4>4, <4>5 DEF front, back
    <3>6. \A i \in 1..Len(pool') : pool'[i].weight \in Nat \ {0}
      BY <3>1, <3>5
    <3>7. pool' \in Seq(ToSet(pool'))
      BY <3>5 DEF ToSet
    <3> QED
      BY <3>3, <3>6, <3>7 DEF DrawInv
  <2>2. CASE UNCHANGED drawn
    BY <2>2 DEF DrawInv, drawn
  <2> QED
    BY <2>1, <2>2 DEF DrawNext
<1> QED
  BY <1>1, <1>2, PTL DEF DrawSpec

\* weightedPickIndex: at every stage of the draws without replacement, for
\* every configuration, each candidate is selected by as many of the random
\* numbers as its weight.
THEOREM PicksAreProportional == DrawSpec => []PickProportional
<1>1. DrawInv => PickProportional
  <2> SUFFICES ASSUME DrawInv PROVE PickProportional
    OBVIOUS
  <2>1. /\ pool \in Seq(ToSet(pool))
        /\ \A i \in 1..Len(pool) : pool[i].weight \in Nat \ {0}
    BY DEF DrawInv
  <2>2. \A i \in 1..Len(pool) :
            pool[i].weight
               = Cardinality({pick \in 0..(TotalWeight(pool) - 1) :
                                  WeightedPickIndex(pool, pick) = i})
    BY <2>1, PickShare
  <2>3. DOMAIN pool = 1..Len(pool)
    BY <2>1
  <2>4. \A i \in 1..Len(pool) : pool[i].weight > 0
    BY <2>1
  <2> QED
    BY <2>2, <2>3, <2>4 DEF PickProportional
<1> QED
  BY <1>1, DrawsKeepShape, PTL

\* buildRouteQueue, for every configuration: no breaker twice, every route of
\* the model and of its fallbacks, cyclic or not, and those of a model before
\* those of its fallback.
THEOREM QueuesAreComplete == DrawSpec => []QueueComplete
<1>1. DrawInv => QueueComplete
  <2> SUFFICES ASSUME DrawInv, NEW q \in RouteQueues(cfg, model)
               PROVE  WholeQueue(cfg, model, q)
    BY DEF QueueComplete, WholeQueue
  <2> QED
    BY QueueWhole DEF DrawInv
<1> QED
  BY <1>1, DrawsKeepShape, PTL

\* ensureCircuit creates no breaker while requests reach configured models
\* only, whatever the configuration.
THEOREM ConfiguredRoutesKnown == DrawSpec => []ConfiguredNeverCreates
<1>1. DrawInv => ConfiguredNeverCreates
  BY QueueKnown DEF DrawInv, ConfiguredNeverCreates
<1> QED
  BY <1>1, DrawsKeepShape, PTL

-----------------------------------------------------------------------------
(***************************************************************************)
(* The registry.  Walking says how the locals of a request hang together   *)
(* while it walks its queue:                                               *)
(*   - a request that is past the lookup stands at a candidate with a      *)
(*     client, and has a breaker once it asks or calls;                    *)
(*   - as long as only open breakers were skipped there is no last error   *)
(*     and every candidate so far has a client; otherwise there is one.    *)
(***************************************************************************)
AllQueues == {<<>>} \cup UNION {Queues[m] : m \in Models}

Request == [pc : {"idle", "routing", "creating", "asking", "calling"},
            queue : AllQueues, pos : Nat \ {0}, at : Nat,
            mine : Owners \cup {Nobody}, skipped : Nat,
            lastErr : Errors \cup {NoError}, cancelled : BOOLEAN, reply : Replies]

OnCandidate(x) == x.pos \in 1..Len(x.queue)

Walking(x, now) ==
    /\ x \in Request
    /\ x.pos <= Len(x.queue) + 1
    /\ x.at <= now
    /\ x.skipped <= x.pos - 1
    /\ x.pc \in {"creating", "asking", "calling"} =>
          OnCandidate(x) /\ x.queue[x.pos][1] \in Clients
    /\ x.pc \in {"asking", "calling"} => x.mine \in Owners
    /\ x.skipped = x.pos - 1 =>
          /\ x.lastErr = NoError
          /\ \A i \in 1..x.pos - 1 : x.queue[i][1] \in Clients
    /\ x.skipped # x.pos - 1 => x.lastErr # NoError

Shared == /\ clock \in 0..MaxClock
          /\ up \in BOOLEAN
          /\ circuits \in [Routes -> Owners \cup {Nobody}]
          /\ breaker \in [Routes -> [Owners -> BreakerType]]
          /\ trippedAt \in [Routes -> [Owners -> Nat \cup {ZeroTime}]]
          /\ abandoned \in [HealthyRoutes -> 0..FailureThreshold]

RegistryInv == /\ Shared
               /\ req = [r \in Requests |-> req[r]]
               /\ \A r \in Requests : Walking(req[r], clock)

\* Allow, RecordSuccess and RecordFailure return breakers.
LEMMA MethodsType ==
    ASSUME NEW b \in BreakerType, NEW now \in Nat
    PROVE  /\ NewCircuitBreaker \in BreakerType
           /\ AfterAllow(b, now) \in BreakerType
           /\ AfterSuccess(b) \in BreakerType
           /\ AfterFailure(b, now) \in BreakerType
<1>1. NewCircuitBreaker \in BreakerType
  BY DEF NewCircuitBreaker, BreakerType, ZeroTime
<1>2. AfterSuccess(b) \in BreakerType
  BY DEF AfterSuccess, BreakerType, ZeroTime
<1>3. AfterFailure(b, now) \in BreakerType
  BY DEF AfterFailure, BreakerType
<1> QED
  BY <1>1, <1>2, <1>3 DEF AfterAllow

\* A queue is a sequence of routes that begins with a route of its model.
LEMMA QueuesType ==
    /\ \A m \in Models : \A q \in Queues[m] : q # <<>>
    /\ \A q \in AllQueues : q \in Seq(Routes)
<1>1. ASSUME NEW m \in Models, NEW q \in Queues[m] PROVE q # <<>> /\ q \in Seq(Routes)
  <2>1. q \in RouteQueues(Config, m) /\ IsConfig(Config)
    BY <1>1, RegistryAssumption DEF Queues
  <2>2. /\ q # <<>> /\ IsQueue(Config, ResolveModelChain(Config, m), q)
    BY <2>1, QueueWhole, QueueBuilt DEF WholeQueue
  <2>3. q \in Seq(ToSet(q))
    BY <2>2 DEF IsQueue
  <2>4. ToSet(q) \subseteq Routes
    BY <1>1 DEF Routes
  <2> QED
    BY <2>2, <2>3, <2>4
<1>2. <<>> \in Seq(Routes)
  OBVIOUS
<1> QED
  BY <1>1, <1>2 DEF AllQueues

\* What a step of r leaves of the requests.
LEMMA OneRequestSteps ==
    ASSUME NEW r \in Requests, NEW x, req = [s \in Requests |-> req[s]],
           req' = [req EXCEPT ![r] = x]
    PROVE  /\ req' = [s \in Requests |-> req'[s]]
           /\ req'[r] = x
           /\ \A s \in Requests : s # r => req'[s] = req[s]
OBVIOUS

\* The records that the steps of a request make of it.
LEMMA StaysSound ==
    ASSUME NEW x, NEW now \in Nat, Walking(x, now), NEW b \in BOOLEAN
    PROVE  /\ Walking([x EXCEPT !.cancelled = b], now)
           /\ [x EXCEPT !.cancelled = b].pc = x.pc
           /\ Walking(x, now + 1)
<1>1. x.queue \in Seq(Routes)
  BY QueuesType DEF Walking, Request
<1> HIDE DEF AllQueues
<1> QED
  BY <1>1 DEF Walking, Request, OnCandidate

\* Idle is what a slot holds between two requests.
LEMMA SomethingIdle == ASSUME NEW now \in Nat PROVE Walking(Idle, now)
<1>1. [kind |-> "none"] \in Replies
  BY DEF Replies
<1>2. <<>> \in AllQueues
  BY DEF AllQueues
<1> HIDE DEF AllQueues, Errors, Replies
<1>3. /\ Idle \in Request /\ Idle.pc = "idle" /\ Idle.queue = <<>>
      /\ Idle.pos = 1 /\ Idle.at = 0 /\ Idle.skipped = 0 /\ Idle.lastErr = NoError
  BY <1>1, <1>2 DEF Idle, Request
<1> QED
  BY <1>3 DEF Walking

\* A request that is answered is idle.
LEMMA AnsweredSound ==
    ASSUME NEW now \in Nat, NEW e \in Replies
    PROVE  Walking([Idle EXCEPT !.reply = e], now)
<1> DEFINE y == [Idle EXCEPT !.reply = e]
<1>1. Idle \in Request /\ Walking(Idle, now)
  BY SomethingIdle DEF Walking
<1> HIDE DEF AllQueues, Errors, Replies
<1>2. /\ y \in Request /\ y.pc = Idle.pc /\ y.queue = Idle.queue /\ y.pos = Idle.pos
      /\ y.at = Idle.at /\ y.mine = Idle.mine /\ y.skipped = Idle.skipped
      /\ y.lastErr = Idle.lastErr
  BY <1>1 DEF Request
<1> HIDE DEF y
<1>3. Walking(y, now)
  BY <1>1, <1>2 DEF Walking, OnCandidate
<1> QED
  BY <1>3 DEF y

\* A request that arrives begins its walk.
LEMMA ArrivedSound ==
    ASSUME NEW now \in Nat, NEW m \in Models, NEW q \in Queues[m]
    PROVE  Walking([Idle EXCEPT !.pc = "routing", !.queue = q], now)
<1> DEFINE x == [Idle EXCEPT !.pc = "routing", !.queue = q]
<1>1. q \in AllQueues
  BY DEF AllQueues
<1>2. q \in Seq(Routes)
  BY <1>1, QueuesType
<1>3. Idle \in Request /\ Idle.pos = 1 /\ Idle.at = 0 /\ Idle.skipped = 0
      /\ Idle.lastErr = NoError
  BY SomethingIdle DEF Walking, Idle
<1> HIDE DEF AllQueues, Errors, Replies
<1>4. /\ x \in Request /\ x.pc = "routing" /\ x.queue = q /\ x.pos = 1
      /\ x.at = 0 /\ x.skipped = 0 /\ x.lastErr = NoError
  BY <1>1, <1>3 DEF Request
<1> HIDE DEF x
<1>5. Walking(x, now)
  BY <1>2, <1>4 DEF Walking
<1> QED
  BY <1>5 DEF x

LEMMA NextSound ==
    ASSUME NEW x, NEW now \in Nat, Walking(x, now), OnCandidate(x),
           NEW skipped, NEW lastErr,
           \/ skipped = x.skipped /\ lastErr \in Errors
           \/ /\ skipped = x.skipped + 1 /\ lastErr = x.lastErr
              /\ x.queue[x.pos][1] \in Clients
    PROVE  Walking([x EXCEPT !.pc = "routing", !.pos = x.pos + 1, !.at = 0,
                             !.mine = Nobody, !.skipped = skipped,
                             !.lastErr = lastErr], now)
<1> DEFINE y == [x EXCEPT !.pc = "routing", !.pos = x.pos + 1, !.at = 0,
                          !.mine = Nobody, !.skipped = skipped, !.lastErr = lastErr]
<1>1. x \in Request /\ x.queue \in Seq(Routes)
  BY QueuesType DEF Walking, Request
<1>2. skipped \in Nat /\ lastErr \in Errors \cup {NoError}
  BY <1>1 DEF Request
<1>3. /\ y \in Request /\ y.pc = "routing" /\ y.queue = x.queue
      /\ y.pos = x.pos + 1 /\ y.at = 0 /\ y.skipped = skipped /\ y.lastErr = lastErr
  <2> HIDE DEF AllQueues, Owners, Errors, Replies
  <2> DEFINE p == x.pos + 1
             z == [x EXCEPT !.pc = "routing", !.pos = p, !.at = 0,
                            !.mine = Nobody, !.skipped = skipped, !.lastErr = lastErr]
  <2>1. p \in Nat \ {0} /\ x.cancelled \in BOOLEAN
    BY <1>1 DEF Request
  <2> HIDE DEF p
  <2>2. /\ z.pc = "routing" /\ z.queue = x.queue /\ z.pos = p /\ z.at = 0
        /\ z.mine = Nobody /\ z.skipped = skipped /\ z.lastErr = lastErr
    BY <1>1 DEF Request
  <2>3. z \in Request
    BY <1>1, <1>2, <2>1 DEF Request
  <2> QED
    BY <2>2, <2>3 DEF p
<1>4. /\ x.pos \in Nat /\ x.skipped \in Nat /\ x.pos <= Len(x.queue)
      /\ Len(x.queue) \in Nat
  BY <1>1 DEF Request, OnCandidate
<1>5. /\ x.skipped <= x.pos - 1
      /\ x.skipped = x.pos - 1 =>
            x.lastErr = NoError /\ \A i \in 1..x.pos - 1 : x.queue[i][1] \in Clients
      /\ x.skipped # x.pos - 1 => x.lastErr # NoError
  BY DEF Walking
<1> HIDE DEF y
<1>6. y.skipped <= y.pos - 1 /\ y.pos <= Len(y.queue) + 1 /\ y.at <= now
  BY <1>3, <1>4, <1>5
<1>7. CASE skipped = x.skipped /\ lastErr \in Errors
  <2>1. y.skipped # y.pos - 1 /\ y.lastErr # NoError
    BY <1>3, <1>4, <1>5, <1>7, NoErrorAssumption
  <2> QED
    <3>1. Walking(y, now)
      BY <1>3, <1>6, <2>1 DEF Walking
    <3> QED
      BY <3>1 DEF y
<1>8. CASE /\ skipped = x.skipped + 1 /\ lastErr = x.lastErr
           /\ x.queue[x.pos][1] \in Clients
  <2>1. y.skipped = y.pos - 1 =>
            y.lastErr = NoError /\ \A i \in 1..y.pos - 1 : y.queue[i][1] \in Clients
    <3> SUFFICES ASSUME y.skipped = y.pos - 1
                 PROVE  y.lastErr = NoError
                        /\ \A i \in 1..x.pos : x.queue[i][1] \in Clients
      BY <1>3, <1>4
    <3>1. x.skipped = x.pos - 1
      BY <1>3, <1>4, <1>8
    <3>2. \A i \in 1..x.pos : i \in 1..x.pos - 1 \/ i = x.pos
      BY <1>4
    <3> QED
      BY <1>3, <1>5, <1>8, <3>1, <3>2
  <2>2. y.skipped # y.pos - 1 => y.lastErr # NoError
    BY <1>3, <1>4, <1>5, <1>8
  <2> QED
    <3>1. Walking(y, now)
      BY <1>3, <1>6, <2>1, <2>2 DEF Walking
    <3> QED
      BY <3>1 DEF y
<1> QED
  BY <1>7, <1>8 DEF y

LEMMA AskSound ==
    ASSUME NEW x, NEW now \in Nat, Walking(x, now), OnCandidate(x),
           x.queue[x.pos][1] \in Clients, NEW owner \in Owners
    PROVE  /\ Walking([x EXCEPT !.pc = "asking", !.mine = owner, !.at = now], now)
           /\ Walking([x EXCEPT !.pc = "creating"], now)
           /\ x.mine \in Owners => Walking([x EXCEPT !.pc = "calling"], now)
<1> DEFINE y == [x EXCEPT !.pc = "asking", !.mine = owner, !.at = now]
           z == [x EXCEPT !.pc = "creating"]
           u == [x EXCEPT !.pc = "calling"]
<1>1. x \in Request
  BY DEF Walking
<1> HIDE DEF AllQueues, Owners, Errors, Replies
<1>2. /\ y \in Request /\ y.pc = "asking" /\ y.queue = x.queue /\ y.pos = x.pos
      /\ y.at = now /\ y.mine = owner /\ y.skipped = x.skipped
      /\ y.lastErr = x.lastErr
  BY <1>1 DEF Request
<1>3. /\ z \in Request /\ z.pc = "creating" /\ z.queue = x.queue /\ z.pos = x.pos
      /\ z.at = x.at /\ z.mine = x.mine /\ z.skipped = x.skipped
      /\ z.lastErr = x.lastErr
  BY <1>1 DEF Request
<1>4. /\ u \in Request /\ u.pc = "calling" /\ u.queue = x.queue /\ u.pos = x.pos
      /\ u.at = x.at /\ u.mine = x.mine /\ u.skipped = x.skipped
      /\ u.lastErr = x.lastErr
  BY <1>1 DEF Request
<1> HIDE DEF y, z, u
<1>5. Walking(y, now)
  BY <1>2 DEF Walking, OnCandidate
<1>6. Walking(z, now)
  BY <1>3 DEF Walking, OnCandidate
<1>7. x.mine \in Owners => Walking(u, now)
  BY <1>4 DEF Walking, OnCandidate
<1> QED
  BY <1>5, <1>6, <1>7 DEF y, z, u

\* What RecordSuccess, RecordFailure and Allow write.
LEMMA BreakerSet ==
    ASSUME Shared, NEW r \in Requests, Route(r) \in Routes, req[r].mine \in Owners,
           NEW b \in BreakerType, NEW t \in Nat \cup {ZeroTime}, SetBreaker(r, b, t)
    PROVE  /\ breaker' \in [Routes -> [Owners -> BreakerType]]
           /\ trippedAt' \in [Routes -> [Owners -> Nat \cup {ZeroTime}]]
           /\ \A k \in Routes : \A o \in Owners :
                 IF k = Route(r) /\ o = req[r].mine
                 THEN breaker'[k][o] = b /\ trippedAt'[k][o] = t
                 ELSE breaker'[k][o] = breaker[k][o] /\ trippedAt'[k][o] = trippedAt[k][o]
<1> DEFINE k == Route(r)   o == req[r].mine
<1>1. /\ breaker \in [Routes -> [Owners -> BreakerType]]
      /\ trippedAt \in [Routes -> [Owners -> Nat \cup {ZeroTime}]]
  BY DEF Shared
<1>2. /\ breaker' = [breaker EXCEPT ![k][o] = b]
      /\ trippedAt' = [trippedAt EXCEPT ![k][o] = t]
  BY DEF SetBreaker
<1>3. k \in Routes /\ o \in Owners
  OBVIOUS
<1> HIDE DEF k, o, Routes, Owners
<1>4. /\ breaker' \in [Routes -> [Owners -> BreakerType]]
      /\ trippedAt' \in [Routes -> [Owners -> Nat \cup {ZeroTime}]]
  BY <1>1, <1>2, <1>3
<1>5. \A l \in Routes : \A p \in Owners :
         IF l = k /\ p = o
         THEN breaker'[l][p] = b /\ trippedAt'[l][p] = t
         ELSE breaker'[l][p] = breaker[l][p] /\ trippedAt'[l][p] = trippedAt[l][p]
  BY <1>1, <1>2, <1>3
<1> QED
  BY <1>4, <1>5 DEF k, o

\* ReportFailure and ReportSuccess leave a breaker.
LEMMA ReportSets ==
    ASSUME Shared, clock \in Nat, NEW r \in Requests, Route(r) \in Routes,
           req[r].mine \in Owners, req[r].at \in Nat, Mine(r) \in BreakerType,
           trippedAt[Route(r)][req[r].mine] \in Nat \cup {ZeroTime},
           NEW err, Report(r, err)
    PROVE  /\ breaker' \in [Routes -> [Owners -> BreakerType]]
           /\ trippedAt' \in [Routes -> [Owners -> Nat \cup {ZeroTime}]]
           /\ \E b \in BreakerType : \E t \in Nat \cup {ZeroTime} : SetBreaker(r, b, t)
<1> DEFINE old == Mine(r)
           b == IF shouldTripCircuit(err) THEN AfterFailure(old, req[r].at)
                                          ELSE AfterSuccess(old)
           t == CASE b.openedAt = ZeroTime -> ZeroTime
                  [] old.openedAt = ZeroTime /\ b.openedAt # ZeroTime -> clock
                  [] OTHER -> trippedAt[Route(r)][req[r].mine]
<1>1. b \in BreakerType
  BY MethodsType
<1>2. SetBreaker(r, b, t)
  BY DEF Report
<1> HIDE DEF b, old
<1>3. t \in Nat \cup {ZeroTime}
  OBVIOUS
<1> HIDE DEF t
<1> QED
  BY <1>1, <1>2, <1>3, BreakerSet

\* A step of one request that keeps the others, the clock and the types of what
\* they share.
LEMMA OneMoves ==
    ASSUME RegistryInv, Shared', clock' = clock, NEW r \in Requests, NEW x,
           Walking(x, clock), req' = [req EXCEPT ![r] = x]
    PROVE  RegistryInv'
<1>1. /\ req' = [s \in Requests |-> req'[s]] /\ req'[r] = x
      /\ \A s \in Requests : s # r => req'[s] = req[s]
  BY OneRequestSteps DEF RegistryInv
<1>2. \A s \in Requests : Walking(req'[s], clock)
  BY <1>1 DEF RegistryInv
<1> QED
  BY <1>1, <1>2 DEF RegistryInv

\* Where a request stands when it is past the lookup, and whose breaker it has.
LEMMA Standing ==
    ASSUME RegistryInv, NEW r \in Requests
    PROVE  /\ clock \in Nat
           /\ req[r].at \in Nat
           /\ More(r) => OnCandidate(req[r]) /\ Route(r) \in Routes
           /\ req[r].pc \in {"creating", "asking", "calling"} =>
                 /\ OnCandidate(req[r]) /\ Route(r) \in Routes
                 /\ Route(r)[1] \in Clients
           /\ req[r].pc \in {"asking", "calling"} =>
                 /\ req[r].mine \in Owners
                 /\ Mine(r) \in BreakerType
                 /\ trippedAt[Route(r)][req[r].mine] \in Nat \cup {ZeroTime}
<1> DEFINE x == req[r]
<1>1. Walking(x, clock) /\ Shared /\ clock \in Nat
  BY RegistryAssumption DEF RegistryInv, Shared
<1>2. x \in Request
  BY <1>1 DEF Walking
<1>3. x.queue \in Seq(Routes) /\ x.pos \in Nat \ {0} /\ x.at \in Nat
  BY <1>2, QueuesType DEF Request
<1> HIDE DEF x
<1>4. OnCandidate(x) => x.queue[x.pos] \in Routes
  BY <1>3 DEF OnCandidate
<1>5. x.pos <= Len(x.queue) => OnCandidate(x)
  BY <1>3 DEF OnCandidate
<1>6. x.pc \in {"creating", "asking", "calling"} =>
         OnCandidate(x) /\ x.queue[x.pos][1] \in Clients
  BY <1>1 DEF Walking
<1>7. x.pc \in {"asking", "calling"} => x.mine \in Owners
  BY <1>1 DEF Walking
<1>8. x.pc \in {"asking", "calling"} =>
         /\ breaker[x.queue[x.pos]][x.mine] \in BreakerType
         /\ trippedAt[x.queue[x.pos]][x.mine] \in Nat \cup {ZeroTime}
  BY <1>1, <1>4, <1>6, <1>7 DEF Shared
<1> QED
  BY <1>1, <1>3, <1>4, <1>5, <1>6, <1>7, <1>8 DEF x, Route, More, Mine

\* What a request that has no candidate left answers.
LEMMA GiveUpReplies ==
    ASSUME RegistryInv, NEW r \in Requests, GiveUp(r)
    PROVE  \E e \in Replies : Answer(r, e)
<1>1. req[r].lastErr \in Errors \cup {NoError}
  BY DEF RegistryInv, Walking, Request
<1>2. [kind |-> "circuitOpen"] \in Replies /\ [kind |-> "allFailed"] \in Replies
  BY DEF Replies
<1>3. \A err \in Errors : [kind |-> "error", err |-> err] \in Replies
  BY DEF Replies
<1>4. CASE req[r].skipped = Len(req[r].queue)
  BY <1>2, <1>4 DEF GiveUp
<1>5. CASE req[r].skipped # Len(req[r].queue) /\ req[r].lastErr # NoError
  <2>1. req[r].lastErr \in Errors
    BY <1>1, <1>5
  <2> QED
    BY <1>3, <1>5, <2>1 DEF GiveUp
<1>6. CASE req[r].skipped # Len(req[r].queue) /\ req[r].lastErr = NoError
  BY <1>2, <1>6 DEF GiveUp
<1> QED
  BY <1>4, <1>5, <1>6

LEMMA RegistryInit == Init => RegistryInv
<1> SUFFICES ASSUME Init PROVE RegistryInv
  OBVIOUS
<1>1. Shared
  <2>1. clock \in 0..MaxClock /\ up \in BOOLEAN
    BY RegistryAssumption DEF Init
  <2>2. NewCircuitBreaker \in BreakerType /\ ZeroTime \in Nat \cup {ZeroTime}
    BY DEF NewCircuitBreaker, BreakerType
  <2>3. Boot \in Owners
    BY DEF Owners
  <2> HIDE DEF Routes, Owners
  <2>4. circuits \in [Routes -> Owners \cup {Nobody}]
    BY <2>3 DEF Init
  <2>5. /\ breaker \in [Routes -> [Owners -> BreakerType]]
        /\ trippedAt \in [Routes -> [Owners -> Nat \cup {ZeroTime}]]
    BY <2>2 DEF Init
  <2>6. abandoned \in [HealthyRoutes -> 0..FailureThreshold]
    BY BreakerAssumption DEF Init
  <2> QED
    BY <2>1, <2>4, <2>5, <2>6 DEF Shared
<1>2. Walking(Idle, 0)
  BY SomethingIdle
<1>3. clock = 0 /\ req = [r \in Requests |-> Idle]
  BY DEF Init
<1> QED
  BY <1>1, <1>2, <1>3 DEF RegistryInv

LEMMA RegistryNext == RegistryInv /\ [Next]_vars => RegistryInv'
<1> SUFFICES ASSUME RegistryInv, [Next]_vars PROVE RegistryInv'
  OBVIOUS
<1> USE DEF RegistryInv
<1>0. /\ Shared /\ clock \in Nat
      /\ circuits \in [Routes -> Owners \cup {Nobody}]
  BY RegistryAssumption DEF Shared
<1>1. CASE Tick
  <2>1. Shared' /\ clock' = clock + 1 /\ req' = req
    BY <1>0, <1>1, RegistryAssumption DEF Tick, Shared
  <2>2. \A r \in Requests : Walking(req[r], clock + 1)
    BY <1>0, StaysSound
  <2> QED
    BY <2>1, <2>2
<1>2. ASSUME NEW r \in Requests, Arrive(r) PROVE RegistryInv'
  <2>1. Shared' /\ clock' = clock
    BY <1>0, <1>2 DEF Arrive, Shared
  <2>2. PICK m \in Models : \E q \in Queues[m] :
          req' = [req EXCEPT ![r] = [Idle EXCEPT !.pc = "routing", !.queue = q]]
    BY <1>2 DEF Arrive
  <2>3. PICK q \in Queues[m] :
          req' = [req EXCEPT ![r] = [Idle EXCEPT !.pc = "routing", !.queue = q]]
    BY <2>2
  <2>4. Walking([Idle EXCEPT !.pc = "routing", !.queue = q], clock)
    BY <1>0, ArrivedSound
  <2> QED
    BY <2>1, <2>3, <2>4, OneMoves
<1>3. ASSUME NEW r \in Requests, Disconnect(r) PROVE RegistryInv'
  <2> DEFINE x == [req[r] EXCEPT !.cancelled = TRUE]
  <2>1. Shared' /\ clock' = clock
    BY <1>0, <1>3 DEF Disconnect, Shared
  <2>2. req' = [req EXCEPT ![r] = x]
    BY <1>3 DEF Disconnect
  <2>3. Walking(x, clock)
    BY <1>0, StaysSound
  <2> HIDE DEF x
  <2> QED
    BY <2>1, <2>2, <2>3, OneMoves
<1>4. ASSUME NEW r \in Requests, MapFault(r) PROVE RegistryInv'
  <2>1. Shared' /\ clock' = clock
    BY <1>0, <1>4 DEF MapFault, Shared
  <2>2. req' = req
    BY <1>4 DEF MapFault
  <2> QED
    BY <2>1, <2>2
<1>5. ASSUME NEW r \in Requests, SkipNoClient(r) PROVE RegistryInv'
  <2> DEFINE x == [req[r] EXCEPT !.pc = "routing", !.pos = req[r].pos + 1, !.at = 0,
                                 !.mine = Nobody, !.skipped = req[r].skipped,
                                 !.lastErr = NoClient]
  <2>1. Shared' /\ clock' = clock
    BY <1>0, <1>5 DEF SkipNoClient, Shared
  <2>2. req' = [req EXCEPT ![r] = x]
    BY <1>5 DEF SkipNoClient, NextCandidate, GoTo
  <2>3. Walking(x, clock)
    <3>1. NoClient \in Errors
      BY DEF Errors
    <3>2. OnCandidate(req[r]) /\ Walking(req[r], clock)
      BY <1>5, Standing DEF SkipNoClient
    <3> QED
      BY <1>0, <3>1, <3>2, NextSound
  <2> HIDE DEF x
  <2> QED
    BY <2>1, <2>2, <2>3, OneMoves
<1>6. ASSUME NEW r \in Requests, Lookup(r) PROVE RegistryInv'
  <2>1. Shared' /\ clock' = clock
    BY <1>0, <1>6 DEF Lookup, Shared
  <2>2. /\ OnCandidate(req[r]) /\ Route(r) \in Routes /\ Walking(req[r], clock)
        /\ req[r].queue[req[r].pos][1] \in Clients
    BY <1>6, Standing DEF Lookup, Route
  <2>3. CASE circuits[Route(r)] # Nobody
    <3> DEFINE owner == circuits[Route(r)]
               x == [req[r] EXCEPT !.pc = "asking", !.mine = owner, !.at = clock]
    <3>1. owner \in Owners
      BY <1>0, <2>2, <2>3
    <3>2. req' = [req EXCEPT ![r] = x]
      BY <1>6, <2>3 DEF Lookup, Ask
    <3> HIDE DEF owner
    <3>3. Walking(x, clock)
      BY <1>0, <2>2, <3>1, AskSound
    <3> HIDE DEF x
    <3> QED
      BY <2>1, <3>2, <3>3, OneMoves
  <2>4. CASE ~ (circuits[Route(r)] # Nobody)
    <3> DEFINE x == [req[r] EXCEPT !.pc = "creating"]
    <3>1. Boot \in Owners
      BY DEF Owners
    <3>2. req' = [req EXCEPT ![r] = x]
      BY <1>6, <2>4 DEF Lookup
    <3>3. Walking(x, clock)
      BY <1>0, <2>2, <3>1, AskSound
    <3> HIDE DEF x
    <3> QED
      BY <2>1, <3>2, <3>3, OneMoves
  <2> QED
    BY <2>3, <2>4
<1>7. ASSUME NEW r \in Requests, Create(r) PROVE RegistryInv'
  <2> DEFINE x == [req[r] EXCEPT !.pc = "asking", !.mine = r, !.at = clock]
  <2>1. /\ OnCandidate(req[r]) /\ Route(r) \in Routes /\ Walking(req[r], clock)
        /\ req[r].queue[req[r].pos][1] \in Clients
    BY <1>7, Standing DEF Create, Running, Route
  <2>2. r \in Owners
    BY DEF Owners
  <2>3. Shared' /\ clock' = clock
    <3>1. circuits' = [circuits EXCEPT ![Route(r)] = r]
      BY <1>7 DEF Create
    <3> HIDE DEF Routes, Owners
    <3>2. circuits' \in [Routes -> Owners \cup {Nobody}]
      BY <1>0, <2>2, <3>1
    <3> QED
      BY <1>0, <1>7, <3>2 DEF Create, Shared
  <2>4. req' = [req EXCEPT ![r] = x]
    BY <1>7 DEF Create, Ask
  <2>5. Walking(x, clock)
    BY <1>0, <2>1, <2>2, AskSound
  <2> HIDE DEF x
  <2> QED
    BY <2>3, <2>4, <2>5, OneMoves
<1>8. ASSUME NEW r \in Requests, Admit(r) PROVE RegistryInv'
  <2> DEFINE x == [req[r] EXCEPT !.pc = "calling"]
             b == AfterAllow(Mine(r), req[r].at)
             t == IF b.openedAt = ZeroTime THEN ZeroTime
                  ELSE trippedAt[Route(r)][req[r].mine]
  <2>1. /\ OnCandidate(req[r]) /\ Route(r) \in Routes /\ Walking(req[r], clock)
        /\ req[r].queue[req[r].pos][1] \in Clients
        /\ req[r].mine \in Owners /\ req[r].at \in Nat /\ Mine(r) \in BreakerType
        /\ trippedAt[Route(r)][req[r].mine] \in Nat \cup {ZeroTime}
    BY <1>8, Standing DEF Admit, Running, Route
  <2>2. b \in BreakerType /\ t \in Nat \cup {ZeroTime}
    BY <2>1, MethodsType
  <2>3. SetBreaker(r, b, t)
    BY <1>8 DEF Admit
  <2> HIDE DEF b, t
  <2>4. Shared' /\ clock' = clock
    BY <1>0, <1>8, <2>1, <2>2, <2>3, BreakerSet DEF Admit, Shared
  <2>5. req' = [req EXCEPT ![r] = x]
    BY <1>8 DEF Admit
  <2>6. Walking(x, clock)
    BY <1>0, <2>1, AskSound
  <2> HIDE DEF x
  <2> QED
    BY <2>4, <2>5, <2>6, OneMoves
<1>9. ASSUME NEW r \in Requests, SkipOpen(r) PROVE RegistryInv'
  <2> DEFINE x == [req[r] EXCEPT !.pc = "routing", !.pos = req[r].pos + 1, !.at = 0,
                                 !.mine = Nobody, !.skipped = req[r].skipped + 1,
                                 !.lastErr = req[r].lastErr]
  <2>1. Shared' /\ clock' = clock
    BY <1>0, <1>9 DEF SkipOpen, Shared
  <2>2. req' = [req EXCEPT ![r] = x]
    BY <1>9 DEF SkipOpen, NextCandidate, GoTo
  <2>3. Walking(x, clock)
    <3>1. /\ OnCandidate(req[r]) /\ Walking(req[r], clock)
          /\ req[r].queue[req[r].pos][1] \in Clients
      BY <1>9, Standing DEF SkipOpen, Running, Route
    <3> QED
      BY <1>0, <3>1, NextSound
  <2> HIDE DEF x
  <2> QED
    BY <2>1, <2>2, <2>3, OneMoves
<1>10. ASSUME NEW r \in Requests, CallSucceeds(r) PROVE RegistryInv'
  <2> DEFINE x == [Idle EXCEPT !.reply = [kind |-> "ok"]]
  <2>1. /\ Route(r) \in Routes /\ req[r].mine \in Owners /\ req[r].at \in Nat
        /\ Mine(r) \in BreakerType
    BY <1>10, Standing DEF CallSucceeds, Running
  <2>2. AfterSuccess(Mine(r)) \in BreakerType /\ ZeroTime \in Nat \cup {ZeroTime}
    BY <2>1, MethodsType
  <2>3. Shared' /\ clock' = clock
    BY <1>0, <1>10, <2>1, <2>2, BreakerSet DEF CallSucceeds, Shared
  <2>4. req' = [req EXCEPT ![r] = x]
    BY <1>10 DEF CallSucceeds, Answer
  <2>5. Walking(x, clock)
    <3>1. [kind |-> "ok"] \in Replies
      BY DEF Replies
    <3> QED
      BY <1>0, <3>1, AnsweredSound
  <2> HIDE DEF x
  <2> QED
    BY <2>3, <2>4, <2>5, OneMoves
<1>11. ASSUME NEW r \in Requests, CallFails(r) PROVE RegistryInv'
  <2>1. PICK err \in Errors :
          /\ Report(r, err) /\ NoteFailure(r)
          /\ IF shouldFallback(err) THEN NextCandidate(r, req[r].skipped, err)
                                    ELSE Answer(r, [kind |-> "error", err |-> err])
    BY <1>11 DEF CallFails, Errors
  <2>2. /\ OnCandidate(req[r]) /\ Route(r) \in Routes /\ Walking(req[r], clock)
        /\ req[r].mine \in Owners /\ req[r].at \in Nat /\ Mine(r) \in BreakerType
        /\ trippedAt[Route(r)][req[r].mine] \in Nat \cup {ZeroTime}
    BY <1>11, Standing DEF CallFails, Running
  <2>3. Shared' /\ clock' = clock
    <3>1. abandoned' \in [HealthyRoutes -> 0..FailureThreshold]
      BY <1>0, <2>1, BreakerAssumption DEF Shared, NoteFailure
    <3> QED
      BY <1>0, <1>11, <2>1, <2>2, <3>1, ReportSets DEF CallFails, Shared
  <2>4. CASE shouldFallback(err)
    <3> DEFINE x == [req[r] EXCEPT !.pc = "routing", !.pos = req[r].pos + 1,
                                   !.at = 0, !.mine = Nobody,
                                   !.skipped = req[r].skipped, !.lastErr = err]
    <3>1. req' = [req EXCEPT ![r] = x]
      BY <2>1, <2>4 DEF NextCandidate, GoTo
    <3>2. Walking(x, clock)
      BY <1>0, <2>2, NextSound
    <3> HIDE DEF x
    <3> QED
      BY <2>3, <3>1, <3>2, OneMoves
  <2>5. CASE ~ shouldFallback(err)
    <3> DEFINE e == [kind |-> "error", err |-> err]
               x == [Idle EXCEPT !.reply = e]
    <3>1. req' = [req EXCEPT ![r] = x]
      BY <2>1, <2>5 DEF Answer
    <3>2. e \in Replies
      BY DEF Replies
    <3>3. Walking(x, clock)
      BY <1>0, <3>2, AnsweredSound
    <3> HIDE DEF x
    <3> QED
      BY <2>3, <3>1, <3>3, OneMoves
  <2> QED
    BY <2>4, <2>5
<1>12. ASSUME NEW r \in Requests, GiveUp(r) PROVE RegistryInv'
  <2>1. Shared' /\ clock' = clock
    BY <1>0, <1>12 DEF GiveUp, Shared
  <2>2. PICK e \in Replies : Answer(r, e)
    BY <1>12, GiveUpReplies
  <2> DEFINE x == [Idle EXCEPT !.reply = e]
  <2>3. req' = [req EXCEPT ![r] = x]
    BY <2>2 DEF Answer
  <2>4. Walking(x, clock)
    BY <1>0, AnsweredSound
  <2> HIDE DEF x
  <2> QED
    BY <2>1, <2>3, <2>4, OneMoves
<1>13. CASE UNCHANGED vars
  BY <1>0, <1>13 DEF vars, Shared
<1> QED
  BY <1>1, <1>2, <1>3, <1>4, <1>5, <1>6, <1>7, <1>8, <1>9, <1>10, <1>11, <1>12,
     <1>13 DEF Next, Step

LEMMA RegistryInvariant == Spec => []RegistryInv
BY RegistryInit, RegistryNext, PTL DEF Spec

\* NewRegistry, ensureCircuit and ChatCompletion, for every configuration and
\* any number of requests at once, keep to the types of their state.
THEOREM RegistryTyped == Spec => []TypeOK
<1>1. RegistryInv => TypeOK
  <2> SUFFICES ASSUME RegistryInv PROVE TypeOK
    OBVIOUS
  <2>1. /\ Shared /\ clock \in Nat
    BY RegistryAssumption DEF RegistryInv, Shared
  <2>2. ASSUME NEW r \in Requests
        PROVE  /\ req[r].pc \in {"idle", "routing", "creating", "asking", "calling"}
               /\ req[r].queue \in {<<>>} \cup UNION {Queues[m] : m \in Models}
               /\ req[r].pos \in 1..(Len(req[r].queue) + 1)
               /\ req[r].at \in 0..clock
               /\ req[r].mine \in Owners \cup {Nobody}
               /\ req[r].skipped \in 0..(req[r].pos - 1)
               /\ req[r].lastErr \in Errors \cup {NoError}
               /\ req[r].cancelled \in BOOLEAN
               /\ req[r].reply \in Replies
    <3> DEFINE x == req[r]
    <3>1. Walking(x, clock) /\ x \in Request
      BY DEF RegistryInv, Walking
    <3>2. x.queue \in AllQueues /\ x.queue \in Seq(Routes)
      BY <3>1, QueuesType DEF Request
    <3> HIDE DEF x
    <3>3. /\ x.pc \in {"idle", "routing", "creating", "asking", "calling"}
          /\ x.pos \in Nat \ {0} /\ x.at \in Nat /\ x.skipped \in Nat
          /\ x.mine \in Owners \cup {Nobody} /\ x.lastErr \in Errors \cup {NoError}
          /\ x.cancelled \in BOOLEAN /\ x.reply \in Replies
      BY <3>1 DEF Request
    <3>4. x.pos <= Len(x.queue) + 1 /\ x.at <= clock /\ x.skipped <= x.pos - 1
      BY <3>1 DEF Walking
    <3>5. /\ x.pos \in 1..(Len(x.queue) + 1) /\ x.at \in 0..clock
          /\ x.skipped \in 0..(x.pos - 1)
      BY <2>1, <3>2, <3>3, <3>4
    <3> QED
      BY <3>2, <3>3, <3>5 DEF x, AllQueues
  <2> QED
    BY <2>1, <2>2 DEF TypeOK, Shared
<1> QED
  BY <1>1, RegistryInvariant, PTL

\* ChatCompletion answers "all candidate routes are circuit-open" only when no
\* call was made and no client was missing, however the breakers change while
\* the queue is walked, and never reaches "all routes failed".
THEOREM RepliesAreExplained == Spec => ReplyExplained
<1>1. RegistryInv => \A r \in Requests : GiveUp(r) =>
          /\ req'[r].reply.kind # "allFailed"
          /\ req'[r].reply.kind = "circuitOpen" =>
                /\ \A i \in DOMAIN req[r].queue : req[r].queue[i][1] \in Clients
                /\ req[r].lastErr = NoError
  <2> SUFFICES ASSUME RegistryInv, NEW r \in Requests, GiveUp(r)
               PROVE  /\ req'[r].reply.kind # "allFailed"
                      /\ req'[r].reply.kind = "circuitOpen" =>
                            /\ \A i \in DOMAIN req[r].queue :
                                  req[r].queue[i][1] \in Clients
                            /\ req[r].lastErr = NoError
    OBVIOUS
  <2> DEFINE x == req[r]
             e == IF x.skipped = Len(x.queue) THEN [kind |-> "circuitOpen"]
                  ELSE IF x.lastErr # NoError
                       THEN [kind |-> "error", err |-> x.lastErr]
                       ELSE [kind |-> "allFailed"]
  <2>1. /\ Walking(x, clock) /\ req = [s \in Requests |-> req[s]]
        /\ ~ (x.pos <= Len(x.queue)) /\ req' = [req EXCEPT ![r] = [Idle EXCEPT !.reply = e]]
    BY DEF RegistryInv, GiveUp, Answer, More
  <2> HIDE DEF e
  <2>2. req'[r] = [Idle EXCEPT !.reply = e]
    BY <2>1
  <2>3. req'[r].reply = e
    BY <2>2 DEF Idle
  <2> HIDE DEF x
  <2>4. /\ x.queue \in Seq(Routes) /\ x.pos \in Nat \ {0} /\ x.skipped \in Nat
    BY <2>1, QueuesType DEF Walking, Request
  <2>5. x.pos <= Len(x.queue) + 1 /\ x.skipped <= x.pos - 1
    BY <2>1 DEF Walking
  <2>6. x.pos = Len(x.queue) + 1 /\ x.pos - 1 = Len(x.queue)
    BY <2>1, <2>4, <2>5
  <2>7. CASE x.skipped = Len(x.queue)
    <3>1. /\ x.lastErr = NoError
          /\ \A i \in 1..Len(x.queue) : x.queue[i][1] \in Clients
      BY <2>1, <2>6, <2>7 DEF Walking
    <3>2. DOMAIN x.queue = 1..Len(x.queue)
      BY <2>4
    <3>3. e = [kind |-> "circuitOpen"]
      BY <2>7 DEF e
    <3> QED
      BY <2>3, <3>1, <3>2, <3>3 DEF x
  <2>8. CASE x.skipped # Len(x.queue)
    <3>1. x.lastErr # NoError
      BY <2>1, <2>6, <2>8 DEF Walking
    <3>2. e = [kind |-> "error", err |-> x.lastErr]
      BY <2>8, <3>1 DEF e
    <3> QED
      BY <2>3, <3>2 DEF x
  <2> QED
    BY <2>7, <2>8
<1>2. RegistryInv /\ [Next]_vars =>
        [\A r \in Requests : GiveUp(r) =>
          /\ req'[r].reply.kind # "allFailed"
          /\ req'[r].reply.kind = "circuitOpen" =>
                /\ \A i \in DOMAIN req[r].queue : req[r].queue[i][1] \in Clients
                /\ req[r].lastErr = NoError]_vars
  BY <1>1
<1> QED
  BY <1>2, RegistryInvariant, PTL DEF Spec, ReplyExplained

-----------------------------------------------------------------------------
\* On a route that NewRegistry knows, requests use the breaker it created.
Known(k) == k \in InitialCircuits(Config)

FromBoot == \A k \in Routes : Known(k) => circuits[k] = Boot

OnTheirOwn == \A r \in Requests :
    /\ req[r].pc = "creating" => ~ Known(Route(r))
    /\ req[r].pc \in {"asking", "calling"} /\ Known(Route(r)) => req[r].mine = Boot

KnownInv == RegistryInv /\ FromBoot /\ OnTheirOwn

LEMMA KnownInit == Init => KnownInv
<1> SUFFICES ASSUME Init PROVE KnownInv
  OBVIOUS
<1>1. FromBoot
  BY DEF Init, FromBoot, Known
<1>2. \A r \in Requests : req[r].pc = "idle"
  BY DEF Init, Idle
<1> QED
  BY <1>1, <1>2, RegistryInit DEF KnownInv, OnTheirOwn

LEMMA KnownNext == KnownInv /\ [Next]_vars => KnownInv'
<1> SUFFICES ASSUME KnownInv, [Next]_vars PROVE KnownInv'
  OBVIOUS
<1>0. /\ RegistryInv /\ FromBoot /\ OnTheirOwn
      /\ req = [s \in Requests |-> req[s]]
  BY DEF KnownInv, RegistryInv
<1>1. RegistryInv'
  BY <1>0, RegistryNext
<1> DEFINE Own(x) ==
      /\ x.pc = "creating" => ~ Known(x.queue[x.pos])
      /\ x.pc \in {"asking", "calling"} /\ Known(x.queue[x.pos]) => x.mine = Boot
<1>2. \A r \in Requests : Own(req[r])
  BY <1>0 DEF OnTheirOwn, Route
<1>3. ASSUME NEW r \in Requests, NEW x, Own(x), req' = [req EXCEPT ![r] = x]
      PROVE  OnTheirOwn'
  <2>1. /\ req'[r] = x /\ \A s \in Requests : s # r => req'[s] = req[s]
    BY <1>0, <1>3, OneRequestSteps
  <2>2. \A s \in Requests : Own(req'[s])
    BY <1>2, <1>3, <2>1
  <2> QED
    BY <2>2 DEF OnTheirOwn, Route
<1>4. ASSUME circuits' = circuits PROVE FromBoot'
  BY <1>0, <1>4 DEF FromBoot
<1> HIDE DEF Own
<1>5. CASE Tick
  <2>1. req' = req /\ circuits' = circuits
    BY <1>5 DEF Tick
  <2> QED
    BY <1>0, <1>1, <1>4, <2>1 DEF KnownInv, OnTheirOwn, Route
<1>6. ASSUME NEW r \in Requests, Arrive(r) PROVE KnownInv'
  <2>1. PICK q : req' = [req EXCEPT ![r] = [Idle EXCEPT !.pc = "routing", !.queue = q]]
    BY <1>6 DEF Arrive
  <2>2. Own([Idle EXCEPT !.pc = "routing", !.queue = q])
    BY DEF Own, Idle
  <2>3. circuits' = circuits
    BY <1>6 DEF Arrive
  <2> QED
    BY <1>1, <1>3, <1>4, <2>1, <2>2, <2>3 DEF KnownInv
<1>7. ASSUME NEW r \in Requests, Disconnect(r) PROVE KnownInv'
  <2> DEFINE x == [req[r] EXCEPT !.cancelled = TRUE]
  <2>1. req' = [req EXCEPT ![r] = x] /\ circuits' = circuits
    BY <1>7 DEF Disconnect
  <2>2. req[r] \in Request
    BY <1>0 DEF RegistryInv, Walking
  <2>3. /\ x.pc = req[r].pc /\ x.queue = req[r].queue /\ x.pos = req[r].pos
        /\ x.mine = req[r].mine
    BY <2>2 DEF Request
  <2> HIDE DEF x
  <2>4. Own(x)
    BY <1>2, <2>3 DEF Own
  <2> QED
    BY <1>1, <1>3, <1>4, <2>1, <2>4 DEF KnownInv
<1>8. ASSUME NEW r \in Requests, MapFault(r) PROVE KnownInv'
  <2>1. req' = req /\ circuits' = circuits
    BY <1>8 DEF MapFault
  <2> QED
    BY <1>0, <1>1, <1>4, <2>1 DEF KnownInv, OnTheirOwn, Route
<1>9. ASSUME NEW r \in Requests, NEW pos, NEW skipped, NEW lastErr,
             GoTo(r, pos, skipped, lastErr)
      PROVE  OnTheirOwn'
  <2> DEFINE x == [req[r] EXCEPT !.pc = "routing", !.pos = pos, !.at = 0,
                                 !.mine = Nobody, !.skipped = skipped,
                                 !.lastErr = lastErr]
  <2>1. req' = [req EXCEPT ![r] = x]
    BY <1>9 DEF GoTo
  <2>2. req[r] \in Request
    BY <1>0 DEF RegistryInv, Walking
  <2>3. x.pc = "routing"
    BY <2>2 DEF Request
  <2> HIDE DEF x
  <2>4. Own(x)
    BY <2>3 DEF Own
  <2> QED
    BY <1>3, <2>1, <2>4
<1>10. ASSUME NEW r \in Requests, NEW e, Answer(r, e) PROVE OnTheirOwn'
  <2> DEFINE x == [Idle EXCEPT !.reply = e]
  <2>1. req' = [req EXCEPT ![r] = x]
    BY <1>10 DEF Answer
  <2>2. Own(x)
    BY DEF Own, Idle
  <2> HIDE DEF x
  <2> QED
    BY <1>3, <2>1, <2>2
<1>11. ASSUME NEW r \in Requests,
              SkipNoClient(r) \/ SkipOpen(r) \/ CallSucceeds(r) \/ CallFails(r)
                \/ GiveUp(r)
       PROVE  KnownInv'
  <2>1. circuits' = circuits
    BY <1>11 DEF SkipNoClient, SkipOpen, CallSucceeds, CallFails, GiveUp
  <2>2. \/ \E pos, skipped, lastErr : GoTo(r, pos, skipped, lastErr)
        \/ \E e : Answer(r, e)
    BY <1>11 DEF SkipNoClient, SkipOpen, CallSucceeds, CallFails, GiveUp, NextCandidate
  <2>3. OnTheirOwn'
    BY <1>9, <1>10, <2>2
  <2> QED
    BY <1>1, <1>4, <2>1, <2>3 DEF KnownInv
<1>12. ASSUME NEW r \in Requests, NEW owner, Ask(r, owner),
              Known(Route(r)) => owner = Boot
       PROVE  OnTheirOwn'
  <2> DEFINE now == clock
             x == [req[r] EXCEPT !.pc = "asking", !.mine = owner, !.at = now]
  <2>1. req' = [req EXCEPT ![r] = x]
    BY <1>12 DEF Ask
  <2>2. req[r] \in Request
    BY <1>0 DEF RegistryInv, Walking
  <2>3. /\ x.pc = "asking" /\ x.queue = req[r].queue /\ x.pos = req[r].pos
        /\ x.mine = owner
    BY <2>2 DEF Request
  <2> HIDE DEF x
  <2>4. Own(x)
    BY <1>12, <2>3 DEF Own, Route
  <2> QED
    BY <1>3, <2>1, <2>4
<1>13. ASSUME NEW r \in Requests, Lookup(r) PROVE KnownInv'
  <2>1. circuits' = circuits /\ Route(r) \in Routes
    BY <1>0, <1>13, Standing DEF Lookup
  <2>2. Known(Route(r)) => circuits[Route(r)] = Boot
    BY <1>0, <2>1 DEF FromBoot
  <2>3. CASE circuits[Route(r)] # Nobody
    <3>1. Ask(r, circuits[Route(r)])
      BY <1>13, <2>3 DEF Lookup
    <3>2. OnTheirOwn'
      BY <1>12, <2>2, <3>1
    <3> QED
      BY <1>1, <1>4, <2>1, <3>2 DEF KnownInv
  <2>4. CASE circuits[Route(r)] = Nobody
    <3> DEFINE x == [req[r] EXCEPT !.pc = "creating"]
    <3>1. req' = [req EXCEPT ![r] = x]
      BY <1>13, <2>4 DEF Lookup
    <3>2. ~ Known(Route(r))
      BY <2>2, <2>4, RegistryAssumption
    <3>3. req[r] \in Request
      BY <1>0 DEF RegistryInv, Walking
    <3>4. x.pc = "creating" /\ x.queue = req[r].queue /\ x.pos = req[r].pos
      BY <3>3 DEF Request
    <3> HIDE DEF x
    <3>5. Own(x)
      BY <3>2, <3>4 DEF Own, Route
    <3> QED
      BY <1>1, <1>3, <1>4, <2>1, <3>1, <3>5 DEF KnownInv
  <2> QED
    BY <2>3, <2>4
<1>14. ASSUME NEW r \in Requests, Create(r) PROVE KnownInv'
  <2>1. /\ req[r].pc = "creating" /\ Route(r) \in Routes /\ Ask(r, r)
        /\ circuits' = [circuits EXCEPT ![Route(r)] = r]
    BY <1>0, <1>14, Standing DEF Create, Running
  <2>2. ~ Known(Route(r))
    BY <1>0, <2>1 DEF OnTheirOwn
  <2>3. OnTheirOwn'
    BY <1>12, <2>1, <2>2
  <2>4. circuits \in [Routes -> Owners \cup {Nobody}]
    BY <1>0 DEF RegistryInv, Shared
  <2>5. \A k \in Routes : k # Route(r) => circuits'[k] = circuits[k]
    <3> HIDE DEF Routes
    <3> QED
      BY <2>1, <2>4
  <2>6. FromBoot'
    BY <1>0, <2>2, <2>5 DEF FromBoot
  <2> QED
    BY <1>1, <2>3, <2>6 DEF KnownInv
<1>15. ASSUME NEW r \in Requests, Admit(r) PROVE KnownInv'
  <2> DEFINE x == [req[r] EXCEPT !.pc = "calling"]
  <2>1. /\ req' = [req EXCEPT ![r] = x] /\ circuits' = circuits
        /\ req[r].pc = "asking"
    BY <1>15 DEF Admit, Running
  <2>2. req[r] \in Request
    BY <1>0 DEF RegistryInv, Walking
  <2>3. /\ x.pc = "calling" /\ x.queue = req[r].queue /\ x.pos = req[r].pos
        /\ x.mine = req[r].mine
    BY <2>2 DEF Request
  <2> HIDE DEF x
  <2>4. Own(x)
    BY <1>2, <2>1, <2>3 DEF Own
  <2> QED
    BY <1>1, <1>3, <1>4, <2>1, <2>4 DEF KnownInv
<1>16. CASE UNCHANGED vars
  <2>1. req' = req /\ circuits' = circuits
    BY <1>16 DEF vars
  <2> QED
    BY <1>0, <1>1, <1>4, <2>1 DEF KnownInv, OnTheirOwn, Route
<1> QED
  BY <1>5, <1>6, <1>7, <1>8, <1>11, <1>13, <1>14, <1>15, <1>16 DEF Next, Step

LEMMA KnownInvariant == Spec => []KnownInv
BY KnownInit, KnownNext, PTL DEF Spec

\* ensureCircuit, with any number of requests in it, some of them creating
\* breakers for other routes: everyone on a configured route has the breaker that
\* NewRegistry made for it.
THEOREM OneKnownBreaker == Spec => []OneBreakerPerKnownRoute
<1>1. KnownInv => OneBreakerPerKnownRoute
  BY DEF KnownInv, OnTheirOwn, OneBreakerPerKnownRoute, Consulting, Known
<1> QED
  BY <1>1, KnownInvariant, PTL

-----------------------------------------------------------------------------
(***************************************************************************)
(* Healthy routes.  Until FailureThreshold calls on a healthy route have   *)
(* been abandoned by their clients, every breaker of the route is closed   *)
(* and counts no more failures than that, and a request that has not hung  *)
(* up does not get past it.                                                *)
(***************************************************************************)
Fresh ==
    \A k \in Routes \cap HealthyRoutes : abandoned[k] < FailureThreshold =>
        \A o \in Owners : /\ breaker[k][o].openedAt = ZeroTime
                          /\ breaker[k][o].consecutiveFailures <= abandoned[k]

Short(x, n) ==
    \/ x.cancelled
    \/ \A i \in 1..x.pos - 1 :
          x.queue[i] \in HealthyRoutes => n[x.queue[i]] >= FailureThreshold

HealthyInv == RegistryInv /\ Fresh /\ \A r \in Requests : Short(req[r], abandoned)

Served(r) == /\ req[r].pc # "idle" /\ req'[r].pc = "idle" /\ ~ req[r].cancelled
             /\ \E k \in ToSet(req[r].queue) \cap HealthyRoutes :
                  abandoned[k] < FailureThreshold
             => \/ req'[r].reply.kind = "ok"
                \/ req'[r].reply.kind = "error" /\ req'[r].reply.err.status = 400

\* What Report writes: the outcome of the call and the time of the trip.
Reported(r, err, b, t) ==
    /\ SetBreaker(r, b, t)
    /\ b = IF shouldTripCircuit(err) THEN AfterFailure(Mine(r), req[r].at)
                                     ELSE AfterSuccess(Mine(r))
    /\ t = IF b.openedAt = ZeroTime THEN ZeroTime
           ELSE IF Mine(r).openedAt = ZeroTime THEN clock
                ELSE trippedAt[Route(r)][req[r].mine]

LEMMA ReportWrites ==
    ASSUME RegistryInv, NEW r \in Requests, req[r].pc = "calling", NEW err, Report(r, err)
    PROVE  \E b \in BreakerType : \E t \in Nat \cup {ZeroTime} : Reported(r, err, b, t)
<1> DEFINE old == Mine(r)
           b == IF shouldTripCircuit(err) THEN AfterFailure(old, req[r].at)
                                          ELSE AfterSuccess(old)
           t == CASE b.openedAt = ZeroTime -> ZeroTime
                  [] old.openedAt = ZeroTime /\ b.openedAt # ZeroTime -> clock
                  [] OTHER -> trippedAt[Route(r)][req[r].mine]
<1>1. /\ clock \in Nat /\ req[r].at \in Nat /\ old \in BreakerType
      /\ trippedAt[Route(r)][req[r].mine] \in Nat \cup {ZeroTime}
  BY Standing
<1>2. b \in BreakerType
  BY <1>1, MethodsType
<1>3. SetBreaker(r, b, t)
  BY DEF Report
<1>4. b = IF shouldTripCircuit(err) THEN AfterFailure(Mine(r), req[r].at)
                                    ELSE AfterSuccess(Mine(r))
  OBVIOUS
<1> HIDE DEF b
<1>5. t = IF b.openedAt = ZeroTime THEN ZeroTime
          ELSE IF old.openedAt = ZeroTime THEN clock
               ELSE trippedAt[Route(r)][req[r].mine]
  OBVIOUS
<1> HIDE DEF old
<1>6. t \in Nat \cup {ZeroTime}
  BY <1>1, <1>5
<1> HIDE DEF t
<1>7. Reported(r, err, b, t)
  BY <1>3, <1>4, <1>5 DEF Reported, old
<1> QED
  BY <1>2, <1>6, <1>7

\* Abandoned calls are only added.
Grows == \A k \in HealthyRoutes : /\ abandoned[k] \in Nat /\ abandoned'[k] \in Nat
                                  /\ abandoned[k] <= abandoned'[k]

LEMMA AbandonedGrows == ASSUME RegistryInv, [Next]_vars PROVE Grows
<1>1. FailureThreshold \in Nat /\ abandoned \in [HealthyRoutes -> 0..FailureThreshold]
  BY BreakerAssumption DEF RegistryInv, Shared
<1>2. abandoned' = abandoned \/ \E r \in Requests : NoteFailure(r)
  BY DEF Next, vars, Tick, Arrive, Disconnect, MapFault, Step, SkipNoClient, Lookup,
         Create, Admit, SkipOpen, CallSucceeds, CallFails, GiveUp
<1>3. CASE abandoned' = abandoned
  BY <1>1, <1>3 DEF Grows
<1>4. ASSUME NEW r \in Requests, NoteFailure(r) PROVE Grows
  BY <1>1, <1>4 DEF Grows, NoteFailure
<1> QED
  BY <1>2, <1>3, <1>4

LEMMA HealthyInit == Init => HealthyInv
<1> SUFFICES ASSUME Init PROVE HealthyInv
  OBVIOUS
<1>1. Fresh
  <2> HIDE DEF Routes, Owners
  <2> QED
    BY DEF Init, Fresh, NewCircuitBreaker
<1>2. \A r \in Requests : Short(req[r], abandoned)
  BY DEF Init, Idle, Short
<1> QED
  BY <1>1, <1>2, RegistryInit DEF HealthyInv

LEMMA HealthyNext ==
    ASSUME \A k \in HealthyRoutes : k[1] \in Clients, HealthyInv, Next
    PROVE  HealthyInv' /\ \A r \in Requests : Served(r)
<1>0. /\ RegistryInv /\ Shared /\ Fresh /\ req = [s \in Requests |-> req[s]]
      /\ \A s \in Requests : Short(req[s], abandoned)
  BY DEF HealthyInv, RegistryInv
<1>1. RegistryInv' /\ Grows /\ FailureThreshold \in Nat \ {0}
  BY <1>0, RegistryNext, AbandonedGrows, BreakerAssumption
<1>2. ASSUME breaker' = breaker, abandoned' = abandoned PROVE Fresh'
  BY <1>0, <1>2 DEF Fresh
<1>3. ASSUME NEW x, Short(x, abandoned) PROVE Short(x, abandoned')
  <2>1. \A k \in HealthyRoutes : abandoned[k] >= FailureThreshold
                                    => abandoned'[k] >= FailureThreshold
    BY <1>1 DEF Grows
  <2> QED
    BY <1>3, <2>1 DEF Short
<1>4. ASSUME NEW r \in Requests, NEW x, Short(x, abandoned'), req' = [req EXCEPT ![r] = x]
      PROVE  /\ \A s \in Requests : Short(req'[s], abandoned')
             /\ Served(r) => \A s \in Requests : Served(s)
             /\ req'[r] = x
  <2>1. /\ req'[r] = x /\ \A s \in Requests : s # r => req'[s] = req[s]
    BY <1>0, <1>4, OneRequestSteps
  <2>2. \A s \in Requests : s # r => Served(s)
    BY <2>1 DEF Served
  <2> QED
    BY <1>0, <1>3, <1>4, <2>1, <2>2
<1>5. ASSUME NEW r \in Requests
      PROVE  /\ req[r] \in Request /\ req[r].pos \in Nat \ {0} /\ Walking(req[r], clock)
             /\ req[r].queue \in Seq(Routes)
  BY <1>0, QueuesType DEF RegistryInv, Walking, Request
<1>6. ASSUME req' = req, breaker' = breaker, abandoned' = abandoned
      PROVE  HealthyInv' /\ \A s \in Requests : Served(s)
  BY <1>0, <1>1, <1>2, <1>6 DEF HealthyInv, Served
<1>7. CASE Tick
  BY <1>6, <1>7 DEF Tick
<1>8. ASSUME NEW r \in Requests, MapFault(r)
      PROVE  HealthyInv' /\ \A s \in Requests : Served(s)
  BY <1>6, <1>8 DEF MapFault
<1>9. ASSUME NEW r \in Requests, Arrive(r)
      PROVE  HealthyInv' /\ \A s \in Requests : Served(s)
  <2>1. PICK q : req' = [req EXCEPT ![r] = [Idle EXCEPT !.pc = "routing", !.queue = q]]
    BY <1>9 DEF Arrive
  <2> DEFINE x == [Idle EXCEPT !.pc = "routing", !.queue = q]
  <2>2. Short(x, abandoned') /\ x.pc = "routing"
    BY DEF Short, Idle
  <2> HIDE DEF x
  <2>3. breaker' = breaker /\ abandoned' = abandoned
    BY <1>9 DEF Arrive
  <2>4. (\A s \in Requests : Short(req'[s], abandoned')) /\ req'[r] = x
    BY <1>4, <2>1, <2>2 DEF x
  <2>5. Served(r)
    BY <2>2, <2>4 DEF Served
  <2>6. \A s \in Requests : Served(s)
    BY <1>4, <2>1, <2>2, <2>5 DEF x
  <2> QED
    BY <1>1, <1>2, <2>3, <2>4, <2>6 DEF HealthyInv
<1>10. ASSUME NEW r \in Requests, NEW skipped, NEW lastErr,
              NextCandidate(r, skipped, lastErr),
              \/ req[r].cancelled
              \/ Route(r) \in HealthyRoutes => abandoned'[Route(r)] >= FailureThreshold
       PROVE  /\ \A s \in Requests : Short(req'[s], abandoned')
              /\ \A s \in Requests : Served(s)
  <2> DEFINE p == req[r].pos + 1
             x == [req[r] EXCEPT !.pc = "routing", !.pos = p, !.at = 0,
                                 !.mine = Nobody, !.skipped = skipped,
                                 !.lastErr = lastErr]
  <2>1. req' = [req EXCEPT ![r] = x]
    BY <1>10 DEF GoTo, NextCandidate
  <2> HIDE DEF p
  <2>2. /\ x.pc = "routing" /\ x.queue = req[r].queue /\ x.pos = p
        /\ x.cancelled = req[r].cancelled
    BY <1>5 DEF Request
  <2> HIDE DEF x
  <2>3. \A i \in 1..p - 1 : i \in 1..req[r].pos - 1 \/ i = req[r].pos
    BY <1>5 DEF p
  <2>4. Short(req[r], abandoned')
    BY <1>0, <1>3
  <2>5. Short(x, abandoned')
    BY <1>10, <2>2, <2>3, <2>4 DEF Short, Route
  <2>6. (\A s \in Requests : Short(req'[s], abandoned')) /\ req'[r] = x
    BY <1>4, <2>1, <2>5
  <2>7. Served(r)
    BY <2>2, <2>6 DEF Served
  <2>8. \A s \in Requests : Served(s)
    BY <1>4, <2>1, <2>5, <2>7
  <2> QED
    BY <2>6, <2>8
<1>11. ASSUME NEW r \in Requests, NEW e, Answer(r, e),
              \/ e.kind = "ok"
              \/ e.kind = "error" /\ e.err.status = 400
              \/ req[r].cancelled
              \/ \A k \in ToSet(req[r].queue) \cap HealthyRoutes :
                    ~ (abandoned[k] < FailureThreshold)
       PROVE  /\ \A s \in Requests : Short(req'[s], abandoned')
              /\ \A s \in Requests : Served(s)
  <2> DEFINE x == [Idle EXCEPT !.reply = e]
  <2>1. req' = [req EXCEPT ![r] = x]
    BY <1>11 DEF Answer
  <2>2. Short(x, abandoned') /\ x.reply = e
    BY DEF Short, Idle
  <2> HIDE DEF x
  <2>3. (\A s \in Requests : Short(req'[s], abandoned')) /\ req'[r] = x
    BY <1>4, <2>1, <2>2
  <2>4. Served(r)
    BY <1>11, <2>2, <2>3 DEF Served
  <2>5. \A s \in Requests : Served(s)
    BY <1>4, <2>1, <2>2, <2>4
  <2> QED
    BY <2>3, <2>5
<1>12. ASSUME NEW r \in Requests, NEW x, req' = [req EXCEPT ![r] = x],
              x.queue = req[r].queue, x.pos = req[r].pos,
              req[r].cancelled => x.cancelled, x.pc # "idle"
       PROVE  /\ \A s \in Requests : Short(req'[s], abandoned')
              /\ \A s \in Requests : Served(s)
  <2>1. Short(req[r], abandoned')
    BY <1>0, <1>3
  <2>2. Short(x, abandoned')
    BY <1>12, <2>1 DEF Short
  <2>3. (\A s \in Requests : Short(req'[s], abandoned')) /\ req'[r] = x
    BY <1>4, <1>12, <2>2
  <2>4. Served(r)
    BY <1>12, <2>3 DEF Served
  <2>5. \A s \in Requests : Served(s)
    BY <1>4, <1>12, <2>2, <2>4
  <2> QED
    BY <2>3, <2>5
<1>13. ASSUME NEW r \in Requests, Disconnect(r)
       PROVE  HealthyInv' /\ \A s \in Requests : Served(s)
  <2> DEFINE x == [req[r] EXCEPT !.cancelled = TRUE]
  <2>1. /\ req' = [req EXCEPT ![r] = x] /\ req[r].pc # "idle"
        /\ breaker' = breaker /\ abandoned' = abandoned
    BY <1>13 DEF Disconnect
  <2>2. /\ x.queue = req[r].queue /\ x.pos = req[r].pos /\ x.cancelled
        /\ x.pc = req[r].pc
    BY <1>5 DEF Request
  <2> HIDE DEF x
  <2> QED
    BY <1>1, <1>2, <1>12, <2>1, <2>2 DEF HealthyInv
<1>14. ASSUME NEW r \in Requests, SkipNoClient(r)
       PROVE  HealthyInv' /\ \A s \in Requests : Served(s)
  <2>1. /\ NextCandidate(r, req[r].skipped, NoClient) /\ breaker' = breaker
        /\ abandoned' = abandoned /\ Route(r) \notin HealthyRoutes
    BY <1>14 DEF SkipNoClient
  <2> QED
    BY <1>1, <1>2, <1>10, <2>1 DEF HealthyInv
<1>15. ASSUME NEW r \in Requests, NEW owner, Ask(r, owner), breaker' = breaker,
              abandoned' = abandoned
       PROVE  HealthyInv' /\ \A s \in Requests : Served(s)
  <2> DEFINE now == clock
             x == [req[r] EXCEPT !.pc = "asking", !.mine = owner, !.at = now]
  <2>1. req' = [req EXCEPT ![r] = x]
    BY <1>15 DEF Ask
  <2> HIDE DEF now
  <2>2. /\ x.pc = "asking" /\ x.queue = req[r].queue /\ x.pos = req[r].pos
        /\ x.cancelled = req[r].cancelled
    BY <1>5 DEF Request
  <2> HIDE DEF x
  <2> QED
    BY <1>1, <1>2, <1>12, <1>15, <2>1, <2>2 DEF HealthyInv
<1>16. ASSUME NEW r \in Requests, Lookup(r)
       PROVE  HealthyInv' /\ \A s \in Requests : Served(s)
  <2>1. breaker' = breaker /\ abandoned' = abandoned
    BY <1>16 DEF Lookup
  <2>2. CASE circuits[Route(r)] # Nobody
    BY <1>15, <1>16, <2>1, <2>2 DEF Lookup
  <2>3. CASE circuits[Route(r)] = Nobody
    <3> DEFINE x == [req[r] EXCEPT !.pc = "creating"]
    <3>1. req' = [req EXCEPT ![r] = x]
      BY <1>16, <2>3 DEF Lookup
    <3>2. /\ x.pc = "creating" /\ x.queue = req[r].queue /\ x.pos = req[r].pos
          /\ x.cancelled = req[r].cancelled
      BY <1>5 DEF Request
    <3> HIDE DEF x
    <3> QED
      BY <1>1, <1>2, <1>12, <2>1, <3>1, <3>2 DEF HealthyInv
  <2> QED
    BY <2>2, <2>3
<1>17. ASSUME NEW r \in Requests, Create(r)
       PROVE  HealthyInv' /\ \A s \in Requests : Served(s)
  BY <1>15, <1>17 DEF Create
<1>18. ASSUME NEW r \in Requests, req[r].pc \in {"asking", "calling"},
              NEW b \in BreakerType, NEW t \in Nat \cup {ZeroTime}, SetBreaker(r, b, t),
              Route(r) \in HealthyRoutes /\ abandoned'[Route(r)] < FailureThreshold
                => /\ b.openedAt = ZeroTime
                   /\ b.consecutiveFailures <= abandoned'[Route(r)]
       PROVE  Fresh'
  <2>1. Route(r) \in Routes /\ req[r].mine \in Owners
    BY <1>0, <1>18, Standing
  <2>2. \A k \in Routes : \A o \in Owners :
           breaker'[k][o] = IF k = Route(r) /\ o = req[r].mine THEN b ELSE breaker[k][o]
    BY <1>0, <1>18, <2>1, BreakerSet
  <2> SUFFICES ASSUME NEW k \in Routes \cap HealthyRoutes, NEW o \in Owners,
                      abandoned'[k] < FailureThreshold
               PROVE  /\ breaker'[k][o].openedAt = ZeroTime
                      /\ breaker'[k][o].consecutiveFailures <= abandoned'[k]
    BY DEF Fresh
  <2>3. CASE k = Route(r) /\ o = req[r].mine
    BY <1>18, <2>2, <2>3
  <2>4. CASE ~ (k = Route(r) /\ o = req[r].mine)
    <3>1. /\ abandoned[k] \in Nat /\ abandoned'[k] \in Nat /\ abandoned[k] <= abandoned'[k]
      BY <1>1 DEF Grows
    <3>2. /\ breaker[k][o].openedAt = ZeroTime
          /\ breaker[k][o].consecutiveFailures <= abandoned[k]
      BY <1>0, <1>1, <3>1 DEF Fresh
    <3>3. breaker[k][o] \in BreakerType
      BY <1>0 DEF Shared
    <3>4. breaker[k][o].consecutiveFailures \in Nat
      BY <3>3 DEF BreakerType
    <3> QED
      BY <2>2, <2>4, <3>1, <3>2, <3>4
  <2> QED
    BY <2>3, <2>4
<1>19. ASSUME NEW r \in Requests, req[r].pc \in {"asking", "calling"},
              Route(r) \in HealthyRoutes, abandoned[Route(r)] < FailureThreshold
       PROVE  /\ Mine(r).openedAt = ZeroTime
              /\ Mine(r).consecutiveFailures <= abandoned[Route(r)]
  <2>1. Route(r) \in Routes /\ req[r].mine \in Owners
    BY <1>0, <1>19, Standing
  <2> QED
    BY <1>0, <1>19, <2>1 DEF Fresh, Mine
<1>20. ASSUME NEW r \in Requests, Admit(r)
       PROVE  HealthyInv' /\ \A s \in Requests : Served(s)
  <2> DEFINE x == [req[r] EXCEPT !.pc = "calling"]
             b == AfterAllow(Mine(r), req[r].at)
             t == IF b.openedAt = ZeroTime THEN ZeroTime
                  ELSE trippedAt[Route(r)][req[r].mine]
  <2>1. /\ req' = [req EXCEPT ![r] = x] /\ req[r].pc = "asking" /\ SetBreaker(r, b, t)
        /\ abandoned' = abandoned
    BY <1>20 DEF Admit, Running
  <2>2. /\ req[r].at \in Nat /\ Mine(r) \in BreakerType
        /\ trippedAt[Route(r)][req[r].mine] \in Nat \cup {ZeroTime}
    BY <1>0, <2>1, Standing
  <2>3. b \in BreakerType /\ t \in Nat \cup {ZeroTime}
    BY <2>2, MethodsType
  <2>4. Route(r) \in HealthyRoutes /\ abandoned'[Route(r)] < FailureThreshold
          => b.openedAt = ZeroTime /\ b.consecutiveFailures <= abandoned'[Route(r)]
    BY <1>19, <2>1 DEF AfterAllow
  <2> HIDE DEF b, t
  <2>5. Fresh'
    BY <1>18, <2>1, <2>3, <2>4
  <2>6. /\ x.pc = "calling" /\ x.queue = req[r].queue /\ x.pos = req[r].pos
        /\ x.cancelled = req[r].cancelled
    BY <1>5 DEF Request
  <2> HIDE DEF x
  <2> QED
    BY <1>1, <1>12, <2>1, <2>5, <2>6 DEF HealthyInv
<1>21. ASSUME NEW r \in Requests, SkipOpen(r)
       PROVE  HealthyInv' /\ \A s \in Requests : Served(s)
  <2>1. /\ NextCandidate(r, req[r].skipped + 1, req[r].lastErr) /\ breaker' = breaker
        /\ abandoned' = abandoned /\ req[r].pc = "asking" /\ ~ Allow(Mine(r), req[r].at)
    BY <1>21 DEF SkipOpen, Running
  <2>2. Route(r) \in HealthyRoutes => ~ (abandoned[Route(r)] < FailureThreshold)
    BY <1>19, <2>1 DEF Allow
  <2>3. Route(r) \in HealthyRoutes => abandoned'[Route(r)] >= FailureThreshold
    BY <1>1, <2>1, <2>2 DEF Grows
  <2> QED
    BY <1>1, <1>2, <1>10, <2>1, <2>3 DEF HealthyInv
<1>22. ASSUME NEW r \in Requests, CallSucceeds(r)
       PROVE  HealthyInv' /\ \A s \in Requests : Served(s)
  <2> DEFINE b == AfterSuccess(Mine(r))
             e == [kind |-> "ok"]
  <2>1. Answer(r, e) /\ req[r].pc = "calling" /\ SetBreaker(r, b, ZeroTime)
    BY <1>22 DEF CallSucceeds, Running
  <2>2. /\ b \in BreakerType /\ b.openedAt = ZeroTime /\ b.consecutiveFailures = 0
        /\ ZeroTime \in Nat \cup {ZeroTime} /\ e.kind = "ok"
    BY DEF AfterSuccess, BreakerType, ZeroTime
  <2> HIDE DEF b, e
  <2>3. Route(r) \in HealthyRoutes => b.consecutiveFailures <= abandoned'[Route(r)]
    BY <1>1, <2>2 DEF Grows
  <2>4. Fresh'
    BY <1>18, <2>1, <2>2, <2>3
  <2> QED
    BY <1>1, <1>11, <2>1, <2>2, <2>4 DEF HealthyInv
<1>23. ASSUME NEW r \in Requests, CallFails(r)
       PROVE  HealthyInv' /\ \A s \in Requests : Served(s)
  <2>1. PICK err : /\ Report(r, err) /\ NoteFailure(r)
                   /\ Route(r) \in HealthyRoutes => req[r].cancelled
                   /\ req[r].cancelled => err = Cancelled
                   /\ IF shouldFallback(err)
                      THEN NextCandidate(r, req[r].skipped, err)
                      ELSE Answer(r, [kind |-> "error", err |-> err])
    BY <1>23 DEF CallFails
  <2>2. req[r].pc = "calling"
    BY <1>23 DEF CallFails, Running
  <2>3. PICK b \in BreakerType : \E t \in Nat \cup {ZeroTime} : Reported(r, err, b, t)
    BY <1>0, <2>1, <2>2, ReportWrites
  <2>4. /\ \E t \in Nat \cup {ZeroTime} : SetBreaker(r, b, t)
        /\ b = IF shouldTripCircuit(err) THEN AfterFailure(Mine(r), req[r].at)
                                         ELSE AfterSuccess(Mine(r))
    BY <2>3 DEF Reported
  <2>5. ASSUME Route(r) \in HealthyRoutes, abandoned'[Route(r)] < FailureThreshold
        PROVE  b.openedAt = ZeroTime /\ b.consecutiveFailures <= abandoned'[Route(r)]
    <3> DEFINE k == Route(r)
               old == Mine(r)
    <3>1. b = AfterFailure(old, req[r].at)
      BY <2>1, <2>4, <2>5 DEF shouldTripCircuit, Cancelled
    <3>2. abandoned[k] \in Nat /\ abandoned'[k] \in Nat /\ abandoned[k] <= abandoned'[k]
      BY <1>1, <2>5 DEF Grows
    <3>3. abandoned[k] < FailureThreshold
      BY <1>1, <2>5, <3>2
    <3>4. abandoned'[k] = abandoned[k] + 1
      BY <2>1, <2>5, <3>3 DEF NoteFailure
    <3>5. old.openedAt = ZeroTime /\ old.consecutiveFailures <= abandoned[k]
      BY <1>19, <2>2, <2>5, <3>3
    <3>6. old \in BreakerType
      BY <1>0, <2>2, Standing
    <3> HIDE DEF k, old
    <3>7. old.consecutiveFailures \in Nat
      BY <3>6 DEF BreakerType
    <3>8. b = [consecutiveFailures |-> old.consecutiveFailures + 1,
               openedAt |-> IF old.consecutiveFailures + 1 >= FailureThreshold
                            THEN req[r].at ELSE old.openedAt]
      BY <3>1 DEF AfterFailure
    <3>9. /\ old.consecutiveFailures + 1 <= abandoned'[k]
          /\ ~ (old.consecutiveFailures + 1 >= FailureThreshold)
      BY <1>1, <2>5, <3>2, <3>4, <3>5, <3>7 DEF k
    <3> QED
      BY <3>5, <3>8, <3>9 DEF k
  <2>6. Fresh'
    BY <1>18, <2>2, <2>4, <2>5
  <2>7. CASE shouldFallback(err)
    BY <1>1, <1>10, <2>1, <2>6, <2>7 DEF HealthyInv
  <2>8. CASE ~ shouldFallback(err)
    <3> DEFINE e == [kind |-> "error", err |-> err]
    <3>1. e.kind = "error" /\ e.err.status = 400
      BY <2>8 DEF shouldFallback
    <3>2. Answer(r, e)
      BY <2>1, <2>8
    <3> HIDE DEF e
    <3> QED
      BY <1>1, <1>11, <2>6, <3>1, <3>2 DEF HealthyInv
  <2> QED
    BY <2>7, <2>8
<1>24. ASSUME NEW r \in Requests, GiveUp(r)
       PROVE  HealthyInv' /\ \A s \in Requests : Served(s)
  <2>1. /\ ~ (req[r].pos <= Len(req[r].queue)) /\ breaker' = breaker
        /\ abandoned' = abandoned /\ \E e : Answer(r, e)
    BY <1>24 DEF GiveUp, More
  <2>2. \/ req[r].cancelled
        \/ \A k \in ToSet(req[r].queue) \cap HealthyRoutes :
              ~ (abandoned[k] < FailureThreshold)
    <3>1. \A i \in 1..Len(req[r].queue) : i \in 1..req[r].pos - 1
      BY <1>5, <2>1
    <3>2. \/ req[r].cancelled
          \/ \A i \in 1..Len(req[r].queue) :
                req[r].queue[i] \in HealthyRoutes
                  => abandoned[req[r].queue[i]] >= FailureThreshold
      BY <1>0, <3>1 DEF Short
    <3>3. \A k \in ToSet(req[r].queue) :
             \E i \in 1..Len(req[r].queue) : k = req[r].queue[i]
      BY <1>5 DEF ToSet
    <3>4. \A k \in HealthyRoutes : abandoned[k] >= FailureThreshold
                                      => ~ (abandoned[k] < FailureThreshold)
      BY <1>1 DEF Grows
    <3> QED
      BY <3>2, <3>3, <3>4
  <2> QED
    BY <1>1, <1>2, <1>11, <2>1, <2>2 DEF HealthyInv
<1> QED
  BY <1>7, <1>8, <1>9, <1>13, <1>14, <1>16, <1>17, <1>20, <1>21, <1>22, <1>23, <1>24
     DEF Next, Step

\* A request with a healthy route in its queue is answered by it, short of a 400
\* of an earlier candidate, for every configuration and whatever other requests
\* and their clients do, if it has not hung up itself and fewer than
\* FailureThreshold calls on that route were abandoned.  The healthy routes have
\* a client.
THEOREM HealthyRoutesServe ==
    ASSUME \A k \in HealthyRoutes : k[1] \in Clients
    PROVE  Spec => HealthyRouteServes
<1>1. HealthyInv /\ [Next]_vars => HealthyInv'
  <2>1. HealthyInv /\ UNCHANGED vars => HealthyInv'
    <3> SUFFICES ASSUME HealthyInv, UNCHANGED vars PROVE HealthyInv'
      OBVIOUS
    <3>1. req' = req /\ breaker' = breaker /\ abandoned' = abandoned
      BY DEF vars
    <3>2. RegistryInv'
      BY RegistryNext DEF HealthyInv
    <3> QED
      BY <3>1, <3>2 DEF HealthyInv, Fresh
  <2> QED
    BY <2>1, HealthyNext
<1>2. HealthyInv /\ [Next]_vars =>
        [\A r \in Requests :
          /\ req[r].pc # "idle" /\ req'[r].pc = "idle" /\ ~ req[r].cancelled
          /\ \E k \in ToSet(req[r].queue) \cap HealthyRoutes :
               abandoned[k] < FailureThreshold
          => \/ req'[r].reply.kind = "ok"
             \/ req'[r].reply.kind = "error" /\ req'[r].reply.err.status = 400]_vars
  BY HealthyNext DEF Served
<1> QED
  BY <1>1, <1>2, HealthyInit, PTL DEF Spec, HealthyRouteServes

-----------------------------------------------------------------------------
(***************************************************************************)
(* The refinement: a known route's breaker, seen by the requests that are  *)
(* on that route, makes the steps of module CircuitBreaker.                *)
(***************************************************************************)
\* A breaker that is closed has no record of a trip.
Untripped == \A k \in Routes : \A o \in Owners :
                 breaker[k][o].openedAt = ZeroTime => trippedAt[k][o] = ZeroTime

WatchedInv == KnownInv /\ Untripped

LEMMA UntrippedInit == Init => Untripped
<1> HIDE DEF Routes, Owners
<1> QED
  BY DEF Init, Untripped

LEMMA UntrippedNext == RegistryInv /\ Untripped /\ [Next]_vars => Untripped'
<1> SUFFICES ASSUME RegistryInv, Untripped, [Next]_vars PROVE Untripped'
  OBVIOUS
<1>1. Shared
  BY DEF RegistryInv
<1>2. ASSUME NEW r \in Requests, req[r].pc \in {"asking", "calling"},
             NEW b \in BreakerType, NEW t \in Nat \cup {ZeroTime}, SetBreaker(r, b, t),
             b.openedAt = ZeroTime => t = ZeroTime
      PROVE  Untripped'
  <2>1. Route(r) \in Routes /\ req[r].mine \in Owners
    BY <1>2, Standing
  <2>2. \A k \in Routes : \A o \in Owners :
           IF k = Route(r) /\ o = req[r].mine
           THEN breaker'[k][o] = b /\ trippedAt'[k][o] = t
           ELSE breaker'[k][o] = breaker[k][o] /\ trippedAt'[k][o] = trippedAt[k][o]
    BY <1>1, <1>2, <2>1, BreakerSet
  <2> QED
    BY <1>2, <2>2 DEF Untripped
<1>3. ASSUME breaker' = breaker, trippedAt' = trippedAt PROVE Untripped'
  BY <1>3 DEF Untripped
<1>4. ASSUME NEW r \in Requests, Admit(r) PROVE Untripped'
  <2> DEFINE b == AfterAllow(Mine(r), req[r].at)
             t == IF b.openedAt = ZeroTime THEN ZeroTime
                  ELSE trippedAt[Route(r)][req[r].mine]
  <2>1. req[r].pc = "asking" /\ SetBreaker(r, b, t)
    BY <1>4 DEF Admit, Running
  <2>2. b \in BreakerType /\ t \in Nat \cup {ZeroTime}
    BY <2>1, Standing, MethodsType
  <2>3. b.openedAt = ZeroTime => t = ZeroTime
    OBVIOUS
  <2> HIDE DEF b, t
  <2> QED
    BY <1>2, <2>1, <2>2, <2>3
<1>5. ASSUME NEW r \in Requests, CallSucceeds(r) PROVE Untripped'
  <2>1. req[r].pc = "calling" /\ SetBreaker(r, AfterSuccess(Mine(r)), ZeroTime)
    BY <1>5 DEF CallSucceeds, Running
  <2>2. AfterSuccess(Mine(r)) \in BreakerType /\ ZeroTime \in Nat \cup {ZeroTime}
    BY DEF AfterSuccess, BreakerType
  <2> QED
    BY <1>2, <2>1, <2>2
<1>6. ASSUME NEW r \in Requests, CallFails(r) PROVE Untripped'
  <2>1. req[r].pc = "calling" /\ \E err : Report(r, err)
    BY <1>6 DEF CallFails, Running
  <2>2. PICK b \in BreakerType, t \in Nat \cup {ZeroTime} :
          SetBreaker(r, b, t) /\ (b.openedAt = ZeroTime => t = ZeroTime)
    <3>1. PICK err : Report(r, err)
      BY <2>1
    <3>2. \E b \in BreakerType : \E t \in Nat \cup {ZeroTime} : Reported(r, err, b, t)
      BY <2>1, <3>1, ReportWrites
    <3> QED
      BY <3>2 DEF Reported
  <2> QED
    BY <1>2, <2>1, <2>2
<1>7. ASSUME NEW r \in Requests, Arrive(r) \/ Disconnect(r) \/ MapFault(r)
               \/ SkipNoClient(r) \/ Lookup(r) \/ Create(r) \/ SkipOpen(r) \/ GiveUp(r)
      PROVE  Untripped'
  BY <1>3, <1>7 DEF Arrive, Disconnect, MapFault, SkipNoClient, Lookup, Create,
                    SkipOpen, GiveUp
<1>8. CASE Tick \/ UNCHANGED vars
  BY <1>3, <1>8 DEF Tick, vars
<1> QED
  BY <1>4, <1>5, <1>6, <1>7, <1>8 DEF Next, Step

LEMMA WatchedInvariant == Spec => []WatchedInv
<1>1. Init => WatchedInv
  BY KnownInit, UntrippedInit DEF WatchedInv
<1>2. WatchedInv /\ [Next]_vars => WatchedInv'
  BY KnownNext, UntrippedNext DEF WatchedInv, KnownInv
<1> QED
  BY <1>1, <1>2, PTL DEF Spec

\* What the watched breaker sees of a request, and of all of them.
On(x) == x.pc \in {"asking", "calling"} /\ x.queue[x.pos] = WatchedRoute
PcOf(x) == IF On(x) THEN x.pc ELSE "idle"
AtOf(x) == IF On(x) THEN x.at ELSE 0

WatchedPc == [r \in Requests |-> PcOf(req[r])]
WatchedAt == [r \in Requests |-> AtOf(req[r])]
TheBreaker == breaker[WatchedRoute][Boot]
TheTrip == trippedAt[WatchedRoute][Boot]

\* The caller's step of the watched breaker, in these terms.
Same == /\ clock' = clock /\ TheBreaker' = TheBreaker /\ TheTrip' = TheTrip
        /\ WatchedPc' = WatchedPc /\ WatchedAt' = WatchedAt
Reads(r) == /\ WatchedPc[r] = "idle" /\ clock <= MaxClock
            /\ WatchedPc' = [WatchedPc EXCEPT ![r] = "asking"]
            /\ WatchedAt' = [WatchedAt EXCEPT ![r] = clock]
            /\ clock' = clock /\ TheBreaker' = TheBreaker /\ TheTrip' = TheTrip
Leaves(r) == /\ WatchedPc' = [WatchedPc EXCEPT ![r] = "idle"]
             /\ WatchedAt' = [WatchedAt EXCEPT ![r] = 0]
             /\ clock' = clock
Admits(r) == /\ WatchedPc[r] = "asking" /\ Allow(TheBreaker, WatchedAt[r])
             /\ TheBreaker' = AfterAllow(TheBreaker, WatchedAt[r])
             /\ TheTrip' = IF TheBreaker'.openedAt = ZeroTime THEN ZeroTime ELSE TheTrip
             /\ WatchedPc' = [WatchedPc EXCEPT ![r] = "calling"]
             /\ clock' = clock /\ WatchedAt' = WatchedAt
Rejects(r) == /\ WatchedPc[r] = "asking" /\ ~ Allow(TheBreaker, WatchedAt[r])
              /\ Leaves(r) /\ TheBreaker' = TheBreaker /\ TheTrip' = TheTrip
Succeeds(r) == /\ WatchedPc[r] = "calling" /\ Leaves(r)
               /\ TheBreaker' = AfterSuccess(TheBreaker) /\ TheTrip' = ZeroTime
Fails(r) == /\ WatchedPc[r] = "calling" /\ Leaves(r)
            /\ TheBreaker' = AfterFailure(TheBreaker, WatchedAt[r])
            /\ TheTrip' = IF TheBreaker.openedAt = ZeroTime
                             /\ TheBreaker'.openedAt # ZeroTime
                          THEN clock ELSE TheTrip

LEMMA WatchedView ==
    /\ Same => UNCHANGED WatchedBreaker!vars
    /\ \A r \in Requests : /\ Reads(r) => WatchedBreaker!ReadClock(r)
                           /\ Admits(r) => WatchedBreaker!Admit(r)
                           /\ Rejects(r) => WatchedBreaker!Reject(r)
                           /\ Succeeds(r) => WatchedBreaker!Succeed(r)
                           /\ Fails(r) => WatchedBreaker!Fail(r)
<1>1. /\ WatchedPc = [r \in Requests |-> IF OnWatchedRoute(r) THEN req[r].pc ELSE "idle"]
      /\ WatchedAt = [r \in Requests |-> IF OnWatchedRoute(r) THEN req[r].at ELSE 0]
  BY DEF WatchedPc, WatchedAt, PcOf, AtOf, On, OnWatchedRoute, Consulting, Route
<1>2. /\ WatchedPc' = [r \in Requests |-> IF OnWatchedRoute(r) THEN req[r].pc ELSE "idle"]'
      /\ WatchedAt' = [r \in Requests |-> IF OnWatchedRoute(r) THEN req[r].at ELSE 0]'
  BY DEF WatchedPc, WatchedAt, PcOf, AtOf, On, OnWatchedRoute, Consulting, Route
<1>3. Same => UNCHANGED WatchedBreaker!vars
  BY <1>1, <1>2 DEF Same, WatchedBreaker!vars, TheBreaker, TheTrip
<1>4. ASSUME NEW r \in Requests, Reads(r) PROVE WatchedBreaker!ReadClock(r)
  BY <1>1, <1>2, <1>4 DEF Reads, WatchedBreaker!ReadClock, TheBreaker, TheTrip
<1>5. ASSUME NEW r \in Requests, Admits(r) PROVE WatchedBreaker!Admit(r)
  BY <1>1, <1>2, <1>5 DEF Admits, WatchedBreaker!Admit, TheBreaker, TheTrip,
     Allow, WatchedBreaker!Allow, AfterAllow, WatchedBreaker!AfterAllow,
     ZeroTime, WatchedBreaker!ZeroTime, Lapsed, WatchedBreaker!Lapsed,
     NewCircuitBreaker, WatchedBreaker!NewCircuitBreaker
<1>6. ASSUME NEW r \in Requests, Rejects(r) PROVE WatchedBreaker!Reject(r)
  BY <1>1, <1>2, <1>6 DEF Rejects, Leaves, WatchedBreaker!Reject, WatchedBreaker!Leave,
     TheBreaker, TheTrip, Allow, WatchedBreaker!Allow,
     ZeroTime, WatchedBreaker!ZeroTime, Lapsed, WatchedBreaker!Lapsed
<1>7. ASSUME NEW r \in Requests, Succeeds(r) PROVE WatchedBreaker!Succeed(r)
  BY <1>1, <1>2, <1>7 DEF Succeeds, Leaves, WatchedBreaker!Succeed,
     WatchedBreaker!Leave, TheBreaker, TheTrip, AfterSuccess,
     WatchedBreaker!AfterSuccess, ZeroTime, WatchedBreaker!ZeroTime
<1>8. ASSUME NEW r \in Requests, Fails(r) PROVE WatchedBreaker!Fail(r)
  BY <1>1, <1>2, <1>8 DEF Fails, Leaves, WatchedBreaker!Fail, WatchedBreaker!Leave,
     TheBreaker, TheTrip, AfterFailure, WatchedBreaker!AfterFailure,
     ZeroTime, WatchedBreaker!ZeroTime
<1> QED
  BY <1>3, <1>4, <1>5, <1>6, <1>7, <1>8

LEMMA WatchedStep ==
    ASSUME Known(WatchedRoute), WatchedRoute \in Routes, WatchedInv, Next
    PROVE  WatchedBreaker!Next \/ UNCHANGED WatchedBreaker!vars
<1>0. /\ RegistryInv /\ Shared /\ OnTheirOwn /\ FromBoot /\ Untripped
      /\ req = [s \in Requests |-> req[s]]
      /\ clock \in Nat /\ clock <= MaxClock
  BY RegistryAssumption DEF WatchedInv, KnownInv, RegistryInv, Shared
<1>1. ASSUME NEW r \in Requests
      PROVE  /\ req[r] \in Request
             /\ req[r].pc = "creating" => Route(r) # WatchedRoute
             /\ req[r].pc \in {"asking", "calling"} =>
                   /\ Route(r) \in Routes /\ req[r].mine \in Owners /\ req[r].at \in Nat
                   /\ Route(r) = WatchedRoute => req[r].mine = Boot
  <2>1. req[r].pc = "creating" => Route(r) # WatchedRoute
    BY <1>0 DEF OnTheirOwn
  <2>2. req[r].pc \in {"asking", "calling"} /\ Route(r) = WatchedRoute =>
           req[r].mine = Boot
    BY <1>0 DEF OnTheirOwn
  <2> QED
    BY <1>0, <2>1, <2>2, Standing DEF RegistryInv, Walking
<1>2. ASSUME NEW r \in Requests, NEW x, req' = [req EXCEPT ![r] = x]
      PROVE  /\ WatchedPc' = [WatchedPc EXCEPT ![r] = PcOf(x)]
             /\ WatchedAt' = [WatchedAt EXCEPT ![r] = AtOf(x)]
             /\ WatchedPc[r] = PcOf(req[r]) /\ WatchedAt[r] = AtOf(req[r])
             /\ PcOf(x) = PcOf(req[r]) /\ AtOf(x) = AtOf(req[r]) =>
                   WatchedPc' = WatchedPc /\ WatchedAt' = WatchedAt
  <2>1. /\ req'[r] = x /\ \A s \in Requests : s # r => req'[s] = req[s]
    BY <1>0, <1>2, OneRequestSteps
  <2> QED
    BY <2>1 DEF WatchedPc, WatchedAt
<1>3. ASSUME breaker' = breaker, trippedAt' = trippedAt
      PROVE  TheBreaker' = TheBreaker /\ TheTrip' = TheTrip
  BY <1>3 DEF TheBreaker, TheTrip
<1>4. ASSUME NEW r \in Requests, req[r].pc \in {"asking", "calling"},
             NEW b \in BreakerType, NEW t \in Nat \cup {ZeroTime}, SetBreaker(r, b, t)
      PROVE  IF Route(r) = WatchedRoute
             THEN TheBreaker' = b /\ TheTrip' = t
             ELSE TheBreaker' = TheBreaker /\ TheTrip' = TheTrip
  <2>1. /\ Route(r) \in Routes /\ req[r].mine \in Owners /\ Boot \in Owners
        /\ Route(r) = WatchedRoute => req[r].mine = Boot
    BY <1>1, <1>4 DEF Owners
  <2>2. \A k \in Routes : \A o \in Owners :
           IF k = Route(r) /\ o = req[r].mine
           THEN breaker'[k][o] = b /\ trippedAt'[k][o] = t
           ELSE breaker'[k][o] = breaker[k][o] /\ trippedAt'[k][o] = trippedAt[k][o]
    BY <1>0, <1>4, <2>1, BreakerSet
  <2> QED
    BY <2>1, <2>2 DEF TheBreaker, TheTrip
<1>5. ASSUME NEW r \in Requests, req[r].pc \in {"asking", "calling"}
      PROVE  IF Route(r) = WatchedRoute
             THEN /\ PcOf(req[r]) = req[r].pc /\ AtOf(req[r]) = req[r].at
                  /\ Mine(r) = TheBreaker /\ trippedAt[Route(r)][req[r].mine] = TheTrip
             ELSE PcOf(req[r]) = "idle" /\ AtOf(req[r]) = 0
  <2>1. Route(r) = WatchedRoute => req[r].mine = Boot
    BY <1>1, <1>5
  <2> QED
    BY <1>5, <2>1 DEF PcOf, AtOf, On, Route, Mine, TheBreaker, TheTrip
<1>6. ASSUME NEW x, x.pc \notin {"asking", "calling"} PROVE PcOf(x) = "idle" /\ AtOf(x) = 0
  BY <1>6 DEF PcOf, AtOf, On
<1>7. ASSUME NEW r \in Requests, NEW x, req' = [req EXCEPT ![r] = x],
             x.pc \notin {"asking", "calling"}
      PROVE  /\ WatchedPc' = [WatchedPc EXCEPT ![r] = "idle"]
             /\ WatchedAt' = [WatchedAt EXCEPT ![r] = 0]
             /\ req[r].pc \notin {"asking", "calling"} \/ Route(r) # WatchedRoute =>
                   WatchedPc' = WatchedPc /\ WatchedAt' = WatchedAt
  <2>1. PcOf(x) = "idle" /\ AtOf(x) = 0
    BY <1>6, <1>7
  <2>2. req[r].pc \notin {"asking", "calling"} \/ Route(r) # WatchedRoute =>
           PcOf(req[r]) = "idle" /\ AtOf(req[r]) = 0
    BY <1>5, <1>6
  <2>3. /\ WatchedPc' = [WatchedPc EXCEPT ![r] = PcOf(x)]
        /\ WatchedAt' = [WatchedAt EXCEPT ![r] = AtOf(x)]
        /\ PcOf(x) = PcOf(req[r]) /\ AtOf(x) = AtOf(req[r]) =>
              WatchedPc' = WatchedPc /\ WatchedAt' = WatchedAt
    BY <1>2, <1>7
  <2>4. /\ WatchedPc' = [WatchedPc EXCEPT ![r] = "idle"]
        /\ WatchedAt' = [WatchedAt EXCEPT ![r] = 0]
    BY <2>1, <2>3
  <2>5. ASSUME req[r].pc \notin {"asking", "calling"} \/ Route(r) # WatchedRoute
        PROVE  WatchedPc' = WatchedPc /\ WatchedAt' = WatchedAt
    BY <2>1, <2>2, <2>3, <2>5
  <2> QED
    BY <2>4, <2>5
<1>8. CASE Tick
  <2>1. /\ clock < MaxClock /\ clock' = clock + 1 /\ req' = req
        /\ breaker' = breaker /\ trippedAt' = trippedAt
        /\ \A r \in Requests :
             req[r].pc \in {"asking", "calling"} => clock - req[r].at < MaxLatency
    BY <1>8 DEF Tick
  <2>2. /\ WatchedPc = [r \in Requests |-> IF OnWatchedRoute(r) THEN req[r].pc ELSE "idle"]
        /\ WatchedAt = [r \in Requests |-> IF OnWatchedRoute(r) THEN req[r].at ELSE 0]
    BY DEF WatchedPc, WatchedAt, PcOf, AtOf, On, OnWatchedRoute, Consulting, Route
  <2>3. WatchedPc' = WatchedPc /\ WatchedAt' = WatchedAt
    BY <2>1 DEF WatchedPc, WatchedAt
  <2>4. \A r \in Requests : WatchedPc[r] # "idle" => clock - WatchedAt[r] < MaxLatency
    BY <2>1, <2>2 DEF OnWatchedRoute, Consulting
  <2>5. /\ WatchedPc' = [r \in Requests |-> IF OnWatchedRoute(r) THEN req[r].pc ELSE "idle"]'
        /\ WatchedAt' = [r \in Requests |-> IF OnWatchedRoute(r) THEN req[r].at ELSE 0]'
    BY DEF WatchedPc, WatchedAt, PcOf, AtOf, On, OnWatchedRoute, Consulting, Route
  <2>6. WatchedBreaker!Tick
    BY <2>1, <2>2, <2>3, <2>4, <2>5 DEF WatchedBreaker!Tick, WatchedBreaker!InFlight
  <2> QED
    BY <2>6 DEF WatchedBreaker!Next
<1>9. ASSUME Same \/ \E r \in Requests :
                Reads(r) \/ Admits(r) \/ Rejects(r) \/ Succeeds(r) \/ Fails(r)
      PROVE  WatchedBreaker!Next \/ UNCHANGED WatchedBreaker!vars
  BY <1>9, WatchedView DEF WatchedBreaker!Next, WatchedBreaker!Step
<1>10. ASSUME NEW r \in Requests, NEW x, req' = [req EXCEPT ![r] = x],
              x.pc \notin {"asking", "calling"},
              req[r].pc \notin {"asking", "calling"},
              clock' = clock, breaker' = breaker, trippedAt' = trippedAt
       PROVE  Same
  BY <1>3, <1>7, <1>10 DEF Same
<1>11. ASSUME NEW r \in Requests, Arrive(r) PROVE Same
  <2>1. PICK q : req' = [req EXCEPT ![r] = [Idle EXCEPT !.pc = "routing", !.queue = q]]
    BY <1>11 DEF Arrive
  <2> DEFINE x == [Idle EXCEPT !.pc = "routing", !.queue = q]
  <2>2. x.pc = "routing"
    BY DEF Idle
  <2>3. req[r].pc = "idle" /\ clock' = clock /\ breaker' = breaker /\ trippedAt' = trippedAt
    BY <1>11 DEF Arrive, Running
  <2>4. req' = [req EXCEPT ![r] = x]
    BY <2>1
  <2> HIDE DEF x
  <2> QED
    BY <1>10, <2>2, <2>3, <2>4
<1>12. ASSUME NEW r \in Requests, Disconnect(r) PROVE Same
  <2> DEFINE x == [req[r] EXCEPT !.cancelled = TRUE]
  <2>1. /\ req' = [req EXCEPT ![r] = x]
        /\ clock' = clock /\ breaker' = breaker /\ trippedAt' = trippedAt
    BY <1>12 DEF Disconnect
  <2>2. /\ x.pc = req[r].pc /\ x.queue = req[r].queue /\ x.pos = req[r].pos
        /\ x.at = req[r].at
    BY <1>1 DEF Request
  <2> HIDE DEF x
  <2>3. PcOf(x) = PcOf(req[r]) /\ AtOf(x) = AtOf(req[r])
    BY <2>2 DEF PcOf, AtOf, On
  <2> QED
    BY <1>2, <1>3, <2>1, <2>3 DEF Same
<1>13. ASSUME NEW r \in Requests, MapFault(r) PROVE Same
  <2>1. /\ req' = req /\ clock' = clock /\ breaker' = breaker
        /\ trippedAt' = trippedAt
    BY <1>13 DEF MapFault
  <2> QED
    BY <1>3, <2>1 DEF Same, WatchedPc, WatchedAt
<1>14. ASSUME NEW r \in Requests, NEW owner, Ask(r, owner), Route(r) # WatchedRoute,
              req[r].pc \notin {"asking", "calling"},
              clock' = clock, breaker' = breaker, trippedAt' = trippedAt
       PROVE  Same
  <2> DEFINE now == clock
             x == [req[r] EXCEPT !.pc = "asking", !.mine = owner, !.at = now]
  <2>1. req' = [req EXCEPT ![r] = x]
    BY <1>14 DEF Ask
  <2> HIDE DEF now
  <2>2. x.queue = req[r].queue /\ x.pos = req[r].pos
    BY <1>1 DEF Request
  <2> HIDE DEF x
  <2>3. PcOf(x) = "idle" /\ AtOf(x) = 0
    BY <1>14, <2>2 DEF PcOf, AtOf, On, Route
  <2>4. PcOf(req[r]) = "idle" /\ AtOf(req[r]) = 0
    BY <1>6, <1>14
  <2>5. WatchedPc' = WatchedPc /\ WatchedAt' = WatchedAt
    BY <1>2, <2>1, <2>3, <2>4
  <2> QED
    BY <1>3, <1>14, <2>5 DEF Same
<1>15. ASSUME NEW r \in Requests, Create(r) PROVE Same
  <2>1. /\ req[r].pc = "creating" /\ Ask(r, r)
        /\ clock' = clock /\ breaker' = breaker /\ trippedAt' = trippedAt
    BY <1>15 DEF Create, Running
  <2> QED
    BY <1>1, <1>14, <2>1
<1>16. ASSUME NEW r \in Requests, NEW pos, NEW skipped, NEW lastErr,
              GoTo(r, pos, skipped, lastErr)
       PROVE  \E x : req' = [req EXCEPT ![r] = x] /\ x.pc = "routing"
  <2> DEFINE x == [req[r] EXCEPT !.pc = "routing", !.pos = pos, !.at = 0,
                                 !.mine = Nobody, !.skipped = skipped,
                                 !.lastErr = lastErr]
  <2>1. req' = [req EXCEPT ![r] = x]
    BY <1>16 DEF GoTo
  <2>2. x.pc = "routing"
    BY <1>1 DEF Request
  <2> HIDE DEF x
  <2> QED
    BY <2>1, <2>2
<1>17. ASSUME NEW r \in Requests, NEW e, Answer(r, e)
       PROVE  \E x : req' = [req EXCEPT ![r] = x] /\ x.pc = "idle"
  <2> DEFINE x == [Idle EXCEPT !.reply = e]
  <2>1. req' = [req EXCEPT ![r] = x]
    BY <1>17 DEF Answer
  <2>2. x.pc = "idle"
    BY DEF Idle
  <2> HIDE DEF x
  <2> QED
    BY <2>1, <2>2
<1>18. ASSUME NEW r \in Requests, SkipNoClient(r) \/ GiveUp(r) PROVE Same
  <2>1. /\ req[r].pc = "routing"
        /\ clock' = clock /\ breaker' = breaker /\ trippedAt' = trippedAt
    BY <1>18 DEF SkipNoClient, GiveUp, Running
  <2>2. \E x : req' = [req EXCEPT ![r] = x] /\ x.pc \in {"routing", "idle"}
    BY <1>16, <1>17, <1>18 DEF SkipNoClient, GiveUp, NextCandidate
  <2> QED
    BY <1>10, <2>1, <2>2
<1>19. ASSUME NEW r \in Requests, Lookup(r) PROVE Same \/ Reads(r)
  <2>1. /\ req[r].pc = "routing" /\ Route(r) \in Routes
        /\ clock' = clock /\ breaker' = breaker /\ trippedAt' = trippedAt
    BY <1>0, <1>19, Standing DEF Lookup, Running
  <2>2. CASE Route(r) = WatchedRoute
    <3>1. circuits[Route(r)] = Boot
      BY <1>0, <2>1, <2>2 DEF FromBoot
    <3> DEFINE now == clock
               x == [req[r] EXCEPT !.pc = "asking", !.mine = Boot, !.at = now]
    <3>2. req' = [req EXCEPT ![r] = x]
      BY <1>19, <3>1, RegistryAssumption DEF Lookup, Ask
    <3> HIDE DEF now
    <3>3. /\ x.pc = "asking" /\ x.queue = req[r].queue /\ x.pos = req[r].pos
          /\ x.at = now
      BY <1>1 DEF Request
    <3> HIDE DEF x
    <3>4. PcOf(req[r]) = "idle" /\ AtOf(req[r]) = 0
      BY <1>6, <2>1
    <3>5. PcOf(x) = "asking" /\ AtOf(x) = clock
      BY <2>2, <3>3 DEF PcOf, AtOf, On, Route, now
    <3> QED
      BY <1>0, <1>2, <1>3, <2>1, <3>2, <3>4, <3>5 DEF Reads
  <2>3. CASE Route(r) # WatchedRoute /\ circuits[Route(r)] # Nobody
    <3>1. Ask(r, circuits[Route(r)])
      BY <1>19, <2>3 DEF Lookup
    <3> QED
      BY <1>14, <2>1, <2>3, <3>1
  <2>4. CASE circuits[Route(r)] = Nobody
    <3> DEFINE x == [req[r] EXCEPT !.pc = "creating"]
    <3>1. req' = [req EXCEPT ![r] = x]
      BY <1>19, <2>4 DEF Lookup
    <3>2. x.pc = "creating"
      BY <1>1 DEF Request
    <3> HIDE DEF x
    <3> QED
      BY <1>10, <2>1, <3>1, <3>2
  <2> QED
    BY <2>2, <2>3, <2>4
<1>20. ASSUME NEW r \in Requests, Admit(r) PROVE Same \/ Admits(r)
  <2> DEFINE x == [req[r] EXCEPT !.pc = "calling"]
             b == AfterAllow(Mine(r), req[r].at)
             t == IF b.openedAt = ZeroTime THEN ZeroTime
                  ELSE trippedAt[Route(r)][req[r].mine]
  <2>1. /\ req' = [req EXCEPT ![r] = x] /\ req[r].pc = "asking" /\ SetBreaker(r, b, t)
        /\ Allow(Mine(r), req[r].at) /\ clock' = clock
    BY <1>20 DEF Admit, Running
  <2>2. b \in BreakerType /\ t \in Nat \cup {ZeroTime}
    BY <1>0, <2>1, Standing, MethodsType
  <2>3. b = AfterAllow(Mine(r), req[r].at)
    OBVIOUS
  <2> HIDE DEF b
  <2>4. t = IF b.openedAt = ZeroTime THEN ZeroTime ELSE trippedAt[Route(r)][req[r].mine]
    OBVIOUS
  <2> HIDE DEF t
  <2>5. /\ x.pc = "calling" /\ x.queue = req[r].queue /\ x.pos = req[r].pos
        /\ x.at = req[r].at
    BY <1>1 DEF Request
  <2> HIDE DEF x
  <2>6. CASE Route(r) = WatchedRoute
    <3>1. TheBreaker' = b /\ TheTrip' = t
      BY <1>4, <2>1, <2>2, <2>6
    <3>2. /\ PcOf(req[r]) = "asking" /\ AtOf(req[r]) = req[r].at
          /\ Mine(r) = TheBreaker /\ trippedAt[Route(r)][req[r].mine] = TheTrip
      BY <1>5, <2>1, <2>6
    <3>3. PcOf(x) = "calling" /\ AtOf(x) = AtOf(req[r])
      BY <2>5, <2>6, <3>2 DEF PcOf, AtOf, On, Route
    <3>4. /\ WatchedPc' = [WatchedPc EXCEPT ![r] = "calling"]
          /\ WatchedAt' = [WatchedAt EXCEPT ![r] = AtOf(req[r])]
          /\ WatchedPc[r] = "asking" /\ WatchedAt[r] = req[r].at
      <4>1. /\ WatchedPc' = [WatchedPc EXCEPT ![r] = PcOf(x)]
            /\ WatchedAt' = [WatchedAt EXCEPT ![r] = AtOf(x)]
            /\ WatchedPc[r] = PcOf(req[r]) /\ WatchedAt[r] = AtOf(req[r])
        BY <1>2, <2>1
      <4> QED
        BY <3>2, <3>3, <4>1
    <3>5. WatchedAt' = WatchedAt
      BY <3>2, <3>4 DEF WatchedAt
    <3> QED
      BY <2>1, <2>3, <2>4, <3>1, <3>2, <3>4, <3>5 DEF Admits
  <2>7. CASE Route(r) # WatchedRoute
    <3>1. TheBreaker' = TheBreaker /\ TheTrip' = TheTrip
      BY <1>4, <2>1, <2>2, <2>7
    <3>2. PcOf(x) = "idle" /\ AtOf(x) = 0 /\ PcOf(req[r]) = "idle" /\ AtOf(req[r]) = 0
      BY <1>5, <2>1, <2>5, <2>7 DEF PcOf, AtOf, On, Route
    <3> QED
      BY <1>2, <2>1, <3>1, <3>2 DEF Same
  <2> QED
    BY <2>6, <2>7
<1>21. ASSUME NEW r \in Requests, SkipOpen(r) PROVE Same \/ Rejects(r)
  <2>1. /\ req[r].pc = "asking" /\ ~ Allow(Mine(r), req[r].at)
        /\ clock' = clock /\ breaker' = breaker /\ trippedAt' = trippedAt
    BY <1>21 DEF SkipOpen, Running
  <2>2. PICK x : req' = [req EXCEPT ![r] = x] /\ x.pc = "routing"
    BY <1>16, <1>21 DEF SkipOpen, NextCandidate
  <2>3. CASE Route(r) = WatchedRoute
    <3>1. /\ PcOf(req[r]) = "asking" /\ AtOf(req[r]) = req[r].at /\ Mine(r) = TheBreaker
      BY <1>5, <2>1, <2>3
    <3>2. /\ WatchedPc[r] = "asking" /\ WatchedAt[r] = req[r].at
          /\ WatchedPc' = [WatchedPc EXCEPT ![r] = "idle"]
          /\ WatchedAt' = [WatchedAt EXCEPT ![r] = 0]
      BY <1>2, <1>7, <2>2, <3>1
    <3> QED
      BY <1>3, <2>1, <3>1, <3>2 DEF Rejects, Leaves
  <2>4. CASE Route(r) # WatchedRoute
    BY <1>3, <1>7, <2>1, <2>2, <2>4 DEF Same
  <2> QED
    BY <2>3, <2>4
<1>22. ASSUME NEW r \in Requests, CallSucceeds(r) PROVE Same \/ Succeeds(r)
  <2>1. /\ req[r].pc = "calling" /\ clock' = clock
        /\ SetBreaker(r, AfterSuccess(Mine(r)), ZeroTime)
    BY <1>22 DEF CallSucceeds, Running
  <2>2. AfterSuccess(Mine(r)) \in BreakerType /\ ZeroTime \in Nat \cup {ZeroTime}
    BY DEF AfterSuccess, BreakerType
  <2>3. PICK x : req' = [req EXCEPT ![r] = x] /\ x.pc = "idle"
    BY <1>17, <1>22 DEF CallSucceeds
  <2>4. CASE Route(r) = WatchedRoute
    <3>1. TheBreaker' = AfterSuccess(Mine(r)) /\ TheTrip' = ZeroTime
      BY <1>4, <2>1, <2>2, <2>4
    <3>2. /\ PcOf(req[r]) = "calling" /\ Mine(r) = TheBreaker
      BY <1>5, <2>1, <2>4
    <3>3. /\ WatchedPc[r] = "calling"
          /\ WatchedPc' = [WatchedPc EXCEPT ![r] = "idle"]
          /\ WatchedAt' = [WatchedAt EXCEPT ![r] = 0]
      BY <1>2, <1>7, <2>3, <3>2
    <3> QED
      BY <2>1, <3>1, <3>2, <3>3 DEF Succeeds, Leaves
  <2>5. CASE Route(r) # WatchedRoute
    <3>1. TheBreaker' = TheBreaker /\ TheTrip' = TheTrip
      BY <1>4, <2>1, <2>2, <2>5
    <3> QED
      BY <1>7, <2>1, <2>3, <2>5, <3>1 DEF Same
  <2> QED
    BY <2>4, <2>5
<1>23. ASSUME NEW r \in Requests, CallFails(r) PROVE Same \/ Succeeds(r) \/ Fails(r)
  <2>1. req[r].pc = "calling" /\ clock' = clock
    BY <1>23 DEF CallFails, Running
  <2>2. PICK err : /\ Report(r, err)
                   /\ \/ NextCandidate(r, req[r].skipped, err)
                      \/ Answer(r, [kind |-> "error", err |-> err])
    BY <1>23 DEF CallFails
  <2>3. PICK b \in BreakerType, t \in Nat \cup {ZeroTime} : Reported(r, err, b, t)
    BY <1>0, <2>1, <2>2, ReportWrites
  <2>4. SetBreaker(r, b, t)
    BY <2>3 DEF Reported
  <2>5. PICK x : req' = [req EXCEPT ![r] = x] /\ x.pc \in {"routing", "idle"}
    BY <1>16, <1>17, <2>2 DEF NextCandidate
  <2>6. CASE Route(r) = WatchedRoute
    <3>1. TheBreaker' = b /\ TheTrip' = t
      BY <1>4, <2>1, <2>4, <2>6
    <3>2. /\ PcOf(req[r]) = "calling" /\ AtOf(req[r]) = req[r].at
          /\ Mine(r) = TheBreaker /\ trippedAt[Route(r)][req[r].mine] = TheTrip
      BY <1>5, <2>1, <2>6
    <3>3. /\ WatchedPc[r] = "calling" /\ WatchedAt[r] = req[r].at
          /\ WatchedPc' = [WatchedPc EXCEPT ![r] = "idle"]
          /\ WatchedAt' = [WatchedAt EXCEPT ![r] = 0]
      BY <1>2, <1>7, <2>5, <3>2
    <3>4. t = IF b.openedAt = ZeroTime THEN ZeroTime
              ELSE IF TheBreaker.openedAt = ZeroTime THEN clock ELSE TheTrip
      BY <2>3, <3>2 DEF Reported
    <3>5. CASE shouldTripCircuit(err)
      <4>1. b = AfterFailure(TheBreaker, WatchedAt[r])
        BY <2>3, <3>2, <3>3, <3>5 DEF Reported
      <4>2. TheBreaker.openedAt = ZeroTime => TheTrip = ZeroTime
        <5>1. Boot \in Owners
          BY DEF Owners
        <5> QED
          BY <1>0, <5>1 DEF Untripped, TheBreaker, TheTrip
      <4>3. req[r].at \in Nat /\ TheBreaker \in BreakerType
        BY <1>0, <1>1, <2>1, <3>2, Standing
      <4>4. b.openedAt = ZeroTime => TheBreaker.openedAt = ZeroTime
        BY <3>3, <4>1, <4>3 DEF AfterFailure, ZeroTime
      <4>5. t = IF TheBreaker.openedAt = ZeroTime /\ b.openedAt # ZeroTime
                THEN clock ELSE TheTrip
        BY <3>4, <4>2, <4>4
      <4> QED
        BY <2>1, <3>1, <3>3, <4>1, <4>5 DEF Fails, Leaves
    <3>6. CASE ~ shouldTripCircuit(err)
      <4>1. b = AfterSuccess(TheBreaker)
        BY <2>3, <3>2, <3>6 DEF Reported
      <4>2. t = ZeroTime
        BY <3>4, <4>1 DEF AfterSuccess
      <4> QED
        BY <2>1, <3>1, <3>3, <4>1, <4>2 DEF Succeeds, Leaves
    <3> QED
      BY <3>5, <3>6
  <2>7. CASE Route(r) # WatchedRoute
    <3>1. TheBreaker' = TheBreaker /\ TheTrip' = TheTrip
      BY <1>4, <2>1, <2>4, <2>7
    <3> QED
      BY <1>7, <2>1, <2>5, <2>7, <3>1 DEF Same
  <2> QED
    BY <2>6, <2>7
<1>24. CASE \E r \in Requests : Arrive(r) \/ Disconnect(r) \/ MapFault(r) \/ Step(r)
  BY <1>9, <1>11, <1>12, <1>13, <1>18, <1>19, <1>20, <1>21, <1>22, <1>23, <1>24,
     <1>15 DEF Step
<1> QED
  BY <1>8, <1>24 DEF Next

\* The registry implements the breaker: whatever else requests do, also on routes
\* that are not configured, and whether or not the runtime stops the process, the
\* breaker of a configured route goes through the steps of module
\* CircuitBreaker, so what is proved there of one breaker holds for each of those
\* that NewRegistry made.
THEOREM KnownRouteImplementsBreaker ==
    ASSUME Known(WatchedRoute), WatchedRoute \in Routes
    PROVE  Spec => BreakerImplemented
<1>1. Init => WatchedBreaker!Init
  <2> SUFFICES ASSUME Init PROVE WatchedBreaker!Init
    OBVIOUS
  <2>1. Boot \in Owners /\ clock = 0 /\ req = [r \in Requests |-> Idle]
    BY DEF Owners, Init
  <2>2. TheBreaker = NewCircuitBreaker /\ TheTrip = ZeroTime
    <3> HIDE DEF Routes, Owners
    <3> QED
      BY <2>1 DEF Init, TheBreaker, TheTrip
  <2>3. \A r \in Requests : ~ OnWatchedRoute(r)
    BY <2>1 DEF OnWatchedRoute, Consulting, Idle
  <2> QED
    BY <2>1, <2>2, <2>3 DEF WatchedBreaker!Init, TheBreaker, TheTrip, NewCircuitBreaker,
       WatchedBreaker!NewCircuitBreaker, ZeroTime, WatchedBreaker!ZeroTime
<1>2. WatchedInv /\ [Next]_vars => [WatchedBreaker!Next]_(WatchedBreaker!vars)
  <2>1. WatchedInv /\ Next => WatchedBreaker!Next \/ UNCHANGED WatchedBreaker!vars
    BY WatchedStep
  <2>2. UNCHANGED vars => UNCHANGED WatchedBreaker!vars
    <3> SUFFICES ASSUME UNCHANGED vars PROVE UNCHANGED WatchedBreaker!vars
      OBVIOUS
    <3>1. Same
      BY DEF vars, Same, WatchedPc, WatchedAt, TheBreaker, TheTrip
    <3> QED
      BY <3>1, WatchedView
  <2> QED
    BY <2>1, <2>2
<1> QED
  BY <1>1, <1>2, WatchedInvariant, PTL DEF Spec, BreakerImplemented, WatchedBreaker!Spec

-----------------------------------------------------------------------------
\* Whoever is let through finds the breaker of its route not open at that moment,
\* though the time it passes to Allow is older (registry.go:126): every breaker,
\* also one that ensureCircuit made, and whatever became of those who opened it.
OpenRouteBlocks ==
    [][\A r \in Requests : Admit(r) => ~ IsOpen(Mine(r), clock)]_vars

\* Allow holds every request off an open route.
THEOREM OpenRoutesBlock == Spec => OpenRouteBlocks
<1>1. ASSUME RegistryInv, NEW r \in Requests, Admit(r) PROVE ~ IsOpen(Mine(r), clock)
  <2>1. /\ clock \in Nat /\ req[r].at \in Nat /\ req[r].at <= clock
        /\ Mine(r) \in BreakerType /\ Allow(Mine(r), req[r].at)
    BY <1>1, Standing DEF Admit, Running, RegistryInv, Walking
  <2>2. Mine(r).openedAt \in Int
    BY <2>1 DEF BreakerType, ZeroTime
  <2> QED
    BY <2>1, <2>2, BreakerAssumption DEF Allow, IsOpen, Lapsed
<1>2. RegistryInv /\ [Next]_vars
        => [\A r \in Requests : Admit(r) => ~ IsOpen(Mine(r), clock)]_vars
  BY <1>1
<1> QED
  BY <1>2, RegistryInvariant, PTL DEF Spec, OpenRouteBlocks

-----------------------------------------------------------------------------
(***************************************************************************)
(* What is proved of one breaker, said of a configured route's.            *)
(***************************************************************************)
Proved ==
    INSTANCE CircuitBreakerProofs WITH
        Callers <- Requests, LastStart <- MaxClock,
        breaker <- breaker[WatchedRoute][Boot],
        trippedAt <- trippedAt[WatchedRoute][Boot],
        pc <- [r \in Requests |-> IF OnWatchedRoute(r) THEN req[r].pc ELSE "idle"],
        at <- [r \in Requests |-> IF OnWatchedRoute(r) THEN req[r].at ELSE 0]

LEMMA BreakerAssumptions == Proved!LatencyAssumption /\ Proved!BreakerAssumption
BY RegistryAssumption, BreakerAssumption
   DEF Proved!LatencyAssumption, Proved!BreakerAssumption

LEMMA OneModule == WatchedBreaker!Spec => Proved!Spec
<1>1. WatchedBreaker!Init => Proved!Init
  BY DEF WatchedBreaker!Init, Proved!Init, WatchedBreaker!NewCircuitBreaker,
     Proved!NewCircuitBreaker, WatchedBreaker!ZeroTime, Proved!ZeroTime
<1>2. WatchedBreaker!Next => Proved!Next
  BY DEF WatchedBreaker!Next, Proved!Next, WatchedBreaker!Step, Proved!Step,
     WatchedBreaker!Tick, Proved!Tick, WatchedBreaker!InFlight, Proved!InFlight,
     WatchedBreaker!ReadClock, Proved!ReadClock, WatchedBreaker!Leave, Proved!Leave,
     WatchedBreaker!Admit, Proved!Admit, WatchedBreaker!Reject, Proved!Reject,
     WatchedBreaker!Succeed, Proved!Succeed, WatchedBreaker!Fail, Proved!Fail,
     WatchedBreaker!Allow, Proved!Allow, WatchedBreaker!AfterAllow, Proved!AfterAllow,
     WatchedBreaker!Lapsed, Proved!Lapsed, WatchedBreaker!AfterSuccess,
     Proved!AfterSuccess, WatchedBreaker!AfterFailure, Proved!AfterFailure,
     WatchedBreaker!NewCircuitBreaker, Proved!NewCircuitBreaker,
     WatchedBreaker!ZeroTime, Proved!ZeroTime
<1>3. (UNCHANGED WatchedBreaker!vars) => UNCHANGED Proved!vars
  BY DEF WatchedBreaker!vars, Proved!vars
<1> QED
  BY <1>1, <1>2, <1>3, PTL DEF WatchedBreaker!Spec, Proved!Spec

\* The breaker of a configured route opens no later than it tripped and no earlier
\* than one call before; the calls that are under way on that route while it is
\* open were let in before it tripped (registry.go ChatCompletion).
OpenRouteBounds ==
    TheBreaker.openedAt # ZeroTime =>
        /\ TheBreaker.openedAt <= TheTrip
        /\ TheTrip - TheBreaker.openedAt <= MaxLatency
        /\ \A r \in Requests :
              OnWatchedRoute(r) /\ req[r].pc = "calling" => req[r].at <= TheTrip

\* However many requests walk however many queues, an open breaker of a
\* configured route is dated by its trip, up to one call's latency.
THEOREM OpenRoutesBounded ==
    ASSUME Known(WatchedRoute), WatchedRoute \in Routes
    PROVE  Spec => []OpenRouteBounds
<1>1. Proved!Spec => []Proved!OpenWindowBounds
  BY BreakerAssumptions, Proved!WindowBounded
<1>2. Proved!Spec => []Proved!InFlightPredatesTrip
  BY BreakerAssumptions, Proved!NoCallAfterTrip
<1>3. Proved!OpenWindowBounds /\ Proved!InFlightPredatesTrip => OpenRouteBounds
  BY DEF Proved!OpenWindowBounds, Proved!InFlightPredatesTrip, OpenRouteBounds,
     TheBreaker, TheTrip, Proved!ZeroTime, ZeroTime, OnWatchedRoute, Consulting
<1>4. Spec => BreakerImplemented
  BY KnownRouteImplementsBreaker
<1> QED
  BY <1>1, <1>2, <1>3, <1>4, OneModule, PTL DEF BreakerImplemented
===============================================================================
