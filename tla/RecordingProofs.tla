--------------------------- MODULE RecordingProofs ---------------------------
(***************************************************************************)
(* The sinks of the request recorder agree, whatever is recorded, for any  *)
(* number of requests, failures, cut-offs and restarts.                    *)
(***************************************************************************)
EXTENDS Recording, FiniteSetTheorems, NaturalsInduction, WellFoundedInduction, TLAPS

\* Induction: a set of natural numbers that has a member has a least one.
LEMMA LeastNat == ASSUME NEW T \in SUBSET Nat, T # {}
                  PROVE  \E x \in T : \A y \in T : x <= y
<1> DEFINE R == {ss \in Nat \X Nat : ss[1] < ss[2]}
<1>1. IsWellFoundedOn(R, Nat)
  BY NatLessThanWellFounded DEF OpToRel
<1> HIDE DEF R
<1>2. PICK x \in T : \A y \in T : <<y, x>> \notin R
  BY <1>1, WFMin
<1>3. \A y \in T : ~ (y < x)
  BY <1>2 DEF R
<1> QED
  BY <1>3

\* Of some subsets of a finite set one is smallest.
LEMMA SmallestSet ==
    ASSUME NEW S, IsFiniteSet(S), NEW Q \in SUBSET SUBSET S, Q # {}
    PROVE  \E T \in Q : \A U \in Q : Cardinality(T) <= Cardinality(U)
<1> DEFINE Sizes == {n \in Nat : \E T \in Q : n = Cardinality(T)}
<1>1. \A T \in Q : Cardinality(T) \in Sizes
  BY FS_Subset, FS_CardinalityType
<1>2. Sizes \in SUBSET Nat /\ Sizes # {}
  BY <1>1
<1>3. PICK n \in Sizes : \A k \in Sizes : n <= k
  <2> HIDE DEF Sizes
  <2> QED
    BY <1>2, LeastNat
<1>4. PICK T \in Q : n = Cardinality(T)
  BY <1>3
<1> HIDE DEF Sizes
<1> QED
  BY <1>1, <1>3, <1>4

\* A finite set has every property that the empty set has and that no
\* further element takes away.
LEMMA SetInduction ==
    ASSUME NEW S, IsFiniteSet(S), NEW P \in SUBSET SUBSET S, {} \in P,
           \A T \in P : \A x \in S \ T : T \cup {x} \in P
    PROVE  S \in P
<1> SUFFICES ASSUME S \notin P PROVE FALSE
  OBVIOUS
<1> DEFINE Q == (SUBSET S) \ P
<1>1. \A T \in SUBSET S : IsFiniteSet(T) /\ Cardinality(T) \in Nat
  BY FS_Subset, FS_CardinalityType
<1>2. PICK T \in Q : \A U \in Q : Cardinality(T) <= Cardinality(U)
  <2>1. Q \in SUBSET SUBSET S /\ Q # {}
    OBVIOUS
  <2> HIDE DEF Q
  <2> QED
    BY <2>1, SmallestSet
<1>3. PICK x \in T : TRUE
  BY <1>2
<1> DEFINE U == T \ {x}
<1>4. Cardinality(U) = Cardinality(T) - 1 /\ U \in SUBSET S
  BY <1>1, <1>2, <1>3, FS_RemoveElement
<1>5. U \notin Q
  BY <1>1, <1>2, <1>4
<1>6. T = U \cup {x} /\ x \in S \ U
  BY <1>2, <1>3
<1>7. U \in P /\ T \notin P
  BY <1>2, <1>4, <1>5
<1> HIDE DEF U, Q
<1> QED
  BY <1>6, <1>7

-----------------------------------------------------------------------------
\* Sums over finite sets.  MapThenSumSet takes the elements in the order of
\* CHOOSE; a sum does not depend on it.
Pick(s) == CHOOSE x \in s : TRUE
Sums(f, S, it) == it = [s \in SUBSET S |-> IF s = {} THEN 0
                                           ELSE f[Pick(s)] + it[s \ {Pick(s)}]]
Sum(f, S) == (CHOOSE it : Sums(f, S, it))[S]
OnInts(f, S) == \A x \in S : f[x] \in Int
Agree(f, g, S) == \A x \in S : f[x] = g[x]
Additive(it, f, S) ==
    /\ it[{}] = 0
    /\ \A T \in SUBSET S : /\ it[T] \in Int
                           /\ \A x \in T : it[T] = f[x] + it[T \ {x}]

LEMMA SumsExist ==
    ASSUME NEW S, IsFiniteSet(S), NEW f, OnInts(f, S)
    PROVE  \E it : Sums(f, S, it)
<1> DEFINE Value(s, it) == IF s = {} THEN 0 ELSE f[Pick(s)] + it[s \ {Pick(s)}]
           Upto(n, it) == /\ it \in [SUBSET S -> Int]
                          /\ \A s \in SUBSET S :
                                Cardinality(s) <= n => it[s] = Value(s, it)
           Bad == {n \in Nat : ~ \E it : Upto(n, it)}
<1>1. \A s \in SUBSET S : /\ IsFiniteSet(s) /\ Cardinality(s) \in Nat
                          /\ Cardinality(s) <= Cardinality(S)
                          /\ Cardinality(s) = 0 <=> s = {}
  BY FS_Subset, FS_CardinalityType, FS_EmptySet
<1>2. ASSUME NEW s \in SUBSET S, s # {}
      PROVE  /\ Pick(s) \in s /\ f[Pick(s)] \in Int
             /\ s \ {Pick(s)} \in SUBSET S
             /\ Cardinality(s \ {Pick(s)}) = Cardinality(s) - 1
  <2>1. Pick(s) \in s
    BY <1>2 DEF Pick
  <2>2. IsFiniteSet(s)
    BY <1>1
  <2> QED
    BY <2>1, <2>2, FS_RemoveElement DEF OnInts
<1>3. Bad = {}
  <2> SUFFICES ASSUME Bad # {} PROVE FALSE
    OBVIOUS
  <2>1. PICK n \in Bad : \A k \in Bad : n <= k
    <3>1. Bad \in SUBSET Nat
      OBVIOUS
    <3> HIDE DEF Bad
    <3> QED
      BY <3>1, LeastNat
  <2>2. CASE n = 0
    <3> DEFINE z == [s \in SUBSET S |-> 0]
    <3>1. ASSUME NEW s \in SUBSET S, Cardinality(s) <= 0 PROVE z[s] = Value(s, z)
      <4>1. s = {}
        BY <1>1, <3>1
      <4> QED
        BY <4>1
    <3>2. z \in [SUBSET S -> Int]
      OBVIOUS
    <3>3. Upto(0, z)
      <4> HIDE DEF Value, z
      <4> QED
        BY <3>1, <3>2
    <3> QED
      BY <2>1, <2>2, <3>3
  <2>3. CASE n # 0
    <3>1. n \in Nat /\ n - 1 \in Nat /\ n - 1 \notin Bad
      <4>1. Bad \in SUBSET Nat
        OBVIOUS
      <4> HIDE DEF Bad
      <4> QED
        BY <2>1, <2>3, <4>1
    <3>2. PICK g : Upto(n - 1, g)
      <4> HIDE DEF Upto
      <4> QED
        BY <3>1
    <3> DEFINE h == [s \in SUBSET S |-> IF Cardinality(s) = n THEN Value(s, g) ELSE g[s]]
    <3>3. ASSUME NEW s \in SUBSET S PROVE h[s] \in Int
      <4>1. Value(s, g) \in Int
        <5>1. CASE s = {}
          BY <5>1
        <5>2. CASE s # {}
          <6>1. f[Pick(s)] \in Int /\ g[s \ {Pick(s)}] \in Int
            BY <1>2, <3>2, <5>2
          <6> QED
            BY <5>2, <6>1
        <5> QED
          BY <5>1, <5>2
      <4>2. g[s] \in Int
        BY <3>2
      <4> HIDE DEF Value, Upto
      <4> QED
        BY <4>1, <4>2
    <3>4. ASSUME NEW s \in SUBSET S, Cardinality(s) <= n PROVE h[s] = Value(s, h)
      <4>1. CASE s = {}
        <5>1. Cardinality(s) = 0
          BY <1>1, <4>1
        <5> QED
          BY <2>3, <3>1, <3>2, <4>1, <5>1
      <4>2. CASE s # {}
        <5> DEFINE t == s \ {Pick(s)}
        <5>1. t \in SUBSET S /\ Cardinality(t) = Cardinality(s) - 1 /\ Cardinality(s) \in Nat
          BY <1>1, <1>2, <4>2
        <5>2. h[t] = g[t]
          BY <3>1, <3>4, <5>1
        <5>3. CASE Cardinality(s) = n
          BY <4>2, <5>2, <5>3
        <5>4. CASE Cardinality(s) # n
          <6>1. Cardinality(s) <= n - 1
            BY <3>1, <3>4, <5>1, <5>4
          <6> QED
            BY <3>2, <4>2, <5>2, <5>4, <6>1
        <5> QED
          BY <5>3, <5>4
      <4> QED
        BY <4>1, <4>2
    <3>5. Upto(n, h)
      BY <3>3, <3>4
    <3> QED
      BY <2>1, <3>5
  <2> QED
    BY <2>2, <2>3
<1>4. PICK it : Upto(Cardinality(S), it)
  <2>1. Cardinality(S) \in Nat
    BY FS_CardinalityType
  <2> QED
    BY <1>3, <2>1
<1>5. it = [s \in SUBSET S |-> Value(s, it)]
  BY <1>1, <1>4
<1>6. Sums(f, S, it)
  BY <1>5 DEF Sums
<1> QED
  BY <1>6

LEMMA SumsAdd ==
    ASSUME NEW S, IsFiniteSet(S), NEW f, OnInts(f, S), NEW it, Sums(f, S, it)
    PROVE  Additive(it, f, S)
<1> DEFINE Good(T) == it[T] \in Int /\ \A x \in T : it[T] = f[x] + it[T \ {x}]
           Bad == {T \in SUBSET S : ~ Good(T)}
<1>1. it[{}] = 0
  BY DEF Sums
<1>2. \A T \in SUBSET S : IsFiniteSet(T) /\ Cardinality(T) \in Nat
  BY FS_Subset, FS_CardinalityType
<1>3. Bad = {}
  <2> SUFFICES ASSUME Bad # {} PROVE FALSE
    OBVIOUS
  <2>1. PICK T \in Bad : \A U \in Bad : Cardinality(T) <= Cardinality(U)
    <3>1. Bad \in SUBSET SUBSET S
      OBVIOUS
    <3> HIDE DEF Bad
    <3> QED
      BY <3>1, SmallestSet
  <2>2. ~ Good(T)
    BY <2>1
  <2>3. T \in SUBSET S /\ T # {}
    <3>1. Good({})
      BY <1>1
    <3> QED
      BY <2>1, <2>2, <3>1
  <2> DEFINE c == Pick(T)
             U == T \ {c}
  <2>4. c \in T
    BY <2>3 DEF Pick
  <2>5. it[T] = f[c] + it[U]
    BY <2>3 DEF Sums
  <2>6. \A x \in T : /\ T \ {x} \in SUBSET S
                     /\ Cardinality(T \ {x}) = Cardinality(T) - 1
    BY <1>2, <2>3, FS_RemoveElement
  <2> HIDE DEF c
  <2>7. \A V \in SUBSET S : Cardinality(V) < Cardinality(T) => Good(V)
    <3> HIDE DEF Good
    <3> QED
      BY <1>2, <2>1
  <2>71. \A x \in T : Good(T \ {x})
    <3> HIDE DEF Good
    <3> QED
      BY <1>2, <2>3, <2>6, <2>7
  <2>8. f[c] \in Int /\ it[U] \in Int /\ it[T] \in Int
    <3>1. c \in S /\ Good(U)
      BY <2>3, <2>4, <2>71
    <3>2. f[c] \in Int /\ it[U] \in Int
      BY <3>1 DEF OnInts
    <3> HIDE DEF U
    <3> QED
      BY <2>5, <3>2
  <2>9. ASSUME NEW x \in T PROVE it[T] = f[x] + it[T \ {x}]
    <3>1. CASE x = c
      BY <2>5, <3>1
    <3>2. CASE x # c
      <4>1. it[U] = f[x] + it[U \ {x}]
        BY <2>4, <2>71, <3>2
      <4>2. it[T \ {x}] = f[c] + it[(T \ {x}) \ {c}]
        BY <2>4, <2>71, <3>2
      <4>3. (T \ {x}) \ {c} = U \ {x}
        OBVIOUS
      <4>4. U \ {x} \in SUBSET S /\ f[x] \in Int
        BY <2>3 DEF OnInts
      <4>5. it[T \ {x}] \in Int
        BY <2>71
      <4> DEFINE k == it[U \ {x}]
      <4>6. it[T \ {x}] = f[c] + k /\ it[U] = f[x] + k
        BY <4>1, <4>2, <4>3
      <4>7. k \in Int
        <5>1. U \ {x} \in SUBSET S /\ IsFiniteSet(U)
          BY <1>2, <2>3
        <5>2. Cardinality(U \ {x}) = Cardinality(U) - 1
          BY <2>4, <3>2, <5>1, FS_RemoveElement
        <5>3. Cardinality(U) = Cardinality(T) - 1
          BY <2>4, <2>6
        <5>4. Cardinality(U \ {x}) < Cardinality(T)
          BY <1>2, <2>3, <5>2, <5>3
        <5> QED
          BY <2>7, <5>1, <5>4
      <4> HIDE DEF k, U
      <4> QED
        BY <2>5, <2>8, <4>4, <4>6, <4>7
    <3> QED
      BY <3>1, <3>2
  <2>10. Good(T)
    BY <2>8, <2>9
  <2> QED
    BY <2>2, <2>10
<1> QED
  BY <1>1, <1>3 DEF Additive

LEMMA AdditiveOnce ==
    ASSUME NEW S, IsFiniteSet(S), NEW f, NEW g, Agree(f, g, S), OnInts(f, S),
           NEW it, Additive(it, f, S), NEW jt, Additive(jt, g, S)
    PROVE  it[S] = jt[S]
<1> DEFINE P == {T \in SUBSET S : it[T] = jt[T]}
<1>1. {} \in P
  BY DEF Additive
<1>2. ASSUME NEW T \in P, NEW x \in S \ T PROVE T \cup {x} \in P
  <2>1. (T \cup {x}) \ {x} = T /\ T \cup {x} \in SUBSET S
    OBVIOUS
  <2>2. it[T \cup {x}] = f[x] + it[T] /\ jt[T \cup {x}] = g[x] + jt[T]
    BY <2>1 DEF Additive
  <2> QED
    BY <2>1, <2>2 DEF Agree
<1>3. P \in SUBSET SUBSET S
  OBVIOUS
<1>4. S \in P
  <2> HIDE DEF P
  <2> QED
    BY <1>1, <1>2, <1>3, SetInduction
<1> QED
  BY <1>4

LEMMA SumIs ==
    ASSUME NEW S, IsFiniteSet(S), NEW f, OnInts(f, S)
    PROVE  \E it : Additive(it, f, S) /\ Sum(f, S) = it[S]
<1> DEFINE it == CHOOSE it : Sums(f, S, it)
<1>1. Sums(f, S, it)
  BY SumsExist
<1>2. Sum(f, S) = it[S]
  BY DEF Sum
<1> HIDE DEF it
<1> QED
  BY <1>1, <1>2, SumsAdd

LEMMA SumEmpty == ASSUME NEW f PROVE Sum(f, {}) = 0
<1>1. IsFiniteSet({}) /\ OnInts(f, {})
  BY FS_EmptySet DEF OnInts
<1>2. PICK it : Additive(it, f, {}) /\ Sum(f, {}) = it[{}]
  BY <1>1, SumIs, Zenon
<1> QED
  BY <1>2 DEF Additive

LEMMA SumInt ==
    ASSUME NEW S, IsFiniteSet(S), NEW f, OnInts(f, S)
    PROVE  Sum(f, S) \in Int
<1>1. PICK it : Additive(it, f, S) /\ Sum(f, S) = it[S]
  BY SumIs, Zenon
<1> QED
  BY <1>1 DEF Additive

LEMMA SumSame ==
    ASSUME NEW S, IsFiniteSet(S), NEW f, NEW g, OnInts(f, S), Agree(f, g, S)
    PROVE  Sum(f, S) = Sum(g, S)
<1>1. OnInts(g, S)
  BY DEF OnInts, Agree
<1>2. PICK it : Additive(it, f, S) /\ Sum(f, S) = it[S]
  BY SumIs, Zenon
<1>3. PICK jt : Additive(jt, g, S) /\ Sum(g, S) = jt[S]
  BY <1>1, SumIs, Zenon
<1> QED
  BY <1>2, <1>3, AdditiveOnce

LEMMA SumAdd ==
    ASSUME NEW S, IsFiniteSet(S), NEW f, OnInts(f, S), NEW x \in S
    PROVE  Sum(f, S) = f[x] + Sum(f, S \ {x})
<1> DEFINE T == S \ {x}
<1>1. IsFiniteSet(T) /\ OnInts(f, T) /\ Agree(f, f, T)
  BY FS_Subset DEF OnInts, Agree
<1>2. PICK it : Additive(it, f, S) /\ Sum(f, S) = it[S]
  BY SumIs, Zenon
<1>3. PICK jt : Additive(jt, f, T) /\ Sum(f, T) = jt[T]
  BY <1>1, SumIs, Zenon
<1>4. Additive(it, f, T)
  BY <1>2 DEF Additive
<1>5. it[T] = jt[T]
  BY <1>1, <1>3, <1>4, AdditiveOnce, Zenon
<1>6. it[S] = f[x] + it[T]
  BY <1>2 DEF Additive
<1> QED
  BY <1>2, <1>3, <1>5, <1>6

LEMMA SumBump ==
    ASSUME NEW S, IsFiniteSet(S), NEW f, NEW g, OnInts(f, S), OnInts(g, S),
           NEW x \in S, Agree(f, g, S \ {x})
    PROVE  Sum(g, S) = Sum(f, S) + (g[x] - f[x])
<1> DEFINE T == S \ {x}
<1>1. IsFiniteSet(T) /\ OnInts(f, T)
  BY FS_Subset DEF OnInts
<1>2. Sum(f, S) = f[x] + Sum(f, T) /\ Sum(g, S) = g[x] + Sum(g, T)
  BY SumAdd
<1>3. Sum(f, T) = Sum(g, T)
  BY <1>1, SumSame
<1>4. Sum(f, T) \in Int /\ f[x] \in Int /\ g[x] \in Int
  BY <1>1, SumInt DEF OnInts
<1> HIDE DEF T
<1> QED
  BY <1>2, <1>3, <1>4

LEMMA SumZero ==
    ASSUME NEW S, IsFiniteSet(S), NEW f, \A x \in S : f[x] = 0
    PROVE  Sum(f, S) = 0
<1> DEFINE P == {T \in SUBSET S : Sum(f, T) = 0}
<1>1. {} \in P
  BY SumEmpty
<1>2. ASSUME NEW T \in P, NEW x \in S \ T PROVE T \cup {x} \in P
  <2> DEFINE U == T \cup {x}
  <2>1. IsFiniteSet(U) /\ OnInts(f, U) /\ x \in U /\ U \ {x} = T /\ f[x] = 0
    BY FS_Subset DEF OnInts
  <2>2. Sum(f, U) = f[x] + Sum(f, U \ {x})
    <3> HIDE DEF U
    <3> QED
      BY <2>1, SumAdd
  <2>3. Sum(f, U) = 0
    BY <2>1, <2>2
  <2> QED
    BY <2>3
<1>3. P \in SUBSET SUBSET S
  OBVIOUS
<1>4. S \in P
  <2> HIDE DEF P
  <2> QED
    BY <1>1, <1>2, <1>3, SetInduction
<1> QED
  BY <1>4

\* What is zero does not count.
LEMMA SumSub ==
    ASSUME NEW S, IsFiniteSet(S), NEW T \in SUBSET S, NEW f, OnInts(f, S),
           \A x \in S \ T : f[x] = 0
    PROVE  Sum(f, T) = Sum(f, S)
<1> DEFINE R == S \ T
           P == {V \in SUBSET R : Sum(f, T \cup V) = Sum(f, T)}
<1>1. {} \in P
  <2>1. T \cup {} = T
    OBVIOUS
  <2> QED
    BY <2>1
<1>2. ASSUME NEW V \in P, NEW x \in R \ V PROVE V \cup {x} \in P
  <2> DEFINE U == T \cup (V \cup {x})
  <2>1. /\ IsFiniteSet(U) /\ OnInts(f, U) /\ x \in U /\ f[x] = 0
        /\ U \ {x} = T \cup V /\ IsFiniteSet(T) /\ OnInts(f, T)
    BY FS_Subset DEF OnInts
  <2>2. Sum(f, U) = f[x] + Sum(f, U \ {x})
    <3> HIDE DEF U
    <3> QED
      BY <2>1, SumAdd
  <2>3. Sum(f, T) \in Int
    BY <2>1, SumInt
  <2>4. Sum(f, U \ {x}) = Sum(f, T)
    BY <2>1
  <2>5. Sum(f, U) = Sum(f, T)
    <3> HIDE DEF U
    <3> QED
      BY <2>1, <2>2, <2>3, <2>4
  <2> QED
    BY <2>5
<1>3. P \in SUBSET SUBSET R /\ IsFiniteSet(R)
  BY FS_Subset
<1>4. R \in P
  <2> HIDE DEF P
  <2> QED
    BY <1>1, <1>2, <1>3, SetInduction
<1>5. T \cup R = S
  OBVIOUS
<1> QED
  BY <1>4, <1>5

\* A sum taken class by class.
LEMMA SumSplit ==
    ASSUME NEW S, IsFiniteSet(S), NEW C, IsFiniteSet(C), NEW class,
           \A x \in S : class[x] \in C, NEW f, OnInts(f, S)
    PROVE  Sum([c \in C |-> Sum(f, {x \in S : class[x] = c})], C) = Sum(f, S)
<1> DEFINE In(T, c) == {x \in T : class[x] = c}
           By(T) == [c \in C |-> Sum(f, In(T, c))]
           P == {T \in SUBSET S : Sum(By(T), C) = Sum(f, T)}
<1>1. {} \in P
  <2>1. \A c \in C : By({})[c] = 0
    <3>1. \A c \in C : In({}, c) = {}
      OBVIOUS
    <3> QED
      BY <3>1, SumEmpty
  <2>2. Sum(By({}), C) = 0
    <3> HIDE DEF By
    <3> QED
      BY <2>1, SumZero
  <2> QED
    BY <2>2, SumEmpty
<1>2. ASSUME NEW T \in SUBSET S, NEW c \in C
      PROVE  IsFiniteSet(In(T, c)) /\ OnInts(f, In(T, c)) /\ By(T)[c] \in Int
  <2>1. IsFiniteSet(In(T, c)) /\ OnInts(f, In(T, c))
    BY FS_Subset DEF OnInts
  <2>2. Sum(f, In(T, c)) \in Int
    <3> HIDE DEF In
    <3> QED
      BY <2>1, SumInt
  <2> QED
    BY <2>1, <2>2
<1>3. ASSUME NEW T \in P, NEW y \in S \ T PROVE T \cup {y} \in P
  <2> DEFINE U == T \cup {y}
             k == class[y]
  <2>1. /\ T \in SUBSET S /\ U \in SUBSET S /\ k \in C /\ y \in U /\ U \ {y} = T
        /\ IsFiniteSet(U) /\ OnInts(f, U) /\ f[y] \in Int
    BY FS_Subset DEF OnInts
  <2>2. \A c \in C \ {k} : In(U, c) = In(T, c)
    BY <2>1
  <2>3. Agree(By(T), By(U), C \ {k})
    BY <2>2 DEF Agree
  <2>4. In(U, k) \ {y} = In(T, k) /\ y \in In(U, k)
    BY <2>1
  <2>5. Sum(f, In(U, k)) = f[y] + Sum(f, In(T, k))
    <3>1. IsFiniteSet(In(U, k)) /\ OnInts(f, In(U, k))
      BY <1>2, <2>1
    <3> HIDE DEF In, U, k
    <3> QED
      BY <2>4, <3>1, SumAdd
  <2>6. By(U)[k] = f[y] + By(T)[k]
    BY <2>1, <2>5
  <2>7. OnInts(By(T), C) /\ OnInts(By(U), C)
    BY <1>2, <2>1 DEF OnInts
  <2>8. Sum(By(U), C) = Sum(By(T), C) + (By(U)[k] - By(T)[k])
    <3> HIDE DEF By, U, k
    <3> QED
      BY <2>1, <2>3, <2>7, SumBump
  <2>9. Sum(f, U) = f[y] + Sum(f, T)
    <3> HIDE DEF U
    <3> QED
      BY <2>1, SumAdd
  <2>10. By(T)[k] \in Int /\ Sum(By(T), C) \in Int /\ Sum(By(T), C) = Sum(f, T)
    <3>1. By(T)[k] \in Int
      BY <1>2, <2>1
    <3>2. Sum(By(T), C) \in Int
      <4> HIDE DEF By
      <4> QED
        BY <2>7, SumInt
    <3> QED
      BY <3>1, <3>2
  <2>11. Sum(By(U), C) = Sum(f, U)
    <3> HIDE DEF By, U, k
    <3> QED
      BY <2>1, <2>6, <2>8, <2>9, <2>10
  <2> QED
    BY <2>1, <2>11
<1>4. P \in SUBSET SUBSET S
  OBVIOUS
<1>5. S \in P
  <2> HIDE DEF P
  <2> QED
    BY <1>1, <1>3, <1>4, SetInduction
<1> QED
  BY <1>5

\* The sums of the model.
LEMMA CountInSum ==
    ASSUME NEW bag, NEW S
    PROVE  CountIn(bag, S) = Sum(bag, S)
BY DEF CountIn, MapThenSumSet, MapThenFoldSet, Sum, Sums, Pick

LEMMA TokensInSum ==
    ASSUME NEW S, IsFiniteSet(S), NEW bag, OnInts(bag, S), \A x \in S : x.tokens \in Int
    PROVE  TokensIn(bag, S) = Sum([x \in S |-> bag[x] * x.tokens], S)
<1> DEFINE f == [x \in S |-> bag[x] * x.tokens]
           Is(it) == it = [s \in SUBSET S |->
                             IF s = {} THEN 0
                             ELSE bag[Pick(s)] * (Pick(s)).tokens + it[s \ {Pick(s)}]]
           jt == CHOOSE it : Is(it)
<1>1. OnInts(f, S) /\ Agree(f, f, S)
  BY DEF OnInts, Agree
<1>2. \A s \in SUBSET S : s # {} => f[Pick(s)] = bag[Pick(s)] * (Pick(s)).tokens
  <2>1. \A s \in SUBSET S : s # {} => Pick(s) \in S
    BY DEF Pick
  <2> QED
    BY <2>1
<1>3. \A it : Is(it) <=> Sums(f, S, it)
  <2> HIDE DEF f
  <2> QED
    BY <1>2 DEF Sums
<1>4. TokensIn(bag, S) = jt[S]
  BY DEF TokensIn, MapThenSumSet, MapThenFoldSet, Pick
<1> HIDE DEF f, Is
<1>5. Sums(f, S, jt)
  BY <1>1, <1>3, SumsExist
<1> HIDE DEF jt
<1>6. Additive(jt, f, S)
  BY <1>1, <1>5, SumsAdd
<1>7. PICK it : Additive(it, f, S) /\ Sum(f, S) = it[S]
  BY <1>1, SumIs, Zenon
<1>8. it[S] = jt[S]
  BY <1>1, <1>6, <1>7, AdditiveOnce
<1>9. TokensIn(bag, S) = Sum(f, S)
  BY <1>4, <1>7, <1>8
<1> QED
  BY <1>9 DEF f

\* The requests of a map's entries.
Requested(f) == [m \in DOMAIN f |-> f[m].requests]
Counters(f) == IsFiniteSet(DOMAIN f) /\ \A m \in DOMAIN f : f[m].requests \in Int

LEMMA TotalSum ==
    ASSUME NEW f, Counters(f)
    PROVE  Total(f) = Sum(Requested(f), DOMAIN f) /\ Total(f) \in Int
<1> DEFINE S == DOMAIN f
           g == Requested(f)
           Is(it) == it = [s \in SUBSET S |->
                             IF s = {} THEN 0
                             ELSE f[Pick(s)].requests + it[s \ {Pick(s)}]]
           jt == CHOOSE it : Is(it)
<1>1. IsFiniteSet(S) /\ OnInts(g, S) /\ Agree(g, g, S)
  BY DEF OnInts, Agree, Counters, Requested
<1>2. \A s \in SUBSET S : s # {} => g[Pick(s)] = f[Pick(s)].requests
  <2>1. \A s \in SUBSET S : s # {} => Pick(s) \in S
    BY DEF Pick
  <2> QED
    BY <2>1 DEF Requested
<1>3. \A it : Is(it) <=> Sums(g, S, it)
  <2> HIDE DEF g
  <2> QED
    BY <1>2 DEF Sums
<1>4. Total(f) = jt[S]
  BY DEF Total, MapThenSumSet, MapThenFoldSet, Pick
<1> HIDE DEF S, g, Is
<1>5. Sums(g, S, jt)
  BY <1>1, <1>3, SumsExist
<1> HIDE DEF jt
<1>6. Additive(jt, g, S)
  BY <1>1, <1>5, SumsAdd
<1>7. PICK it : Additive(it, g, S) /\ Sum(g, S) = it[S]
  BY <1>1, SumIs, Zenon
<1>8. it[S] = jt[S]
  BY <1>1, <1>6, <1>7, AdditiveOnce
<1>9. Total(f) = Sum(g, S) /\ Total(f) \in Int
  BY <1>1, <1>4, <1>7, <1>8, SumInt
<1> QED
  BY <1>9 DEF g, S

\* AddAt counts one more.
LEMMA AddAtTotal ==
    ASSUME NEW f, Counters(f), NEW k, NEW x
    PROVE  Counters(AddAt(f, k, x)) /\ Total(AddAt(f, k, x)) = Total(f) + 1
<1> DEFINE S == DOMAIN f
           T == S \cup {k}
           g == AddAt(f, k, x)
           old == IF k \in S THEN f[k].requests ELSE 0
           h == [m \in T |-> IF m \in S THEN f[m].requests ELSE 0]
<1>1. DOMAIN g = T /\ IsFiniteSet(T) /\ IsFiniteSet(S) /\ k \in T
  BY FS_AddElement DEF AddAt, Counters
<1>2. old \in Int
  BY DEF Counters
<1>3. g[k].requests = old + 1
  BY DEF AddAt, Plus, One, Zero
<1>4. \A m \in T \ {k} : g[m] = f[m] /\ m \in S
  BY DEF AddAt
<1>5. Counters(g)
  <2> HIDE DEF g, old, T
  <2>1. \A m \in T : g[m].requests \in Int
    BY <1>2, <1>3, <1>4 DEF Counters
  <2> QED
    BY <1>1, <2>1 DEF Counters
<1>6. OnInts(h, T) /\ h[k] = old /\ \A m \in T \ S : h[m] = 0
  BY DEF OnInts, Counters
<1>7. Agree(h, Requested(f), S)
  BY DEF Agree, Requested
<1>8. Agree(h, Requested(g), T \ {k}) /\ OnInts(Requested(g), T)
  <2> HIDE DEF g
  <2>1. \A m \in T \ {k} : h[m] = Requested(g)[m]
    BY <1>1, <1>4 DEF Requested
  <2>2. \A m \in T : Requested(g)[m] \in Int
    BY <1>1, <1>5 DEF Requested, Counters
  <2> QED
    BY <2>1, <2>2 DEF Agree, OnInts
<1>9. S \in SUBSET T /\ OnInts(h, S)
  BY <1>6 DEF OnInts
<1>10. Requested(g)[k] = old + 1
  <2> HIDE DEF g
  <2> QED
    BY <1>1, <1>3 DEF Requested
<1>11. Total(f) = Sum(Requested(f), S) /\ Total(g) = Sum(Requested(g), T)
  <2>1. Total(g) = Sum(Requested(g), DOMAIN g)
    <3> HIDE DEF g
    <3> QED
      BY <1>5, TotalSum
  <2>2. Total(f) = Sum(Requested(f), DOMAIN f)
    BY TotalSum
  <2> QED
    BY <1>1, <2>1, <2>2
<1> HIDE DEF S, T, g, h, old
<1>12. Sum(h, S) = Sum(Requested(f), S)
  BY <1>1, <1>7, <1>9, SumSame
<1>13. Sum(h, S) = Sum(h, T)
  BY <1>1, <1>6, <1>9, SumSub
<1>14. Sum(Requested(g), T) = Sum(h, T) + (Requested(g)[k] - h[k])
  BY <1>1, <1>6, <1>8, SumBump
<1>15. Sum(h, T) \in Int
  BY <1>1, <1>6, SumInt
<1>16. Total(g) = Total(f) + 1
  BY <1>2, <1>6, <1>10, <1>11, <1>12, <1>13, <1>14, <1>15
<1> QED
  BY <1>5, <1>16 DEF g

-----------------------------------------------------------------------------
\* Bags of metrics.
Bags == [Metrics -> Nat]

LEMMA MetricsType ==
    /\ IsFiniteSet(Metrics) /\ IsFiniteSet(Recorders)
    /\ \A x \in Metrics : /\ x.status \in Nat /\ x.tokens \in Nat
                          /\ Trace(x).session = x.session
BY RecordingAssumption DEF Trace

LEMMA BagSums ==
    ASSUME NEW bag \in Bags, NEW S \in SUBSET Metrics
    PROVE  /\ IsFiniteSet(S) /\ OnInts(bag, S)
           /\ CountIn(bag, S) = Sum(bag, S) /\ CountIn(bag, S) \in Int
           /\ OnInts([x \in S |-> bag[x] * x.tokens], S)
           /\ TokensIn(bag, S) = Sum([x \in S |-> bag[x] * x.tokens], S)
           /\ TokensIn(bag, S) \in Int
<1>1. IsFiniteSet(S) /\ OnInts(bag, S)
  BY MetricsType, FS_Subset DEF Bags, OnInts
<1>2. CountIn(bag, S) = Sum(bag, S) /\ CountIn(bag, S) \in Int
  BY <1>1, CountInSum, SumInt
<1>3. \A x \in S : bag[x] \in Int /\ x.tokens \in Int
  BY MetricsType DEF Bags
<1> DEFINE w == [x \in S |-> bag[x] * x.tokens]
<1>4. OnInts(w, S)
  BY <1>3 DEF OnInts
<1>5. TokensIn(bag, S) = Sum(w, S)
  BY <1>1, <1>3, TokensInSum
<1> HIDE DEF w
<1>6. Sum(w, S) \in Int
  BY <1>1, <1>4, SumInt
<1> QED
  BY <1>1, <1>2, <1>4, <1>5, <1>6 DEF w

\* One more x counts where x belongs.
OneMore(bag, x) == [bag EXCEPT ![x] = @ + 1]
AddsUp(bag, x, S) ==
    /\ CountIn(OneMore(bag, x), S) = CountIn(bag, S) + (IF x \in S THEN 1 ELSE 0)
    /\ TokensIn(OneMore(bag, x), S) = TokensIn(bag, S) + (IF x \in S THEN x.tokens ELSE 0)

LEMMA BagSumsAdd ==
    ASSUME NEW bag \in Bags, NEW x \in Metrics, NEW S \in SUBSET Metrics
    PROVE  OneMore(bag, x) \in Bags /\ AddsUp(bag, x, S)
<1> DEFINE more == OneMore(bag, x)
           w == [y \in S |-> bag[y] * y.tokens]
           v == [y \in S |-> more[y] * y.tokens]
<1>1. more \in Bags /\ more[x] = bag[x] + 1 /\ bag[x] \in Nat
  BY DEF Bags, OneMore
<1>2. Agree(bag, more, S \ {x}) /\ Agree(w, v, S \ {x})
  BY DEF Bags, Agree, OneMore
<1>3. /\ IsFiniteSet(S)
      /\ OnInts(bag, S) /\ CountIn(bag, S) = Sum(bag, S) /\ CountIn(bag, S) \in Int
      /\ OnInts(more, S) /\ CountIn(more, S) = Sum(more, S)
      /\ OnInts(w, S) /\ TokensIn(bag, S) = Sum(w, S) /\ TokensIn(bag, S) \in Int
      /\ OnInts(v, S) /\ TokensIn(more, S) = Sum(v, S)
  BY <1>1, BagSums
<1> HIDE DEF more
<1>4. CASE x \in S
  <2>1. v[x] - w[x] = x.tokens
    <3> DEFINE n == bag[x]
               t == x.tokens
    <3>1. v[x] = (n + 1) * t /\ w[x] = n * t
      BY <1>1, <1>4
    <3>2. n \in Nat /\ t \in Nat
      BY <1>1, MetricsType
    <3> HIDE DEF n, t, v, w
    <3>3. (n + 1) * t = n * t + t /\ n * t \in Nat
      BY <3>2
    <3> QED
      BY <3>1, <3>2, <3>3 DEF t
  <2> HIDE DEF v, w
  <2>2. Sum(more, S) = Sum(bag, S) + (more[x] - bag[x])
    BY <1>2, <1>3, <1>4, SumBump
  <2>3. Sum(v, S) = Sum(w, S) + (v[x] - w[x])
    BY <1>2, <1>3, <1>4, SumBump
  <2>4. more[x] - bag[x] = 1
    BY <1>1
  <2> QED
    BY <1>1, <1>3, <1>4, <2>1, <2>2, <2>3, <2>4 DEF AddsUp, more
<1>5. CASE x \notin S
  <2> HIDE DEF v, w
  <2>1. Agree(bag, more, S) /\ Agree(w, v, S)
    BY <1>2, <1>5 DEF Agree
  <2>2. Sum(bag, S) = Sum(more, S) /\ Sum(w, S) = Sum(v, S)
    BY <1>3, <2>1, SumSame
  <2> QED
    BY <1>1, <1>3, <1>5, <2>2 DEF AddsUp, more
<1> QED
  BY <1>1, <1>4, <1>5 DEF more, AddsUp

LEMMA NothingCounted ==
    ASSUME NEW bag, bag = NoRows, NEW S \in SUBSET Metrics
    PROVE  /\ bag \in Bags /\ CountIn(bag, S) = 0 /\ TokensIn(bag, S) = 0
           /\ ByModel(bag) = Empty
<1> DEFINE w == [x \in S |-> bag[x] * x.tokens]
<1>1. bag \in Bags /\ \A x \in S : bag[x] = 0
  BY DEF NoRows, Bags
<1>2. \A x \in S : w[x] = 0
  BY <1>1, MetricsType
<1>3. /\ IsFiniteSet(S) /\ CountIn(bag, S) = Sum(bag, S) /\ TokensIn(bag, S) = Sum(w, S)
  BY <1>1, BagSums
<1> HIDE DEF w
<1>4. Sum(bag, S) = 0 /\ Sum(w, S) = 0
  BY <1>1, <1>2, <1>3, SumZero
<1>5. {x.model : x \in {y \in Metrics : bag[y] > 0}} = {}
  BY DEF NoRows
<1>6. ByModel(bag) = Empty
  BY <1>5 DEF ByModel, Empty
<1> QED
  BY <1>1, <1>3, <1>4, <1>6

Counted(bag) == {x.model : x \in {y \in Metrics : bag[y] > 0}}

\* A bag of which no metric of S is counted adds up to nothing there.
LEMMA Uncounted ==
    ASSUME NEW bag \in Bags, NEW S \in SUBSET Metrics, \A x \in S : bag[x] = 0
    PROVE  CountIn(bag, S) = 0 /\ TokensIn(bag, S) = 0
<1> DEFINE w == [x \in S |-> bag[x] * x.tokens]
<1>1. \A x \in S : w[x] = 0
  BY MetricsType
<1>2. /\ IsFiniteSet(S) /\ CountIn(bag, S) = Sum(bag, S) /\ TokensIn(bag, S) = Sum(w, S)
  BY BagSums
<1> HIDE DEF w
<1> QED
  BY <1>1, <1>2, SumZero

\* What UsageStats keeps of a model is what the rows say of it.
LEMMA ByModelAdds ==
    ASSUME NEW bag \in Bags, NEW x \in Metrics
    PROVE  ByModel(OneMore(bag, x)) = AddAt(ByModel(bag), x.model, x)
<1> DEFINE more == OneMore(bag, x)
           k == x.model
           f == ByModel(bag)
           g == ByModel(more)
           Es(m) == {y \in Metered(m) : y.status >= 400}
<1>1. /\ DOMAIN f = Counted(bag) /\ DOMAIN g = Counted(more)
      /\ \A m \in Counted(bag) : f[m] = Aggregate(bag, Metered(m))
      /\ \A m \in Counted(more) : g[m] = Aggregate(more, Metered(m))
      /\ f = [m \in Counted(bag) |-> f[m]] /\ g = [m \in Counted(more) |-> g[m]]
  BY DEF ByModel, Counted
<1>2. more \in Bags /\ bag[x] \in Nat /\ more[x] = bag[x] + 1
  BY DEF Bags, OneMore
<1>3. Counted(more) = Counted(bag) \cup {k}
  <2>1. \A y \in Metrics : y # x => more[y] = bag[y]
    BY DEF Bags, OneMore
  <2>2. {y \in Metrics : more[y] > 0} = {y \in Metrics : bag[y] > 0} \cup {x}
    BY <1>2, <2>1 DEF Bags
  <2> QED
    BY <2>2 DEF Counted
<1> HIDE DEF more
<1>4. \A m : Metered(m) \in SUBSET Metrics /\ Es(m) \in SUBSET Metrics
  BY DEF Metered
<1>5. \A S \in SUBSET Metrics :
          /\ CountIn(more, S) = CountIn(bag, S) + (IF x \in S THEN 1 ELSE 0)
          /\ TokensIn(more, S) = TokensIn(bag, S) + (IF x \in S THEN x.tokens ELSE 0)
  BY BagSumsAdd DEF AddsUp, more
<1>6. ASSUME NEW m \in Counted(bag), m # k PROVE g[m] = f[m]
  <2>1. x \notin Metered(m) /\ x \notin Es(m)
    BY <1>6 DEF Metered
  <2>2. Aggregate(more, Metered(m)) = Aggregate(bag, Metered(m))
    <3>1. CountIn(more, Metered(m)) = CountIn(bag, Metered(m)) + 0
      BY <1>4, <1>5, <2>1
    <3>2. CountIn(more, Es(m)) = CountIn(bag, Es(m)) + 0
      BY <1>4, <1>5, <2>1
    <3>3. TokensIn(more, Metered(m)) = TokensIn(bag, Metered(m)) + 0
      BY <1>4, <1>5, <2>1
    <3>4. /\ CountIn(bag, Metered(m)) \in Int /\ CountIn(bag, Es(m)) \in Int
          /\ TokensIn(bag, Metered(m)) \in Int
      BY <1>4, BagSums
    <3> QED
      BY <3>1, <3>2, <3>3, <3>4 DEF Aggregate
  <2> QED
    BY <1>1, <1>3, <1>6, <2>2
<1>7. g[k] = Plus(IF k \in Counted(bag) THEN f[k] ELSE Zero, One(x))
  <2>1. x \in Metered(k) /\ (x \in Es(k) <=> IsError(x))
    BY MetricsType DEF Metered, IsError
  <2> DEFINE c == CountIn(bag, Metered(k))
             e == CountIn(bag, Es(k))
             t == TokensIn(bag, Metered(k))
  <2>2. CountIn(more, Metered(k)) = c + 1
    BY <1>4, <1>5, <2>1
  <2>3. CountIn(more, Es(k)) = e + (IF IsError(x) THEN 1 ELSE 0)
    BY <1>4, <1>5, <2>1
  <2>4. TokensIn(more, Metered(k)) = t + x.tokens
    BY <1>4, <1>5, <2>1
  <2>5. Aggregate(more, Metered(k))
          = Plus([requests |-> c, errors |-> e, tokens |-> t], One(x))
    BY <2>2, <2>3, <2>4 DEF Aggregate, Plus, One
  <2>6. (IF k \in Counted(bag) THEN f[k] ELSE Zero)
          = [requests |-> c, errors |-> e, tokens |-> t]
    <3>1. CASE k \in Counted(bag)
      BY <1>1, <3>1 DEF Aggregate
    <3>2. CASE k \notin Counted(bag)
      <4>1. \A y \in Metered(k) : bag[y] = 0
        BY <3>2 DEF Counted, Metered, Bags
      <4>2. c = 0 /\ t = 0
        BY <1>4, <4>1, Uncounted
      <4>3. e = 0
        BY <1>4, <4>1, Uncounted
      <4> QED
        BY <3>2, <4>2, <4>3 DEF Zero
    <3> QED
      BY <3>1, <3>2
  <2>7. g[k] = Aggregate(more, Metered(k))
    BY <1>1, <1>3
  <2> QED
    BY <2>5, <2>6, <2>7
<1> HIDE DEF f, g, k
<1>8. AddAt(f, k, x) = [m \in Counted(bag) \cup {k} |->
                          IF m # k THEN f[m]
                          ELSE Plus(IF k \in Counted(bag) THEN f[k] ELSE Zero, One(x))]
  BY <1>1 DEF AddAt
<1>9. AddAt(f, k, x) = g
  BY <1>1, <1>3, <1>6, <1>7, <1>8
<1> QED
  BY <1>9 DEF f, g, k, more

\* The models of GetUsageSnapshot's second query add up to its rows.
LEMMA ModelsTotal ==
    ASSUME NEW bag \in Bags
    PROVE  /\ Counters(ByModel(bag))
           /\ Total(ByModel(bag)) = CountIn(bag, Metrics)
<1> DEFINE C == {x.model : x \in Metrics}
           D == Counted(bag)
           f == ByModel(bag)
           class == [x \in Metrics |-> x.model]
           h == [c \in C |-> Sum(bag, {x \in Metrics : class[x] = c})]
<1>1. DOMAIN f = D /\ \A m \in D : f[m] = Aggregate(bag, Metered(m))
  BY DEF ByModel, Counted
<1>2. IsFiniteSet(C) /\ D \in SUBSET C /\ IsFiniteSet(D)
  <2>1. IsFiniteSet(C)
    <3>1. class \in Surjection(Metrics, C)
      BY DEF Surjection
    <3> HIDE DEF class, C
    <3> QED
      BY <3>1, MetricsType, FS_Surjection
  <2>2. D \in SUBSET C
    BY DEF Counted
  <2> QED
    BY <2>1, <2>2, FS_Subset
<1>3. \A m : Metered(m) \in SUBSET Metrics /\ Metered(m) = {x \in Metrics : class[x] = m}
  BY DEF Metered
<1>4. \A m : CountIn(bag, Metered(m)) \in Int /\ CountIn(bag, Metered(m)) = Sum(bag, Metered(m))
  BY <1>3, BagSums
<1>5. \A m \in C : h[m] = CountIn(bag, Metered(m))
  BY <1>3, <1>4
<1>6. \A m \in C \ D : h[m] = 0
  <2> SUFFICES ASSUME NEW m \in C \ D PROVE h[m] = 0
    OBVIOUS
  <2>1. \A y \in Metered(m) : bag[y] = 0
    BY DEF Counted, Metered, Bags
  <2>2. CountIn(bag, Metered(m)) = 0
    BY <1>3, <2>1, Uncounted
  <2> QED
    BY <1>5, <2>2
<1>7. \A m \in D : f[m].requests = h[m] /\ f[m].requests \in Int
  <2> SUFFICES ASSUME NEW m \in D PROVE f[m].requests = h[m] /\ f[m].requests \in Int
    OBVIOUS
  <2>1. m \in C
    BY <1>2
  <2> HIDE DEF f, h, D, C
  <2>2. f[m] = Aggregate(bag, Metered(m))
    BY <1>1
  <2>3. f[m].requests = CountIn(bag, Metered(m))
    BY <2>2 DEF Aggregate
  <2> QED
    BY <1>4, <1>5, <2>1, <2>3
<1> HIDE DEF D, f, h, C
<1>8. Counters(f)
  BY <1>1, <1>2, <1>7 DEF Counters
<1>9. Agree(h, Requested(f), D) /\ OnInts(h, D)
  BY <1>1, <1>7 DEF Agree, Requested, OnInts
<1>10. OnInts(h, C)
  BY <1>4, <1>5 DEF OnInts
<1>11. Total(f) = Sum(Requested(f), D)
  BY <1>1, <1>8, TotalSum
<1>12. Sum(Requested(f), D) = Sum(h, D)
  BY <1>2, <1>9, SumSame
<1>13. Sum(h, D) = Sum(h, C)
  BY <1>2, <1>6, <1>10, SumSub
<1>14. Sum(h, C) = Sum(bag, Metrics)
  <2>1. IsFiniteSet(Metrics) /\ OnInts(bag, Metrics)
    BY BagSums
  <2>2. \A x \in Metrics : class[x] \in C
    BY DEF C
  <2> HIDE DEF class
  <2>3. Sum([c \in C |-> Sum(bag, {x \in Metrics : class[x] = c})], C) = Sum(bag, Metrics)
    BY <1>2, <2>1, <2>2, SumSplit
  <2> QED
    BY <2>3 DEF h
<1>15. CountIn(bag, Metrics) = Sum(bag, Metrics)
  BY BagSums
<1>16. Total(f) = CountIn(bag, Metrics)
  BY <1>11, <1>12, <1>13, <1>14, <1>15
<1> QED
  BY <1>8, <1>16 DEF f

-----------------------------------------------------------------------------
\* The types, and the account of the rows: every request has been counted once
\* as a row, as lost or as still on its way.
RecStates == [pc : {"idle", "serving"}]
               \cup [pc : {"insert", "append", "update"}, metric : Metrics]
Lines == {Trace(x) : x \in Metrics}

Types ==
    /\ rec \in [Recorders -> RecStates]
    /\ rows \in Bags /\ unsaved \in Bags /\ unlogged \in Bags /\ oldRows \in Bags
    /\ \A x \in Metrics : oldRows[x] <= rows[x]
    /\ replay \in Seq(Lines) /\ oldLines \in 0..Len(replay)
    /\ lost \in Nat /\ records \in Nat

\* Reading, and what else leaves the sinks and the recorders alone.
Reading == \/ QueryTotals \/ QueryModels \/ QueryFails
           \/ \E s \in DOMAIN sessions : CopySummary(s)
           \/ SendSummary \/ Answered
Resting == UNCHANGED <<memory, disk, rec, records, history>>

LEMMA Rests == ASSUME Reading \/ Shutdown \/ UNCHANGED vars PROVE Resting
BY DEF Reading, Resting, QueryTotals, QueryModels, QueryFails, CopySummary, SendSummary,
       Answered, ReadOnly, Shutdown, vars, memory, disk, history, counts

\* One recorder moves.
Moved(r) == /\ rec' \in [Recorders -> RecStates]
            /\ \A q \in Recorders \ {r} : rec'[q] = rec[q]

LEMMA StepMoves ==
    ASSUME Types, NEW r \in Recorders, NEW CONSTANT from \in {"insert", "append", "update"},
           NEW CONSTANT to \in {"insert", "append", "update"}, Step(r, from, to)
    PROVE  /\ Moved(r) /\ rec[r].pc = from /\ rec[r].metric \in Metrics
           /\ rec'[r].pc = to /\ rec'[r].metric = rec[r].metric
<1>1. rec[r] \in [pc : {"insert", "append", "update"}, metric : Metrics]
  BY DEF Types, RecStates, Step
<1>2. rec'[r] = [rec[r] EXCEPT !.pc = to] /\ \A q \in Recorders \ {r} : rec'[q] = rec[q]
  BY DEF Types, Step
<1>3. rec'[r] = [pc |-> to, metric |-> rec[r].metric]
  BY <1>1, <1>2
<1>4. rec' = [q \in Recorders |-> rec'[q]]
  BY DEF Types, Step
<1>5. rec'[r] \in RecStates
  BY <1>1, <1>3 DEF RecStates
<1>6. rec' \in [Recorders -> RecStates]
  BY <1>2, <1>4, <1>5 DEF Types
<1> QED
  BY <1>1, <1>2, <1>3, <1>6 DEF Moved, Step

LEMMA SetMoves ==
    ASSUME Types, NEW r \in Recorders, NEW v \in RecStates, rec' = [rec EXCEPT ![r] = v]
    PROVE  Moved(r) /\ rec'[r] = v
BY DEF Types, Moved

Those(P, M) == {r \in At(P) : rec[r].metric \in M}

LEMMA MovedSets ==
    ASSUME Types, NEW r \in Recorders, Moved(r), NEW CONSTANT P, NEW CONSTANT M
    PROVE  /\ At(P)' = IF rec'[r].pc \in P THEN At(P) \cup {r} ELSE At(P) \ {r}
           /\ Those(P, M)' = IF rec'[r].pc \in P /\ rec'[r].metric \in M
                             THEN Those(P, M) \cup {r} ELSE Those(P, M) \ {r}
           /\ r \in At(P) <=> rec[r].pc \in P
           /\ r \in Those(P, M) <=> rec[r].pc \in P /\ rec[r].metric \in M
<1>1. At(P)' = {q \in Recorders : rec'[q].pc \in P}
  BY DEF At
<1>2. Those(P, M)' = {q \in At(P)' : rec'[q].metric \in M}
  BY DEF Those
<1> QED
  BY <1>1, <1>2 DEF At, Those, Moved

LEMMA SetSizes ==
    ASSUME NEW P, NEW M
    PROVE  /\ IsFiniteSet(At(P)) /\ IsFiniteSet(Those(P, M))
           /\ Cardinality(At(P)) \in Nat /\ Cardinality(Those(P, M)) \in Nat
BY MetricsType, FS_Subset, FS_CardinalityType DEF At, Those

LEMMA TypesHold == Spec => []Types
<1>1. Init => Types
  BY DEF Init, Types, NoRows, Bags, Idle, RecStates
<1>2. Types /\ [Next]_vars => Types'
  <2> SUFFICES ASSUME Types, [Next]_vars PROVE Types'
    OBVIOUS
  <2>1. ASSUME NEW r \in Recorders, Accept(r) PROVE Types'
    BY <2>1, SetMoves DEF Accept, Types, RecStates, Moved, disk, history
  <2>2. ASSUME NEW r \in Recorders, NEW x \in Metrics, Count(r, x) PROVE Types'
    BY <2>2 DEF Count, Types, RecStates, disk, history, counts
  <2>3. ASSUME NEW r \in Recorders, Insert(r) PROVE Types'
    <3>1. Moved(r) /\ rec[r].metric \in Metrics
      BY <2>3, StepMoves DEF Insert
    <3>2. /\ rows' \in Bags /\ \A x \in Metrics : rows[x] <= rows'[x]
      BY <2>3, <3>1 DEF Insert, Types, Bags
    <3>3. \A x \in Metrics : oldRows[x] <= rows'[x]
      BY <3>2 DEF Types, Bags
    <3> QED
      BY <2>3, <3>1, <3>2, <3>3 DEF Insert, Types, Moved, memory, history, counts
  <2>4. ASSUME NEW r \in Recorders, InsertFails(r) PROVE Types'
    <3>1. Moved(r) /\ rec[r].metric \in Metrics
      BY <2>4, StepMoves DEF InsertFails
    <3>2. unsaved' \in Bags
      BY <2>4, <3>1 DEF InsertFails, Types, Bags
    <3> QED
      BY <2>4, <3>1, <3>2 DEF InsertFails, Types, Moved, memory, disk, counts
  <2>5. ASSUME NEW r \in Recorders, AppendLine(r) PROVE Types'
    <3>1. Moved(r) /\ rec[r].metric \in Metrics
      BY <2>5, StepMoves DEF AppendLine
    <3>2. replay' \in Seq(Lines) /\ oldLines' \in 0..Len(replay')
      BY <2>5, <3>1 DEF AppendLine, Types, Lines, history
    <3> QED
      BY <2>5, <3>1, <3>2 DEF AppendLine, Types, Moved, memory, history, counts
  <2>6. ASSUME NEW r \in Recorders, AppendFails(r) PROVE Types'
    <3>1. Moved(r) /\ rec[r].metric \in Metrics
      BY <2>6, StepMoves DEF AppendFails
    <3>2. unlogged' \in Bags
      BY <2>6, <3>1 DEF AppendFails, Types, Bags
    <3> QED
      BY <2>6, <3>1, <3>2 DEF AppendFails, Types, Moved, memory, disk, counts
  <2>7. ASSUME NEW r \in Recorders, Update(r) PROVE Types'
    <3>1. Idle \in RecStates
      BY DEF Idle, RecStates
    <3>2. Moved(r)
      BY <2>7, <3>1, SetMoves DEF Update
    <3> QED
      BY <2>7, <3>2 DEF Update, Types, Moved, disk, history, counts
  <2>8. ASSUME Resting PROVE Types'
    BY <2>8 DEF Resting, Types, memory, disk, history
  <2>9. ASSUME StartAgain, lost' \in Nat PROVE Types'
    <3>1. rec' \in [Recorders -> RecStates]
      BY <2>9 DEF StartAgain, Idle, RecStates
    <3>2. NoRows \in Bags
      BY DEF NoRows, Bags
    <3>3. \A x \in Metrics : oldRows'[x] <= rows'[x]
      BY <2>9 DEF StartAgain, Types, Bags, disk
    <3> QED
      BY <2>9, <3>1, <3>2, <3>3 DEF StartAgain, Types, disk
  <2>10. Exit => lost' \in Nat
    BY DEF Exit, Types
  <2>11. CutOff => lost' \in Nat
    BY SetSizes DEF CutOff, Types
  <2> QED
    BY <2>1, <2>2, <2>3, <2>4, <2>5, <2>6, <2>7, <2>8, <2>9, <2>10, <2>11, Rests
       DEF Next, Reading, Exit, CutOff
<1> QED
  BY <1>1, <1>2, PTL DEF Spec

-----------------------------------------------------------------------------
\* The account of the rows.
LEMMA AccountNext == Types /\ DurableAccount /\ [Next]_vars => DurableAccount'
<1> SUFFICES ASSUME Types, DurableAccount, [Next]_vars PROVE DurableAccount'
  OBVIOUS
<1> DEFINE P == {"serving", "insert"}
           n == Cardinality(At(P))
<1>1. /\ AllRows \in Int /\ n \in Nat /\ IsFiniteSet(At(P)) /\ lost \in Nat /\ records \in Nat
      /\ records = AllRows + lost + n
  BY BagSums, SetSizes DEF Types, AllRows, DurableAccount
<1>2. DurableAccount' <=> records' = AllRows' + lost' + Cardinality(At(P)')
  BY DEF DurableAccount
<1>3. rows' = rows => AllRows' = AllRows
  BY DEF AllRows
<1>4. ASSUME NEW r \in Recorders, Moved(r)
      PROVE  /\ rec[r].pc \notin P /\ rec'[r].pc \in P => Cardinality(At(P)') = n + 1
             /\ rec[r].pc \in P /\ rec'[r].pc \notin P => Cardinality(At(P)') = n - 1
             /\ (rec[r].pc \in P <=> rec'[r].pc \in P) => Cardinality(At(P)') = n
  <2>1. /\ At(P)' = IF rec'[r].pc \in P THEN At(P) \cup {r} ELSE At(P) \ {r}
        /\ r \in At(P) <=> rec[r].pc \in P
    BY <1>4, MovedSets
  <2>2. r \notin At(P) => Cardinality(At(P) \cup {r}) = n + 1
    BY <1>1, FS_AddElement
  <2>3. r \in At(P) => Cardinality(At(P) \ {r}) = n - 1
    BY <1>1, FS_RemoveElement
  <2>4. (r \in At(P) => At(P) \cup {r} = At(P)) /\ (r \notin At(P) => At(P) \ {r} = At(P))
    OBVIOUS
  <2> HIDE DEF P
  <2> QED
    BY <2>1, <2>2, <2>3, <2>4
<1> HIDE DEF n
<1>5. ASSUME NEW r \in Recorders, Accept(r) PROVE DurableAccount'
  <2> DEFINE v == [pc |-> "serving"]
  <2>1. v \in RecStates /\ v.pc = "serving"
    BY DEF RecStates
  <2>2. Moved(r) /\ rec'[r].pc = "serving" /\ rec[r].pc = "idle"
    <3>1. rec' = [rec EXCEPT ![r] = v] /\ rec[r].pc = "idle"
      BY <1>5 DEF Accept
    <3> HIDE DEF v
    <3> QED
      BY <2>1, <3>1, SetMoves
  <2>3. Cardinality(At(P)') = n + 1
    BY <1>4, <2>2
  <2>4. records' = records + 1 /\ lost' = lost /\ rows' = rows
    BY <1>5 DEF Accept, disk, history
  <2> QED
    BY <1>1, <1>2, <1>3, <2>3, <2>4
<1>6. ASSUME NEW r \in Recorders, NEW x \in Metrics, Count(r, x) PROVE DurableAccount'
  <2> DEFINE v == [pc |-> "insert", metric |-> x]
  <2>1. v \in RecStates /\ v.pc = "insert"
    BY DEF RecStates
  <2>2. Moved(r) /\ rec'[r].pc = "insert" /\ rec[r].pc = "serving"
    <3>1. rec' = [rec EXCEPT ![r] = v] /\ rec[r].pc = "serving"
      BY <1>6 DEF Count
    <3> HIDE DEF v
    <3> QED
      BY <2>1, <3>1, SetMoves
  <2>3. Cardinality(At(P)') = n
    BY <1>4, <2>2
  <2>4. records' = records /\ lost' = lost /\ rows' = rows
    BY <1>6 DEF Count, disk, history, counts
  <2> QED
    BY <1>1, <1>2, <1>3, <2>3, <2>4
<1>7. ASSUME NEW r \in Recorders, Insert(r) \/ InsertFails(r) PROVE DurableAccount'
  <2>1. /\ Moved(r) /\ rec[r].pc = "insert" /\ rec'[r].pc = "append"
        /\ rec[r].metric \in Metrics
    BY <1>7, StepMoves DEF Insert, InsertFails
  <2>2. Cardinality(At(P)') = n - 1
    BY <1>4, <2>1
  <2>3. CASE Insert(r)
    <3>1. /\ records' = records /\ lost' = lost
          /\ rows' = OneMore(rows, rec[r].metric)
      BY <2>3 DEF Insert, history, counts, OneMore
    <3>2. AddsUp(rows, rec[r].metric, Metrics)
      BY <2>1, BagSumsAdd DEF Types
    <3>3. AllRows' = AllRows + 1
      BY <2>1, <3>1, <3>2 DEF AddsUp, AllRows
    <3> QED
      BY <1>1, <1>2, <2>2, <3>1, <3>3
  <2>4. CASE InsertFails(r)
    <3>1. records' = records /\ lost' = lost + 1 /\ rows' = rows
      BY <2>4 DEF InsertFails, disk, counts
    <3> QED
      BY <1>1, <1>2, <1>3, <2>2, <3>1
  <2> QED
    BY <1>7, <2>3, <2>4
<1>8. ASSUME NEW r \in Recorders, AppendLine(r) \/ AppendFails(r) \/ Update(r)
      PROVE  DurableAccount'
  <2>1. Moved(r) /\ rec[r].pc \notin P /\ rec'[r].pc \notin P
    <3>1. CASE AppendLine(r) \/ AppendFails(r)
      BY <3>1, StepMoves DEF AppendLine, AppendFails
    <3>2. CASE Update(r)
      <4>1. Idle \in RecStates /\ Idle.pc = "idle"
        BY DEF Idle, RecStates
      <4> QED
        BY <3>2, <4>1, SetMoves DEF Update
    <3> QED
      BY <1>8, <3>1, <3>2
  <2>2. Cardinality(At(P)') = n
    <3> HIDE DEF P
    <3> QED
      BY <1>4, <2>1
  <2>3. records' = records /\ lost' = lost /\ rows' = rows
    BY <1>8 DEF AppendLine, AppendFails, Update, disk, counts, history
  <2> QED
    BY <1>1, <1>2, <1>3, <2>2, <2>3
<1>9. ASSUME Resting PROVE DurableAccount'
  <2>1. At(P)' = At(P) /\ records' = records /\ lost' = lost /\ rows' = rows
    BY <1>9 DEF Resting, At, disk, history
  <2> QED
    BY <1>1, <1>2, <1>3, <2>1 DEF n
<1>10. ASSUME StartAgain, lost' = lost + n PROVE DurableAccount'
  <2>1. At(P)' = {} /\ records' = records /\ rows' = rows
    BY <1>10 DEF StartAgain, At, Idle, disk
  <2> QED
    BY <1>1, <1>2, <1>3, <1>10, <2>1, FS_EmptySet
<1>11. Exit => StartAgain /\ lost' = lost + n
  <2> SUFFICES ASSUME Exit PROVE StartAgain /\ lost' = lost + n
    OBVIOUS
  <2>1. At(P) = {}
    <3>1. \A r \in Recorders : rec[r].pc = "idle"
      BY DEF Exit, At
    <3> QED
      BY <3>1 DEF At
  <2> QED
    BY <1>1, <2>1, FS_EmptySet DEF Exit, n
<1>12. CutOff => StartAgain /\ lost' = lost + n
  BY DEF CutOff, n
<1> QED
  BY <1>5, <1>6, <1>7, <1>8, <1>9, <1>10, <1>11, <1>12, Rests DEF Next, Reading

\* main.go:153: Shutdown waits for the requests in flight.  Whatever fails, is cut
\* off or started again, a request without a row is either still on its way to one
\* or was lost to an insert that failed or to a process that did not wait.
THEOREM RowsAccounted == Spec => []DurableAccount
<1>1. Init => DurableAccount
  <2> SUFFICES ASSUME Init PROVE DurableAccount
    OBVIOUS
  <2>1. CountIn(rows, Metrics) = 0
    BY NothingCounted DEF Init
  <2>2. At({"serving", "insert"}) = {}
    BY DEF Init, At, Idle
  <2> QED
    BY <2>1, <2>2, FS_EmptySet DEF Init, DurableAccount, AllRows
<1> QED
  BY <1>1, AccountNext, TypesHold, PTL DEF Spec

-----------------------------------------------------------------------------
\* The statistics against the rows.
Waiting(x) == Cardinality(Those({"insert"}, {x}))
Ledger == [x \in Metrics |-> rows[x] - oldRows[x] + unsaved[x] + Waiting(x)]
Sinks == /\ usage.models = ByModel(Ledger)
         /\ usage.total = CountIn(Ledger, Metrics)
         /\ usage.tokens = TokensIn(Ledger, Metrics)

LEMMA SinksMeaning == SinksAgree <=> Sinks
<1>1. \A x \in Metrics : Busy(x, {"insert"}) = Waiting(x)
  <2>1. \A x \in Metrics :
          {r \in At({"insert"}) : rec[r].metric = x} = Those({"insert"}, {x})
    BY DEF Those
  <2> QED
    BY <2>1 DEF Busy, Waiting
<1>2. Ledger = [x \in Metrics |-> rows[x] - oldRows[x] + unsaved[x] + Busy(x, {"insert"})]
  BY <1>1 DEF Ledger
<1> QED
  BY <1>2 DEF SinksAgree, Sinks

LEMMA LedgerType == ASSUME Types PROVE Ledger \in Bags
<1>1. \A x \in Metrics : Waiting(x) \in Nat
  BY SetSizes DEF Waiting
<1>2. \A x \in Metrics : rows[x] - oldRows[x] \in Nat /\ unsaved[x] \in Nat
  BY DEF Types, Bags
<1> QED
  BY <1>1, <1>2 DEF Ledger, Bags

\* How a recorder's move changes what waits to be inserted.
LEMMA WaitingMoves ==
    ASSUME Types, NEW r \in Recorders, Moved(r), NEW CONSTANT x
    PROVE  LET was == rec[r].pc = "insert" /\ rec[r].metric = x
               is == rec'[r].pc = "insert" /\ rec'[r].metric = x
           IN  /\ ~ was /\ is => Waiting(x)' = Waiting(x) + 1
               /\ was /\ ~ is => Waiting(x)' = Waiting(x) - 1
               /\ (was <=> is) => Waiting(x)' = Waiting(x)
<1> DEFINE T == Those({"insert"}, {x})
           was == rec[r].pc = "insert" /\ rec[r].metric = x
           is == rec'[r].pc = "insert" /\ rec'[r].metric = x
<1>1. T' = (IF is THEN T \cup {r} ELSE T \ {r}) /\ (r \in T <=> was)
  BY MovedSets
<1>2. IsFiniteSet(T) /\ Cardinality(T) \in Nat
  BY SetSizes
<1>3. r \notin T => Cardinality(T \cup {r}) = Cardinality(T) + 1
  BY <1>2, FS_AddElement
<1>4. r \in T => Cardinality(T \ {r}) = Cardinality(T) - 1
  BY <1>2, FS_RemoveElement
<1>5. (r \in T => T \cup {r} = T) /\ (r \notin T => T \ {r} = T)
  OBVIOUS
<1>6. Waiting(x) = Cardinality(T) /\ Waiting(x)' = Cardinality(T')
  BY DEF Waiting
<1> HIDE DEF T, was, is
<1>7. /\ ~ was /\ is => Waiting(x)' = Waiting(x) + 1
      /\ was /\ ~ is => Waiting(x)' = Waiting(x) - 1
      /\ (was <=> is) => Waiting(x)' = Waiting(x)
  BY <1>1, <1>2, <1>3, <1>4, <1>5, <1>6
<1> QED
  BY <1>7 DEF was, is

LEMMA SinksNext == Types /\ Sinks /\ [Next]_vars => Sinks'
<1> SUFFICES ASSUME Types, Sinks, [Next]_vars PROVE Sinks'
  OBVIOUS
<1> DEFINE Same == Ledger' = Ledger /\ usage' = usage
<1>1. ASSUME Same PROVE Sinks'
  BY <1>1 DEF Sinks
<1>2. \A x \in Metrics : /\ rows[x] \in Nat /\ oldRows[x] \in Nat /\ unsaved[x] \in Nat
                         /\ Waiting(x) \in Nat
  BY SetSizes DEF Types, Bags, Waiting
<1>3. Ledger' = [x \in Metrics |-> rows'[x] - oldRows'[x] + unsaved'[x] + Waiting(x)']
  BY DEF Ledger
<1>4. ASSUME NEW r \in Recorders, Accept(r) PROVE Same
  <2> DEFINE v == [pc |-> "serving"]
  <2>1. v \in RecStates /\ v.pc = "serving"
    BY DEF RecStates
  <2>2. Moved(r) /\ rec'[r].pc = "serving" /\ rec[r].pc = "idle"
    <3>1. rec' = [rec EXCEPT ![r] = v] /\ rec[r].pc = "idle"
      BY <1>4 DEF Accept
    <3> HIDE DEF v
    <3> QED
      BY <2>1, <3>1, SetMoves
  <2>3. \A x \in Metrics : Waiting(x)' = Waiting(x)
    BY <2>2, WaitingMoves
  <2>4. UNCHANGED <<rows, oldRows, unsaved, usage>>
    BY <1>4 DEF Accept, memory, disk, history
  <2> QED
    BY <1>3, <2>3, <2>4 DEF Ledger
<1>5. ASSUME NEW r \in Recorders, NEW x \in Metrics, Count(r, x) PROVE Sinks'
  <2> DEFINE v == [pc |-> "insert", metric |-> x]
  <2>1. v \in RecStates /\ v.pc = "insert" /\ v.metric = x
    BY DEF RecStates
  <2>2. Moved(r) /\ rec'[r].pc = "insert" /\ rec'[r].metric = x /\ rec[r].pc = "serving"
    <3>1. rec' = [rec EXCEPT ![r] = v] /\ rec[r].pc = "serving"
      BY <1>5 DEF Count
    <3> HIDE DEF v
    <3> QED
      BY <2>1, <3>1, SetMoves
  <2>3. \A y \in Metrics : Waiting(y)' = IF y = x THEN Waiting(y) + 1 ELSE Waiting(y)
    BY <2>2, WaitingMoves
  <2>4. UNCHANGED <<rows, oldRows, unsaved>>
    BY <1>5 DEF Count, disk, history
  <2>5. Ledger' = OneMore(Ledger, x)
    <3>1. \A y \in Metrics : Ledger'[y] = IF y = x THEN Ledger[y] + 1 ELSE Ledger[y]
      BY <1>2, <1>3, <2>3, <2>4 DEF Ledger
    <3> QED
      BY <1>3, <3>1 DEF Ledger, OneMore
  <2>6. /\ usage'.total = usage.total + 1 /\ usage'.tokens = usage.tokens + x.tokens
        /\ usage'.models = AddAt(usage.models, x.model, x)
    BY <1>5 DEF Count
  <2>7. Ledger \in Bags
    BY LedgerType
  <2> HIDE DEF v
  <2>8. AddsUp(Ledger, x, Metrics)
    BY <2>7, BagSumsAdd
  <2>9. ByModel(OneMore(Ledger, x)) = AddAt(ByModel(Ledger), x.model, x)
    BY <2>7, ByModelAdds
  <2>10. /\ usage'.models = ByModel(Ledger')
         /\ usage'.total = CountIn(Ledger', Metrics)
         /\ usage'.tokens = TokensIn(Ledger', Metrics)
    BY <2>5, <2>6, <2>8, <2>9 DEF Sinks, AddsUp
  <2> QED
    BY <2>10 DEF Sinks
<1>6. ASSUME NEW r \in Recorders, Insert(r) PROVE Same
  <2> DEFINE m == rec[r].metric
  <2>1. /\ Moved(r) /\ rec[r].pc = "insert" /\ rec'[r].pc = "append" /\ m \in Metrics
    BY <1>6, StepMoves DEF Insert
  <2>2. \A x \in Metrics : Waiting(x)' = IF x = m THEN Waiting(x) - 1 ELSE Waiting(x)
    BY <2>1, WaitingMoves
  <2>3. /\ UNCHANGED <<oldRows, unsaved, usage>>
        /\ rows' = [rows EXCEPT ![m] = @ + 1]
    BY <1>6 DEF Insert, memory, history
  <2>4. \A x \in Metrics : rows'[x] = IF x = m THEN rows[x] + 1 ELSE rows[x]
    BY <2>3 DEF Types, Bags
  <2> HIDE DEF m
  <2>5. \A x \in Metrics : Ledger'[x] = Ledger[x]
    BY <1>2, <1>3, <2>2, <2>3, <2>4 DEF Ledger
  <2> QED
    BY <1>3, <2>3, <2>5 DEF Ledger
<1>7. ASSUME NEW r \in Recorders, InsertFails(r) PROVE Same
  <2> DEFINE m == rec[r].metric
  <2>1. /\ Moved(r) /\ rec[r].pc = "insert" /\ rec'[r].pc = "append" /\ m \in Metrics
    BY <1>7, StepMoves DEF InsertFails
  <2>2. \A x \in Metrics : Waiting(x)' = IF x = m THEN Waiting(x) - 1 ELSE Waiting(x)
    BY <2>1, WaitingMoves
  <2>3. /\ UNCHANGED <<rows, oldRows, usage>>
        /\ unsaved' = [unsaved EXCEPT ![m] = @ + 1]
    BY <1>7 DEF InsertFails, memory, disk
  <2>4. \A x \in Metrics : unsaved'[x] = IF x = m THEN unsaved[x] + 1 ELSE unsaved[x]
    BY <2>3 DEF Types, Bags
  <2> HIDE DEF m
  <2>5. \A x \in Metrics : Ledger'[x] = Ledger[x]
    BY <1>2, <1>3, <2>2, <2>3, <2>4 DEF Ledger
  <2> QED
    BY <1>3, <2>3, <2>5 DEF Ledger
<1>8. ASSUME NEW r \in Recorders, AppendLine(r) \/ AppendFails(r) \/ Update(r) PROVE Same
  <2>1. Moved(r) /\ rec[r].pc # "insert" /\ rec'[r].pc # "insert"
    <3>1. CASE AppendLine(r) \/ AppendFails(r)
      BY <3>1, StepMoves DEF AppendLine, AppendFails
    <3>2. CASE Update(r)
      <4>1. Idle \in RecStates /\ Idle.pc = "idle"
        BY DEF Idle, RecStates
      <4> QED
        BY <3>2, <4>1, SetMoves DEF Update
    <3> QED
      BY <1>8, <3>1, <3>2
  <2>2. \A x \in Metrics : Waiting(x)' = Waiting(x)
    BY <2>1, WaitingMoves
  <2>3. UNCHANGED <<rows, oldRows, unsaved, usage>>
    BY <1>8 DEF AppendLine, AppendFails, Update, memory, disk, history
  <2> QED
    BY <1>3, <2>2, <2>3 DEF Ledger
<1>9. ASSUME Resting PROVE Same
  <2>1. \A x \in Metrics : Waiting(x)' = Waiting(x)
    BY <1>9 DEF Resting, Waiting, Those, At
  <2> QED
    BY <1>3, <1>9, <2>1 DEF Resting, Ledger, memory, disk, history
<1>10. ASSUME StartAgain PROVE Sinks'
  <2>1. \A x \in Metrics : Waiting(x)' = 0
    <3>1. \A x \in Metrics : Those({"insert"}, {x})' = {}
      BY <1>10 DEF StartAgain, Those, At, Idle
    <3> QED
      BY <3>1, FS_EmptySet DEF Waiting
  <2>2. /\ rows' = rows /\ oldRows' = rows /\ unsaved' = NoRows /\ usage' = NoUsage
    BY <1>10 DEF StartAgain, disk
  <2>3. \A x \in Metrics : rows'[x] - oldRows'[x] + unsaved'[x] + Waiting(x)' = 0
    BY <1>2, <2>1, <2>2 DEF NoRows
  <2>4. Ledger' = NoRows
    BY <1>3, <2>3 DEF NoRows
  <2>5. /\ CountIn(Ledger', Metrics) = 0 /\ TokensIn(Ledger', Metrics) = 0
        /\ ByModel(Ledger') = Empty
    BY <2>4, NothingCounted
  <2> QED
    BY <2>2, <2>5 DEF Sinks, NoUsage
<1> QED
  BY <1>1, <1>4, <1>5, <1>6, <1>7, <1>8, <1>9, <1>10, Rests
     DEF Next, Reading, Exit, CutOff

LEMMA SinksHold == Spec => []Sinks
<1>1. Init => Sinks
  <2> SUFFICES ASSUME Init PROVE Sinks
    OBVIOUS
  <2>1. \A x \in Metrics : Waiting(x) = 0
    <3>1. \A x \in Metrics : Those({"insert"}, {x}) = {}
      BY DEF Init, Those, At, Idle
    <3> QED
      BY <3>1, FS_EmptySet DEF Waiting
  <2>2. Ledger = NoRows
    BY <2>1 DEF Init, Ledger, NoRows
  <2>3. /\ CountIn(Ledger, Metrics) = 0 /\ TokensIn(Ledger, Metrics) = 0
        /\ ByModel(Ledger) = Empty
    BY <2>2, NothingCounted
  <2> QED
    BY <2>3 DEF Init, Sinks, NoUsage
<1> QED
  BY <1>1, SinksNext, TypesHold, PTL DEF Spec

\* stats.go:61 and postgres.go:203: what is in memory and what is in Postgres tell
\* the same of the requests since the restart, whatever metrics they record and
\* whichever inserts fail.
THEOREM StatisticsAgree == Spec => []SinksAgree
BY SinksHold, SinksMeaning, PTL

-----------------------------------------------------------------------------
\* The statistics an administrator is sent.
Reported ==
    /\ reader.pc = "models" =>
          /\ reader.since.rows \in Int /\ reader.since.usage \in Int /\ reader.total \in Int
          /\ reader.since.rows <= reader.total /\ reader.total <= AllRows
          /\ reader.since.usage <= usage.total
    /\ reader.pc = "stats" => reader.total \in Int /\ Total(reader.models) \in Int
    /\ StatsBracketed

LEMMA TotalsType ==
    ASSUME Types, Sinks
    PROVE  /\ AllRows \in Int /\ usage.total \in Int
           /\ usage.total = Total(usage.models)
           /\ AllRows = Total(ByModel(rows))
<1>1. rows \in Bags /\ Ledger \in Bags
  BY LedgerType DEF Types
<1>2. CountIn(rows, Metrics) \in Int /\ CountIn(Ledger, Metrics) \in Int
  BY <1>1, BagSums
<1>3. /\ Total(ByModel(rows)) = CountIn(rows, Metrics)
      /\ Total(ByModel(Ledger)) = CountIn(Ledger, Metrics)
  BY <1>1, ModelsTotal
<1> QED
  BY <1>2, <1>3 DEF AllRows, Sinks

Grown == /\ AllRows <= AllRows' /\ AllRows' \in Int
         /\ usage.total <= usage'.total /\ usage'.total \in Int

\* While the process runs no row and no count goes away.
LEMMA TotalsGrow ==
    ASSUME Types, Sinks, [Next]_vars
    PROVE  Grown \/ StartAgain
<1>1. AllRows \in Int /\ usage.total \in Int
  BY TotalsType
<1>2. rows' = rows => AllRows' = AllRows
  BY DEF AllRows
<1>3. ASSUME UNCHANGED <<rows, usage>>
      PROVE  Grown
  BY <1>1, <1>2, <1>3 DEF Grown
<1>4. ASSUME NEW r \in Recorders, NEW x \in Metrics, Count(r, x)
      PROVE  Grown
  <2>1. rows' = rows /\ usage'.total = usage.total + 1
    BY <1>4 DEF Count, disk
  <2> QED
    BY <1>1, <1>2, <2>1 DEF Grown
<1>5. ASSUME NEW r \in Recorders, Insert(r)
      PROVE  Grown
  <2>1. rec[r].metric \in Metrics
    BY <1>5, StepMoves DEF Insert
  <2>2. usage' = usage /\ rows' = OneMore(rows, rec[r].metric)
    BY <1>5 DEF Insert, memory, OneMore
  <2>3. AddsUp(rows, rec[r].metric, Metrics)
    BY <2>1, BagSumsAdd DEF Types
  <2>4. AllRows' = AllRows + 1
    BY <2>1, <2>2, <2>3 DEF AddsUp, AllRows
  <2> QED
    BY <1>1, <2>2, <2>4 DEF Grown
<1>6. \A r \in Recorders : Accept(r) \/ InsertFails(r) \/ AppendLine(r) \/ AppendFails(r)
                             \/ Update(r) => UNCHANGED <<rows, usage>>
  BY DEF Accept, InsertFails, AppendLine, AppendFails, Update, memory, disk
<1>7. Resting => UNCHANGED <<rows, usage>>
  BY DEF Resting, memory, disk
<1> QED
  BY <1>3, <1>4, <1>5, <1>6, <1>7, Rests DEF Next, Reading, Exit, CutOff

LEMMA ReportedNext == Types /\ Sinks /\ Reported /\ [Next]_vars => Reported'
<1> SUFFICES ASSUME Types, Sinks, Reported, [Next]_vars PROVE Reported'
  OBVIOUS
<1>1. /\ AllRows \in Int /\ usage.total \in Int
      /\ usage.total = Total(usage.models) /\ AllRows = Total(ByModel(rows))
  BY TotalsType
<1>2. CASE StartAgain
  BY <1>2 DEF StartAgain, Reported, StatsBracketed, Idle
<1>3. ASSUME reader' = reader, Grown PROVE Reported'
  BY <1>1, <1>3 DEF Grown, Reported, StatsBracketed
<1>4. ASSUME ReadOnly PROVE AllRows' = AllRows /\ usage' = usage
  BY <1>4 DEF ReadOnly, AllRows, memory, disk
<1>5. CASE QueryTotals
  <2>1. reader' = [pc |-> "models", total |-> AllRows,
                   since |-> [rows |-> AllRows, usage |-> usage.total]]
        /\ AllRows' = AllRows /\ usage' = usage
    BY <1>4, <1>5 DEF QueryTotals
  <2> QED
    BY <1>1, <2>1 DEF Reported, StatsBracketed
<1>6. CASE QueryModels
  <2>1. /\ reader.pc = "models"
        /\ reader'.pc = "stats" /\ reader'.from = "postgres"
        /\ reader'.total = reader.total /\ reader'.models = ByModel(rows)
        /\ reader'.since = reader.since
        /\ AllRows' = AllRows /\ usage' = usage
    BY <1>4, <1>6 DEF QueryModels
  <2> QED
    BY <1>1, <2>1 DEF Reported, StatsBracketed
<1>7. CASE QueryFails
  <2>1. /\ reader.pc = "models"
        /\ reader'.pc = "stats" /\ reader'.from = "memory"
        /\ reader'.total = usage.total /\ reader'.models = usage.models
        /\ reader'.since = reader.since
        /\ AllRows' = AllRows /\ usage' = usage
    BY <1>4, <1>7 DEF QueryFails
  <2> QED
    BY <1>1, <2>1 DEF Reported, StatsBracketed
<1>8. CASE (\E s \in DOMAIN sessions : CopySummary(s)) \/ SendSummary \/ Answered
  <2>1. reader'.pc \in {"copied", "summary", "idle"}
    BY <1>8 DEF CopySummary, SendSummary, Answered, Idle
  <2> QED
    BY <2>1 DEF Reported, StatsBracketed
<1>9. CASE ~ Reading /\ ~ StartAgain
  <2>1. reader' = reader
    BY <1>9 DEF Next, Reading, Accept, Count, Insert, InsertFails, AppendLine,
       AppendFails, Update, Shutdown, Exit, CutOff, vars
  <2> QED
    BY <1>3, <1>9, <2>1, TotalsGrow
<1> QED
  BY <1>2, <1>5, <1>6, <1>7, <1>8, <1>9 DEF Reading

\* GetStats: whatever is recorded between its two queries, and wherever it falls
\* back on the counters in memory, the numbers it sends lie between what there
\* was when it began and what there is when it ends.
THEOREM StatisticsBracketed == Spec => []StatsBracketed
<1>1. Init => Reported
  BY DEF Init, Reported, StatsBracketed, Idle
<1>2. Reported => StatsBracketed
  BY DEF Reported
<1> QED
  BY <1>1, <1>2, ReportedNext, SinksHold, TypesHold, PTL DEF Spec

-----------------------------------------------------------------------------
\* The summaries, in the tracer and in a reader's hands.
Coherent(s) ==
    /\ Counters(s.phases) /\ Counters(s.tools)
    /\ s.all.requests \in Int /\ s.hits \in Int
    /\ Total(s.phases) = s.all.requests
    /\ Total(s.tools) <= s.all.requests
    /\ s.hits <= s.all.requests

Summaries == /\ \A s \in DOMAIN sessions : Coherent(sessions[s])
             /\ reader.pc \in {"copied", "summary"} => Coherent(reader.summary)

LEMMA NewCoherent == Coherent(NewSummary)
<1>1. DOMAIN Empty = {} /\ Counters(Empty)
  BY FS_EmptySet DEF Empty, Counters
<1>2. Total(Empty) = 0
  BY <1>1, TotalSum, SumEmpty
<1> QED
  BY <1>1, <1>2 DEF Coherent, NewSummary, Zero

LEMMA SummarisedCoherent ==
    ASSUME NEW s, Coherent(s), NEW x
    PROVE  /\ Coherent(Summarised(s, x))
           /\ Summarised(s, x).all.requests = s.all.requests + 1
<1> DEFINE t == Summarised(s, x)
<1>1. /\ t.all.requests = s.all.requests + 1
      /\ t.hits = s.hits + (IF x.cacheHit THEN 1 ELSE 0)
      /\ t.phases = AddAt(s.phases, Phase(x), x)
      /\ t.tools = IF x.tool = None THEN s.tools ELSE AddAt(s.tools, x.tool, x)
  BY DEF Summarised, Plus, One
<1>2. Counters(s.phases) /\ Counters(s.tools)
  BY DEF Coherent
<1>3. Counters(t.phases) /\ Total(t.phases) = Total(s.phases) + 1
  <2> HIDE DEF t
  <2> QED
    BY <1>1, <1>2, AddAtTotal
<1>4. Counters(t.tools) /\ Total(t.tools) \in {Total(s.tools), Total(s.tools) + 1}
  <2> HIDE DEF t
  <2> QED
    BY <1>1, <1>2, AddAtTotal
<1>5. Total(s.tools) \in Int /\ Total(s.phases) \in Int
  BY <1>2, TotalSum
<1> HIDE DEF t
<1>6. Coherent(t)
  BY <1>1, <1>3, <1>4, <1>5 DEF Coherent
<1> QED
  BY <1>1, <1>6 DEF t

\* What Update makes of the summaries.
Earlier(s) == IF s \in DOMAIN sessions THEN sessions[s] ELSE NewSummary

LEMMA UpdateSummarises ==
    ASSUME Types, Summaries, NEW r \in Recorders, Update(r)
    PROVE  LET x == Trace(rec[r].metric)
           IN  IF InSession(x)
               THEN /\ DOMAIN sessions' = DOMAIN sessions \cup {x.session}
                    /\ \A s \in DOMAIN sessions \ {x.session} : sessions'[s] = sessions[s]
                    /\ sessions'[x.session] = Summarised(Earlier(x.session), x)
                    /\ Coherent(Earlier(x.session))
               ELSE sessions' = sessions
<1> DEFINE x == Trace(rec[r].metric)
<1>1. Coherent(Earlier(x.session))
  BY NewCoherent DEF Earlier, Summaries
<1>2. sessions' = IF InSession(x)
                  THEN [s \in DOMAIN sessions \cup {x.session} |->
                          IF s = x.session THEN Summarised(Earlier(x.session), x)
                          ELSE sessions[s]]
                  ELSE sessions
  BY DEF Update, Earlier
<1> HIDE DEF x
<1>3. CASE InSession(x)
  BY <1>1, <1>2, <1>3 DEF x
<1>4. CASE ~ InSession(x)
  BY <1>2, <1>4 DEF x
<1> QED
  BY <1>3, <1>4

LEMMA SummariesNext == Types /\ Summaries /\ [Next]_vars => Summaries'
<1> SUFFICES ASSUME Types, Summaries, [Next]_vars PROVE Summaries'
  OBVIOUS
<1>1. ASSUME NEW r \in Recorders, Update(r) PROVE Summaries'
  <2> DEFINE x == Trace(rec[r].metric)
  <2>1. reader' = reader
    BY <1>1 DEF Update
  <2>2. CASE InSession(x)
    <3>1. /\ DOMAIN sessions' = DOMAIN sessions \cup {x.session}
          /\ \A s \in DOMAIN sessions \ {x.session} : sessions'[s] = sessions[s]
          /\ sessions'[x.session] = Summarised(Earlier(x.session), x)
          /\ Coherent(Earlier(x.session))
      BY <1>1, <2>2, UpdateSummarises
    <3> HIDE DEF x
    <3>2. Coherent(sessions'[x.session])
      BY <3>1, SummarisedCoherent
    <3>3. \A s \in DOMAIN sessions' : Coherent(sessions'[s])
      BY <3>1, <3>2 DEF Summaries
    <3> QED
      BY <2>1, <3>3 DEF Summaries
  <2>3. CASE ~ InSession(x)
    BY <1>1, <2>1, <2>3, UpdateSummarises DEF Summaries
  <2> QED
    BY <2>2, <2>3
<1>2. ASSUME UNCHANGED <<sessions, reader>> PROVE Summaries'
  BY <1>2 DEF Summaries
<1>3. ASSUME NEW r \in Recorders,
             \/ Accept(r) \/ \E x \in Metrics : Count(r, x)
             \/ Insert(r) \/ InsertFails(r) \/ AppendLine(r) \/ AppendFails(r)
      PROVE  UNCHANGED <<sessions, reader>>
  BY <1>3 DEF Accept, Count, Insert, InsertFails, AppendLine, AppendFails, memory
<1>4. Reading \/ Shutdown \/ UNCHANGED vars => sessions' = sessions
  BY Rests DEF Resting, memory
<1>5. Shutdown \/ UNCHANGED vars => reader' = reader
  BY DEF Shutdown, vars
<1>6. ASSUME Reading PROVE Summaries'
  <2>1. ASSUME NEW s \in DOMAIN sessions, CopySummary(s) PROVE Summaries'
    BY <1>4, <1>6, <2>1 DEF CopySummary, Summaries
  <2>2. CASE SendSummary
    BY <1>4, <1>6, <2>2 DEF SendSummary, Summaries
  <2>3. CASE QueryTotals \/ QueryModels \/ QueryFails \/ Answered
    <3>1. reader'.pc \notin {"copied", "summary"}
      BY <2>3 DEF QueryTotals, QueryModels, QueryFails, Answered, Idle
    <3> QED
      BY <1>4, <1>6, <3>1 DEF Summaries
  <2> QED
    BY <1>6, <2>1, <2>2, <2>3 DEF Reading
<1>7. ASSUME StartAgain PROVE Summaries'
  BY <1>7 DEF StartAgain, Summaries, Idle
<1> QED
  BY <1>1, <1>2, <1>3, <1>4, <1>5, <1>6, <1>7 DEF Next, Reading, Exit, CutOff

LEMMA SummariesHold == Spec => []Summaries
<1>1. Init => Summaries
  BY DEF Init, Summaries, Idle
<1> QED
  BY <1>1, SummariesNext, TypesHold, PTL DEF Spec

\* workflow.go:147 and 365: the copy GetSummary makes under the lock adds up and
\* stays so until it is sent, however many recorders update the session.
THEOREM SummariesAddUp == Spec => []SummaryCoherent
<1>1. Summaries => SummaryCoherent
  BY DEF Summaries, Coherent, SummaryCoherent
<1> QED
  BY <1>1, SummariesHold, PTL

-----------------------------------------------------------------------------
\* The replay file against the summaries.
Own(s) == {x \in Metrics : x.session = s}
Written(s) == {i \in (oldLines + 1)..Len(replay) : replay[i].session = s}
Summed(s) == IF s \in DOMAIN sessions THEN sessions[s].all.requests ELSE 0
Updating(s) == Those({"update"}, Own(s))
Replayed == \A s \in Sessions :
    Summed(s) + Cardinality(Updating(s)) = Cardinality(Written(s)) + CountIn(unlogged, Own(s))

LEMMA ReplayMeaning == ReplayAgrees <=> Replayed
<1>1. \A s : {r \in At({"update"}) : rec[r].metric \in Own(s)} = Updating(s)
  BY DEF Updating, Those
<1> QED
  BY <1>1 DEF ReplayAgrees, Replayed, Own, Written, Summed

LEMMA ReplayTypes ==
    ASSUME Types, Summaries, NEW CONSTANT s
    PROVE  /\ Summed(s) \in Int
           /\ IsFiniteSet(Updating(s)) /\ Cardinality(Updating(s)) \in Nat
           /\ IsFiniteSet(Written(s)) /\ Cardinality(Written(s)) \in Nat
           /\ CountIn(unlogged, Own(s)) \in Int /\ Own(s) \in SUBSET Metrics
<1>1. Summed(s) \in Int
  BY DEF Summed, Summaries, Coherent
<1>2. IsFiniteSet(Updating(s)) /\ Cardinality(Updating(s)) \in Nat
  BY SetSizes DEF Updating
<1>3. IsFiniteSet(Written(s)) /\ Cardinality(Written(s)) \in Nat
  <2>1. oldLines + 1 \in Int /\ Len(replay) \in Int
    BY DEF Types
  <2>2. IsFiniteSet((oldLines + 1)..Len(replay))
    BY <2>1, FS_Interval
  <2>3. Written(s) \subseteq (oldLines + 1)..Len(replay)
    BY DEF Written
  <2> QED
    BY <2>2, <2>3, FS_Subset, FS_CardinalityType
<1>4. CountIn(unlogged, Own(s)) \in Int /\ Own(s) \in SUBSET Metrics
  BY BagSums DEF Own, Types
<1> QED
  BY <1>1, <1>2, <1>3, <1>4

\* How a recorder's move changes what is to be summarised.
LEMMA UpdatingMoves ==
    ASSUME Types, NEW r \in Recorders, Moved(r), NEW CONSTANT s
    PROVE  LET was == rec[r].pc = "update" /\ rec[r].metric \in Own(s)
               is == rec'[r].pc = "update" /\ rec'[r].metric \in Own(s)
               n == Cardinality(Updating(s))
           IN  /\ ~ was /\ is => Cardinality(Updating(s)') = n + 1
               /\ was /\ ~ is => Cardinality(Updating(s)') = n - 1
               /\ (was <=> is) => Cardinality(Updating(s)') = n
<1> DEFINE T == Updating(s)
           was == rec[r].pc = "update" /\ rec[r].metric \in Own(s)
           is == rec'[r].pc = "update" /\ rec'[r].metric \in Own(s)
<1>1. T' = (IF is THEN T \cup {r} ELSE T \ {r}) /\ (r \in T <=> was)
  <2>0. PICK M : M = Own(s)
    OBVIOUS
  <2>1. /\ Those({"update"}, M)' = IF rec'[r].pc \in {"update"} /\ rec'[r].metric \in M
                                   THEN Those({"update"}, M) \cup {r}
                                   ELSE Those({"update"}, M) \ {r}
        /\ r \in Those({"update"}, M) <=> rec[r].pc \in {"update"} /\ rec[r].metric \in M
    BY MovedSets
  <2>2. Updating(s) = Those({"update"}, M) /\ Updating(s)' = Those({"update"}, M)'
    BY <2>0 DEF Updating, Those
  <2> QED
    BY <2>0, <2>1, <2>2
<1>2. IsFiniteSet(T) /\ Cardinality(T) \in Nat
  BY SetSizes DEF Updating
<1>3. r \notin T => Cardinality(T \cup {r}) = Cardinality(T) + 1
  BY <1>2, FS_AddElement
<1>4. r \in T => Cardinality(T \ {r}) = Cardinality(T) - 1
  BY <1>2, FS_RemoveElement
<1>5. (r \in T => T \cup {r} = T) /\ (r \notin T => T \ {r} = T)
  OBVIOUS
<1> HIDE DEF T, was, is
<1>6. /\ ~ was /\ is => Cardinality(T') = Cardinality(T) + 1
      /\ was /\ ~ is => Cardinality(T') = Cardinality(T) - 1
      /\ (was <=> is) => Cardinality(T') = Cardinality(T)
  BY <1>1, <1>2, <1>3, <1>4, <1>5
<1> QED
  BY <1>6 DEF T, was, is

Balanced(s) ==
    Summed(s) + Cardinality(Updating(s)) = Cardinality(Written(s)) + CountIn(unlogged, Own(s))

LEMMA ReplayedNext == Types /\ Summaries /\ Replayed /\ [Next]_vars => Replayed'
<1> SUFFICES ASSUME Types, Summaries, Replayed, [Next]_vars, NEW s \in Sessions
             PROVE  Balanced(s)'
  BY DEF Replayed, Balanced
<1> DEFINE n == Cardinality(Updating(s))
           w == Cardinality(Written(s))
           u == CountIn(unlogged, Own(s))
<1>1. /\ Summed(s) \in Int /\ n \in Nat /\ w \in Nat /\ u \in Int
      /\ IsFiniteSet(Written(s)) /\ Own(s) \in SUBSET Metrics
      /\ Summed(s) + n = w + u /\ s # None
  BY ReplayTypes DEF Replayed, Sessions
<1>2. Balanced(s)' <=> Summed(s)' + Cardinality(Updating(s)') = Cardinality(Written(s)') + u'
  BY DEF Balanced
<1>3. /\ sessions' = sessions => Summed(s)' = Summed(s)
      /\ UNCHANGED <<replay, oldLines>> => Written(s)' = Written(s)
      /\ unlogged' = unlogged => u' = u
  BY DEF Summed, Written
<1> HIDE DEF u
<1>4. ASSUME NEW r \in Recorders, Moved(r), rec[r].pc # "update", rec'[r].pc # "update",
             UNCHANGED <<sessions, replay, oldLines, unlogged>>
      PROVE  Balanced(s)'
  <2>1. Cardinality(Updating(s)') = n
    BY <1>4, UpdatingMoves
  <2> QED
    BY <1>1, <1>2, <1>3, <1>4, <2>1
<1>5. ASSUME NEW r \in Recorders, Accept(r) PROVE Balanced(s)'
  <2> DEFINE v == [pc |-> "serving"]
  <2>1. v \in RecStates /\ v.pc = "serving"
    BY DEF RecStates
  <2>2. Moved(r) /\ rec'[r].pc = "serving" /\ rec[r].pc = "idle"
    <3>1. rec' = [rec EXCEPT ![r] = v] /\ rec[r].pc = "idle"
      BY <1>5 DEF Accept
    <3> HIDE DEF v
    <3> QED
      BY <2>1, <3>1, SetMoves
  <2> QED
    BY <1>4, <1>5, <2>2 DEF Accept, memory, disk, history
<1>6. ASSUME NEW r \in Recorders, NEW x \in Metrics, Count(r, x) PROVE Balanced(s)'
  <2> DEFINE v == [pc |-> "insert", metric |-> x]
  <2>1. v \in RecStates /\ v.pc = "insert"
    BY DEF RecStates
  <2>2. Moved(r) /\ rec'[r].pc = "insert" /\ rec[r].pc = "serving"
    <3>1. rec' = [rec EXCEPT ![r] = v] /\ rec[r].pc = "serving"
      BY <1>6 DEF Count
    <3> HIDE DEF v
    <3> QED
      BY <2>1, <3>1, SetMoves
  <2> QED
    BY <1>4, <1>6, <2>2 DEF Count, disk, history
<1>7. ASSUME NEW r \in Recorders, Insert(r) \/ InsertFails(r) PROVE Balanced(s)'
  <2>1. Moved(r) /\ rec[r].pc = "insert" /\ rec'[r].pc = "append"
    BY <1>7, StepMoves DEF Insert, InsertFails
  <2> QED
    BY <1>4, <1>7, <2>1 DEF Insert, InsertFails, memory, disk, history
<1>8. ASSUME NEW r \in Recorders, AppendLine(r) PROVE Balanced(s)'
  <2> DEFINE m == rec[r].metric
             k == Len(replay) + 1
  <2>1. /\ Moved(r) /\ rec[r].pc = "append" /\ rec'[r].pc = "update"
        /\ rec'[r].metric = m /\ m \in Metrics
    BY <1>8, StepMoves DEF AppendLine
  <2>2. /\ UNCHANGED <<sessions, oldLines, unlogged>>
        /\ replay' = Append(replay, Trace(m))
    BY <1>8 DEF AppendLine, memory, history
  <2>3. /\ Len(replay') = k /\ replay'[k] = Trace(m) /\ k \in Nat
        /\ \A i \in 1..(k - 1) : replay'[i] = replay[i]
    BY <2>2 DEF Types
  <2>4. /\ k \notin Written(s) /\ oldLines \in Nat /\ oldLines < k
        /\ (oldLines + 1)..k = ((oldLines + 1)..(k - 1)) \cup {k}
        /\ \A i \in (oldLines + 1)..(k - 1) : i \in 1..(k - 1)
    BY DEF Types, Written
  <2>5. Written(s)' = {i \in (oldLines + 1)..k : replay'[i].session = s}
    BY <2>2, <2>3 DEF Written
  <2>6. Written(s) = {i \in (oldLines + 1)..(k - 1) : replay[i].session = s}
    BY <2>3 DEF Written, Types
  <2>7. (m \in Own(s)) <=> replay'[k].session = s
    BY <2>1, <2>3, MetricsType DEF Own
  <2> HIDE DEF k, m
  <2>8. Written(s)' = IF m \in Own(s) THEN Written(s) \cup {k} ELSE Written(s)
    BY <2>3, <2>4, <2>5, <2>6, <2>7
  <2>9. Cardinality(Written(s)') = IF m \in Own(s) THEN w + 1 ELSE w
    BY <1>1, <2>4, <2>8, FS_AddElement
  <2>10. Cardinality(Updating(s)') = IF m \in Own(s) THEN n + 1 ELSE n
    BY <2>1, UpdatingMoves
  <2>11. Summed(s)' = Summed(s) /\ u' = u
    BY <1>3, <2>2
  <2>12. CASE m \in Own(s)
    BY <1>1, <1>2, <2>9, <2>10, <2>11, <2>12
  <2>13. CASE m \notin Own(s)
    BY <1>1, <1>2, <2>9, <2>10, <2>11, <2>13
  <2> QED
    BY <2>12, <2>13
<1>9. ASSUME NEW r \in Recorders, AppendFails(r) PROVE Balanced(s)'
  <2> DEFINE m == rec[r].metric
  <2>1. /\ Moved(r) /\ rec[r].pc = "append" /\ rec'[r].pc = "update"
        /\ rec'[r].metric = m /\ m \in Metrics
    BY <1>9, StepMoves DEF AppendFails
  <2>2. /\ UNCHANGED <<sessions, oldLines, replay>>
        /\ unlogged' = OneMore(unlogged, m)
    BY <1>9 DEF AppendFails, memory, disk, OneMore
  <2> HIDE DEF m
  <2>3. AddsUp(unlogged, m, Own(s))
    BY <1>1, <2>1, BagSumsAdd DEF Types
  <2>4. u' = IF m \in Own(s) THEN u + 1 ELSE u
    BY <1>1, <2>2, <2>3 DEF AddsUp, u
  <2>5. Cardinality(Updating(s)') = IF m \in Own(s) THEN n + 1 ELSE n
    BY <2>1, UpdatingMoves
  <2> QED
    BY <1>1, <1>2, <1>3, <2>2, <2>4, <2>5
<1>10. ASSUME NEW r \in Recorders, Update(r) PROVE Balanced(s)'
  <2> DEFINE m == rec[r].metric
             x == Trace(m)
  <2>1. Idle \in RecStates /\ Idle.pc = "idle"
    BY DEF Idle, RecStates
  <2>2. /\ Moved(r) /\ rec[r].pc = "update" /\ rec'[r].pc = "idle"
        /\ UNCHANGED <<replay, oldLines, unlogged>>
    BY <1>10, <2>1, SetMoves DEF Update, disk, history
  <2>3. m \in Metrics /\ x.session = m.session
    BY <2>2, MetricsType DEF Types, RecStates
  <2>4. Cardinality(Updating(s)') = IF m \in Own(s) THEN n - 1 ELSE n
    BY <2>2, UpdatingMoves
  <2>5. m \in Own(s) <=> x.session = s
    BY <2>3 DEF Own
  <2>6. Summed(s)' = IF x.session = s THEN Summed(s) + 1 ELSE Summed(s)
    <3>1. CASE InSession(x)
      <4>1. /\ DOMAIN sessions' = DOMAIN sessions \cup {x.session}
            /\ \A t \in DOMAIN sessions \ {x.session} : sessions'[t] = sessions[t]
            /\ sessions'[x.session] = Summarised(Earlier(x.session), x)
            /\ Coherent(Earlier(x.session))
        BY <1>10, <3>1, UpdateSummarises
      <4> HIDE DEF x
      <4>2. CASE x.session = s
        <5>1. Summarised(Earlier(s), x).all.requests = Earlier(s).all.requests + 1
          BY <4>1, <4>2, SummarisedCoherent
        <5>2. Earlier(s).all.requests = Summed(s)
          BY DEF Earlier, Summed, NewSummary, Zero
        <5> QED
          BY <4>1, <4>2, <5>1, <5>2 DEF Summed
      <4>3. CASE x.session # s
        BY <4>1, <4>3 DEF Summed
      <4> QED
        BY <4>2, <4>3
    <3>2. CASE ~ InSession(x)
      <4>1. sessions' = sessions /\ x.session = None
        BY <1>10, <3>2, UpdateSummarises DEF InSession
      <4> QED
        BY <1>1, <1>3, <4>1
    <3> QED
      BY <3>1, <3>2
  <2> HIDE DEF m, x
  <2> QED
    BY <1>1, <1>2, <1>3, <2>2, <2>4, <2>5, <2>6
<1>11. ASSUME Resting PROVE Balanced(s)'
  <2>1. Updating(s)' = Updating(s)
    BY <1>11 DEF Resting, Updating, Those, At
  <2>2. UNCHANGED <<sessions, replay, oldLines, unlogged>>
    BY <1>11 DEF Resting, memory, disk, history
  <2> QED
    BY <1>1, <1>2, <1>3, <2>1, <2>2
<1>12. ASSUME StartAgain PROVE Balanced(s)'
  <2>1. Updating(s)' = {}
    BY <1>12 DEF StartAgain, Updating, Those, At, Idle
  <2>2. Summed(s)' = 0
    BY <1>12 DEF StartAgain, Summed
  <2>3. Written(s)' = {}
    <3>1. replay' = replay /\ oldLines' = Len(replay) /\ Len(replay) \in Nat
      BY <1>12 DEF StartAgain, Types, disk
    <3> QED
      BY <3>1 DEF Written
  <2>4. u' = 0
    <3>1. unlogged' = NoRows
      BY <1>12 DEF StartAgain
    <3>2. CountIn(unlogged', Own(s)) = 0
      BY <1>1, <3>1, NothingCounted
    <3> QED
      BY <3>2 DEF u
  <2> QED
    BY <1>2, <2>1, <2>2, <2>3, <2>4, FS_EmptySet
<1> QED
  BY <1>5, <1>6, <1>7, <1>8, <1>9, <1>10, <1>11, <1>12, Rests
     DEF Next, Reading, Exit, CutOff

\* workflow.go:123: since the restart the replay file, with the lines that could not
\* be written, holds for every session as many requests as its summary, with the
\* updates still to come, in whatever order recorders append and update.
THEOREM ReplayMatches == Spec => []ReplayAgrees
<1>1. Init => Replayed
  <2> SUFFICES ASSUME Init, NEW s \in Sessions PROVE Balanced(s)
    BY DEF Replayed, Balanced
  <2>1. Updating(s) = {} /\ Summed(s) = 0 /\ Written(s) = {}
    BY DEF Init, Updating, Those, At, Idle, Summed, Written
  <2>2. CountIn(unlogged, Own(s)) = 0
    BY NothingCounted DEF Init, Own
  <2> QED
    BY <2>1, <2>2, FS_EmptySet DEF Balanced
<1> QED
  BY <1>1, ReplayedNext, ReplayMeaning, SummariesHold, TypesHold, PTL DEF Spec
===============================================================================
