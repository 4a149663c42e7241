---------------------------- MODULE InductionLemmas ----------------------------
(***************************************************************************)
(* What stands in for induction in the proof modules: the smallest         *)
(* counterexample, the existence of a function that follows links or is    *)
(* defined by recursion over a chain, and sums over finite sets.           *)
(***************************************************************************)
EXTENDS Integers, FiniteSetTheorems, WellFoundedInduction, TLAPS

\* A set of natural numbers that is not empty has a smallest element.
LEMMA SmallestNumber ==
  ASSUME NEW T \in SUBSET Nat, T # {} PROVE \E x \in T : \A y \in T : x <= y
<1> DEFINE R == OpToRel(<, Nat)
<1>1. \E x \in T : \A y \in T : ~(<<y, x>> \in R)
  <2>1. IsWellFoundedOn(R, Nat)
    BY NatLessThanWellFounded
  <2> HIDE DEF R
  <2>2. QED
    BY <2>1, WFMin
<1>2. \A x, y \in Nat : <<y, x>> \in R <=> y < x
  BY DEF OpToRel
<1> HIDE DEF R
<1>3. PICK x \in T : \A y \in T : ~(<<y, x>> \in R)
  BY <1>1
<1>4. \A y \in T : x <= y
  <2>1. ASSUME NEW y \in T PROVE x <= y
    <3>1. x \in Nat /\ y \in Nat /\ ~(<<y, x>> \in R)
      BY <1>3
    <3>2. ~(y < x)
      BY <1>2, <3>1
    <3>3. QED
      BY <3>1, <3>2
  <2>2. QED
    BY <2>1
<1>5. QED
  BY <1>4

\* f follows the links next from ind to where they end.
Follows(f, U, ind, next) == f = [u \in U |-> IF u \in ind THEN f[next[u]] ELSE u]

\* A function that follows the links of ind to where they end exists, also when some of them
\* make a circle: it chooses, for every place, one of those that cannot be avoided on its way.
LEMMA FollowExists ==
  ASSUME NEW U, NEW ind \in SUBSET U, NEW next \in [ind -> U]
  PROVE  \E f : Follows(f, U, ind, next)
<1> DEFINE Closed(S) == \A x \in S : x \in ind => next[x] \in S
           T(v) == {w \in U : w \notin ind /\ \A S \in SUBSET U : v \in S /\ Closed(S) => w \in S}
<1>1. ASSUME NEW u \in U, u \notin ind PROVE T(u) = {u}
  <2>1. u \in T(u)
    BY <1>1
  <2>2. ASSUME NEW w \in T(u) PROVE w = u
    <3>1. {u} \in SUBSET U /\ u \in {u} /\ Closed({u})
      BY <1>1
    <3>2. QED
      BY <2>2, <3>1
  <2>3. QED
    BY <2>1, <2>2
<1>2. ASSUME NEW u \in U, u \in ind PROVE T(u) = T(next[u])
  <2>1. ASSUME NEW w \in T(u) PROVE w \in T(next[u])
    <3>1. ASSUME NEW S \in SUBSET U, next[u] \in S, Closed(S) PROVE w \in S
      <4>1. S \cup {u} \in SUBSET U
        OBVIOUS
      <4>2. Closed(S \cup {u})
        BY <3>1, <1>2
      <4>3. w \in S \cup {u} /\ w \notin ind
        BY <4>1, <4>2, <2>1
      <4>4. QED
        BY <4>3, <1>2
    <3>2. QED
      BY <3>1, <2>1
  <2>2. ASSUME NEW w \in T(next[u]) PROVE w \in T(u)
    BY <1>2, <2>2
  <2>3. QED
    BY <2>1, <2>2
<1> HIDE DEF T
<1> DEFINE g == [v \in U |-> CHOOSE w : w \in T(v)]
<1>3. g = [u \in U |-> IF u \in ind THEN g[next[u]] ELSE u]
  <2>1. ASSUME NEW u \in U PROVE g[u] = IF u \in ind THEN g[next[u]] ELSE u
    <3>1. CASE u \in ind
      <4>1. next[u] \in U /\ T(u) = T(next[u])
        BY <3>1, <1>2
      <4>2. QED
        BY <4>1, <3>1
    <3>2. CASE u \notin ind
      BY <3>2, <1>1
    <3>3. QED
      BY <3>1, <3>2
  <2>2. g = [u \in U |-> g[u]]
    OBVIOUS
  <2> HIDE DEF g
  <2>3. QED
    BY <2>1, <2>2
<1>4. QED
  BY <1>3 DEF Follows

\* The same for sets of integers with a bound below or above.
LEMMA SmallestInteger ==
  ASSUME NEW T \in SUBSET Int, T # {}, NEW lo \in Int, \A x \in T : lo <= x
  PROVE  \E x \in T : \A y \in T : x <= y
<1> DEFINE U == {x - lo : x \in T}
<1>1. U \in SUBSET Nat /\ U # {}
  <2>1. ASSUME NEW x \in T PROVE x - lo \in Nat
    <3>1. x \in Int /\ lo <= x
      OBVIOUS
    <3>2. QED
      BY <3>1
  <2>2. QED
    BY <2>1
<1>2. PICK u \in U : \A w \in U : u <= w
  <2> HIDE DEF U
  <2>1. QED
    BY <1>1, SmallestNumber
<1>3. PICK x \in T : u = x - lo
  BY <1>2
<1>4. \A y \in T : x <= y
  <2>1. ASSUME NEW y \in T PROVE x <= y
    <3>1. y - lo \in U
      OBVIOUS
    <3>2. u <= y - lo
      BY <3>1, <1>2
    <3>3. QED
      BY <3>2, <1>3
  <2>2. QED
    BY <2>1
<1>5. QED
  BY <1>4

LEMMA LargestInteger ==
  ASSUME NEW T \in SUBSET Int, T # {}, NEW hi \in Int, \A x \in T : x <= hi
  PROVE  \E x \in T : \A y \in T : x >= y
<1> DEFINE U == {hi - x : x \in T}
<1>1. U \in SUBSET Nat /\ U # {}
  <2>1. ASSUME NEW x \in T PROVE hi - x \in Nat
    <3>1. x \in Int /\ x <= hi
      OBVIOUS
    <3>2. QED
      BY <3>1
  <2>2. QED
    BY <2>1
<1>2. PICK u \in U : \A w \in U : u <= w
  <2> HIDE DEF U
  <2>1. QED
    BY <1>1, SmallestNumber
<1>3. PICK x \in T : u = hi - x
  BY <1>2
<1>4. \A y \in T : x >= y
  <2>1. ASSUME NEW y \in T PROVE x >= y
    <3>1. hi - y \in U
      OBVIOUS
    <3>2. u <= hi - y
      BY <3>1, <1>2
    <3>3. QED
      BY <3>2, <1>3
  <2>2. QED
    BY <2>1
<1>5. QED
  BY <1>4

\* What holds of 0, and of n + 1 when it holds of n, holds of all numbers up to N.
LEMMA CountUp ==
  ASSUME NEW N \in Nat, NEW G, 0 \in G, \A n \in 0 .. N : n < N /\ n \in G => n + 1 \in G
  PROVE  \A n \in 0 .. N : n \in G
<1> DEFINE T == {n \in 0 .. N : n \notin G}
<1>1. ASSUME T # {} PROVE FALSE
  <2>1. T \in SUBSET Nat
    OBVIOUS
  <2>2. PICK n \in T : \A k \in T : n <= k
    <3> HIDE DEF T
    <3>1. QED
      BY <1>1, <2>1, SmallestNumber
  <2>3. n \in 0 .. N /\ n \notin G /\ n # 0
    BY <2>2
  <2>4. n - 1 \in 0 .. N /\ n - 1 < N /\ (n - 1) + 1 = n
    BY <2>3
  <2>5. n - 1 \notin T
    <3>1. ~(n <= n - 1)
      BY <2>3
    <3>2. QED
      BY <3>1, <2>2
  <2>6. n - 1 \in G
    BY <2>4, <2>5
  <2>7. QED
    BY <2>3, <2>4, <2>6
<1>2. QED
  BY <1>1

\* f is defined by recursion on the numbers up to N.
Recurses(f, N, v, g) == f = [n \in 0 .. N |-> IF n = 0 THEN v ELSE g[n][f[n - 1]]]

\* Such a function exists.
LEMMA RecursionExists ==
  ASSUME NEW N \in Nat, NEW V, NEW v \in V, NEW g \in [Nat -> [V -> V]]
  PROVE  \E f \in [0 .. N -> V] : Recurses(f, N, v, g)
<1> DEFINE Upto(K, f) == f \in [0 .. K -> V] /\ Recurses(f, K, v, g)
           G == {K \in Nat : \E f : Upto(K, f)}
<1>1. 0 \in G
  <2>1. Upto(0, [n \in 0 .. 0 |-> v])
    BY DEF Recurses
  <2>2. QED
    BY <2>1
<1>2. ASSUME NEW K \in 0 .. N, K < N, K \in G PROVE K + 1 \in G
  <2>1. PICK f : Upto(K, f)
    BY <1>2
  <2> DEFINE h == [n \in 0 .. K + 1 |-> IF n = K + 1 THEN g[n][f[K]] ELSE f[n]]
  <2>2. f \in [0 .. K -> V] /\ \A n \in 0 .. K : f[n] = IF n = 0 THEN v ELSE g[n][f[n - 1]]
    BY <2>1 DEF Recurses
  <2>3. K \in 0 .. K /\ K + 1 \in Nat /\ g[K + 1][f[K]] \in V
    BY <2>2
  <2>4. h \in [0 .. K + 1 -> V]
    BY <2>2, <2>3
  <2>5. ASSUME NEW n \in 0 .. K + 1 PROVE h[n] = IF n = 0 THEN v ELSE g[n][h[n - 1]]
    <3>1. CASE n = K + 1
      <4>1. n # 0 /\ n - 1 = K /\ h[K] = f[K]
        BY <3>1
      <4>2. QED
        BY <3>1, <4>1
    <3>2. CASE n # K + 1
      <4>1. n \in 0 .. K /\ h[n] = f[n]
        BY <3>2
      <4>2. n # 0 => n - 1 \in 0 .. K /\ h[n - 1] = f[n - 1]
        BY <4>1
      <4>3. QED
        BY <4>1, <4>2, <2>2
    <3>3. QED
      BY <3>1, <3>2
  <2>6. h = [n \in 0 .. K + 1 |-> IF n = 0 THEN v ELSE g[n][h[n - 1]]]
    <3>1. h = [n \in 0 .. K + 1 |-> h[n]]
      OBVIOUS
    <3> HIDE DEF h
    <3>2. QED
      BY <2>5, <3>1
  <2>7. Upto(K + 1, h)
    <3> HIDE DEF h
    <3>1. QED
      BY <2>4, <2>6 DEF Recurses
  <2> HIDE DEF h, Upto
  <2>8. QED
    BY <2>3, <2>7
<1> HIDE DEF G
<1>3. N \in G
  <2>1. \A n \in 0 .. N : n < N /\ n \in G => n + 1 \in G
    BY <1>2
  <2>2. \A n \in 0 .. N : n \in G
    BY <1>1, <2>1, CountUp
  <2>3. QED
    BY <2>2
<1>4. QED
  BY <1>3 DEF G

\* f gathers the places that one passes when following the links next of ind.
Gathers(f, U, ind, next) == f = [u \in U |-> IF u \in ind THEN {u} \cup f[next[u]] ELSE {}]

\* Such a function exists, too.
LEMMA GatherExists ==
  ASSUME NEW U, NEW ind \in SUBSET U, NEW next \in [ind -> U]
  PROVE  \E f : Gathers(f, U, ind, next)
<1> DEFINE Closed(S) == \A x \in S : x \in ind => next[x] \in S
           T(v) == {w \in ind : \A S \in SUBSET U : v \in S /\ Closed(S) => w \in S}
<1>1. ASSUME NEW u \in U, u \notin ind PROVE T(u) = {}
  <2>1. {u} \in SUBSET U /\ u \in {u} /\ Closed({u})
    BY <1>1
  <2>2. QED
    BY <1>1, <2>1
<1>2. ASSUME NEW u \in U, u \in ind PROVE T(u) = {u} \cup T(next[u])
  <2>1. ASSUME NEW w \in T(u), w # u PROVE w \in T(next[u])
    <3>1. ASSUME NEW S \in SUBSET U, next[u] \in S, Closed(S) PROVE w \in S
      <4>1. S \cup {u} \in SUBSET U
        OBVIOUS
      <4>2. Closed(S \cup {u})
        BY <3>1, <1>2
      <4>3. w \in S \cup {u}
        BY <4>1, <4>2, <2>1
      <4>4. QED
        BY <4>3, <2>1
    <3>2. QED
      BY <3>1, <2>1
  <2>2. ASSUME NEW w \in T(next[u]) PROVE w \in T(u)
    BY <1>2, <2>2
  <2>3. u \in T(u)
    BY <1>2
  <2>4. QED
    BY <2>1, <2>2, <2>3
<1> HIDE DEF T
<1> DEFINE g == [v \in U |-> T(v)]
<1>3. g = [u \in U |-> IF u \in ind THEN {u} \cup g[next[u]] ELSE {}]
  <2>1. ASSUME NEW u \in U PROVE g[u] = IF u \in ind THEN {u} \cup g[next[u]] ELSE {}
    <3>1. CASE u \in ind
      <4>1. next[u] \in U /\ T(u) = {u} \cup T(next[u])
        BY <3>1, <1>2
      <4>2. QED
        BY <4>1, <3>1
    <3>2. CASE u \notin ind
      BY <3>2, <1>1
    <3>3. QED
      BY <3>1, <3>2
  <2>2. g = [u \in U |-> g[u]]
    OBVIOUS
  <2> HIDE DEF g
  <2>3. QED
    BY <2>1, <2>2
<1>4. QED
  BY <1>3 DEF Gathers

-----------------------------------------------------------------------------
(* Sums                                                                    *)

Some(s) == CHOOSE x \in s : TRUE

AddsUp(it, f, sets) ==
  it = [s \in sets |-> IF s = {} THEN 0 ELSE f[Some(s)] + it[s \ {Some(s)}]]

Subsets(S, n) == {s \in SUBSET S : Cardinality(s) <= n}

\* A finite set has finite subsets; the subset without its chosen element has one less.
LEMMA WithoutSome ==
  ASSUME NEW S, IsFiniteSet(S), NEW s \in SUBSET S
  PROVE  /\ IsFiniteSet(s) /\ Cardinality(s) \in Nat
         /\ s # {} => Some(s) \in s
         /\ \A x \in s : /\ s \ {x} \in SUBSET S
                         /\ Cardinality(s \ {x}) = Cardinality(s) - 1
                         /\ Cardinality(s \ {x}) \in Nat
<1>1. IsFiniteSet(s) /\ Cardinality(s) \in Nat
  BY FS_Subset, FS_CardinalityType
<1>2. ASSUME NEW x \in s
      PROVE Cardinality(s \ {x}) = Cardinality(s) - 1 /\ Cardinality(s \ {x}) \in Nat
  BY <1>1, FS_RemoveElement, FS_CardinalityType
<1>3. QED
  BY <1>1, <1>2 DEF Some

\* The recursive function exists, for sets of every size.
LEMMA AddsUpExists ==
  ASSUME NEW S, IsFiniteSet(S), NEW f
  PROVE  \E it : AddsUp(it, f, SUBSET S)
<1> DEFINE T == {n \in Nat : ~ \E it : AddsUp(it, f, Subsets(S, n))}
<1>1. ASSUME T # {} PROVE FALSE
  <2>1. T \in SUBSET Nat
    OBVIOUS
  <2>2. PICK n \in T : \A m \in T : n <= m
    <3> HIDE DEF T
    <3>1. QED
      BY <1>1, <2>1, SmallestNumber
  <2>3. n \in Nat /\ ~ \E it : AddsUp(it, f, Subsets(S, n))
    OBVIOUS
  <2>4. \E jt : \A s \in Subsets(S, n) : s # {} =>
          /\ s \ {Some(s)} \in Subsets(S, n)
          /\ jt[s \ {Some(s)}] = IF s \ {Some(s)} = {} THEN 0
               ELSE f[Some(s \ {Some(s)})] + jt[(s \ {Some(s)}) \ {Some(s \ {Some(s)})}]
    <3>1. ASSUME NEW s \in Subsets(S, n), s # {}
          PROVE  s \ {Some(s)} \in SUBSET S /\ Cardinality(s \ {Some(s)}) <= n - 1
      <4>1. s \in SUBSET S /\ Cardinality(s) <= n
        BY DEF Subsets
      <4>2. /\ s \ {Some(s)} \in SUBSET S /\ Cardinality(s) \in Nat
            /\ Cardinality(s \ {Some(s)}) = Cardinality(s) - 1
        BY <3>1, <4>1, WithoutSome
      <4>3. QED
        BY <4>1, <4>2, <2>3
    <3>2. CASE n = 0
      <4>1. \A s \in Subsets(S, n) : s = {}
        <5>1. ASSUME NEW s \in Subsets(S, n), s # {} PROVE FALSE
          <6>1. Cardinality(s \ {Some(s)}) \in Nat
            BY <5>1, WithoutSome DEF Subsets
          <6>2. QED
            BY <6>1, <3>1, <5>1, <3>2
        <5>2. QED
          BY <5>1
      <4>2. QED
        BY <4>1
    <3>3. CASE n # 0
      <4>1. n - 1 \in Nat /\ ~(n <= n - 1)
        BY <2>3, <3>3
      <4>2. n - 1 \notin T
        <5> HIDE DEF T
        <5>1. QED
          BY <4>1, <2>2
      <4>3. PICK jt : AddsUp(jt, f, Subsets(S, n - 1))
        BY <4>1, <4>2
      <4>4. ASSUME NEW s \in Subsets(S, n), s # {}
            PROVE  /\ s \ {Some(s)} \in Subsets(S, n)
                   /\ s \ {Some(s)} \in Subsets(S, n - 1)
        <5>1. Cardinality(s \ {Some(s)}) \in Nat
          BY <4>4, WithoutSome DEF Subsets
        <5>2. QED
          BY <5>1, <3>1, <4>4, <2>3 DEF Subsets
      <4>5. QED
        BY <4>3, <4>4 DEF AddsUp
    <3>4. QED
      BY <3>2, <3>3
  <2>5. PICK jt : \A s \in Subsets(S, n) : s # {} =>
          /\ s \ {Some(s)} \in Subsets(S, n)
          /\ jt[s \ {Some(s)}] = IF s \ {Some(s)} = {} THEN 0
               ELSE f[Some(s \ {Some(s)})] + jt[(s \ {Some(s)}) \ {Some(s \ {Some(s)})}]
    BY <2>4
  <2> DEFINE it == [s \in Subsets(S, n) |->
                      IF s = {} THEN 0 ELSE f[Some(s)] + jt[s \ {Some(s)}]]
  <2>6. \A s \in Subsets(S, n) : s # {} => it[s \ {Some(s)}] = jt[s \ {Some(s)}]
    BY <2>5
  <2>7. it = [s \in Subsets(S, n) |->
                IF s = {} THEN 0 ELSE f[Some(s)] + it[s \ {Some(s)}]]
    <3>1. \A s \in Subsets(S, n) : it[s] = IF s = {} THEN 0 ELSE f[Some(s)] + it[s \ {Some(s)}]
      BY <2>6
    <3>2. it = [s \in Subsets(S, n) |-> it[s]]
      OBVIOUS
    <3> HIDE DEF it
    <3>3. QED
      BY <3>1, <3>2
  <2>8. QED
    BY <2>3, <2>7 DEF AddsUp
<1>2. Cardinality(S) \in Nat
  BY FS_CardinalityType
<1>3. \E it : AddsUp(it, f, Subsets(S, Cardinality(S)))
  BY <1>1, <1>2
<1>4. Subsets(S, Cardinality(S)) = SUBSET S
  BY FS_Subset DEF Subsets
<1>5. QED
  BY <1>3, <1>4

\* One step of the recursive function, and its values.
LEMMA AddsUpStep ==
  ASSUME NEW S, IsFiniteSet(S), NEW f, NEW it, AddsUp(it, f, SUBSET S), NEW s \in SUBSET S
  PROVE  it[s] = IF s = {} THEN 0 ELSE f[Some(s)] + it[s \ {Some(s)}]
  BY DEF AddsUp

\* it adds up the sizes of every subset of S.
Sums(it, f, S) == IsFiniteSet(S) /\ AddsUp(it, f, SUBSET S)

\* Sums of the same sizes are the same.
LEMMA SumsAgree ==
  ASSUME NEW S, NEW f, NEW it, Sums(it, f, S), NEW R, NEW g, NEW jt, Sums(jt, g, R)
  PROVE  \A s : s \subseteq S /\ s \subseteq R /\ (\A x \in s : f[x] = g[x])
                => it[s] = jt[s]
<1> SUFFICES ASSUME NEW s, s \subseteq S, s \subseteq R, \A x \in s : f[x] = g[x]
             PROVE  it[s] = jt[s]
  OBVIOUS
<1> USE DEF Sums
<1> DEFINE Bad == {t \in SUBSET s : it[t] # jt[t]}
           T == {Cardinality(t) : t \in Bad}
<1>1. \A t \in SUBSET s : t \in SUBSET S /\ t \in SUBSET R
  OBVIOUS
<1>2. T \in SUBSET Nat
  BY <1>1, WithoutSome
<1>3. ASSUME T # {} PROVE FALSE
  <2>1. PICK n \in T : \A m \in T : n <= m
    <3> HIDE DEF T
    <3>1. QED
      BY <1>2, <1>3, SmallestNumber
  <2>2. PICK t \in Bad : n = Cardinality(t)
    BY <2>1
  <2>3. t \in SUBSET S /\ t \in SUBSET R /\ it[t] # jt[t] /\ t \in SUBSET s
    BY <1>1, <2>2
  <2>4. /\ it[t] = IF t = {} THEN 0 ELSE f[Some(t)] + it[t \ {Some(t)}]
        /\ jt[t] = IF t = {} THEN 0 ELSE g[Some(t)] + jt[t \ {Some(t)}]
    BY <2>3 DEF AddsUp
  <2>5. t # {}
    BY <2>3, <2>4
  <2>6. /\ Some(t) \in t /\ Cardinality(t) \in Nat
        /\ Cardinality(t \ {Some(t)}) = Cardinality(t) - 1
    BY <2>3, <2>5, WithoutSome
  <2>7. t \ {Some(t)} \in SUBSET s
    BY <2>3
  <2>8. ~(n <= Cardinality(t \ {Some(t)}))
    BY <2>2, <2>6
  <2>9. t \ {Some(t)} \notin Bad
    BY <2>1, <2>8
  <2>10. it[t \ {Some(t)}] = jt[t \ {Some(t)}]
    BY <2>7, <2>9
  <2>11. f[Some(t)] = g[Some(t)]
    BY <2>3, <2>6
  <2>12. QED
    BY <2>3, <2>4, <2>5, <2>10, <2>11
<1>4. s \notin Bad
  <2> HIDE DEF Bad
  <2>1. QED
    BY <1>3
<1>5. QED
  BY <1>4

\* Any element may be added last.
LEMMA SumTakes ==
  ASSUME NEW S, IsFiniteSet(S), NEW f, \A x \in S : f[x] \in Int,
         NEW it, AddsUp(it, f, SUBSET S),
         NEW s \in SUBSET S, NEW x \in s
  PROVE  it[s] = f[x] + it[s \ {x}] /\ it[s] \in Int
<1> DEFINE Good(t) == it[t] \in Int /\ \A y \in t : it[t] = f[y] + it[t \ {y}]
           Bad == {t \in SUBSET S : ~Good(t)}
           T == {Cardinality(t) : t \in Bad}
<1>1. T \in SUBSET Nat
  BY WithoutSome
<1>2. ASSUME T # {} PROVE FALSE
  <2>1. PICK n \in T : \A m \in T : n <= m
    <3> HIDE DEF T
    <3>1. QED
      BY <1>1, <1>2, SmallestNumber
  <2>2. PICK t \in Bad : n = Cardinality(t)
    BY <2>1
  <2>3. t \in SUBSET S /\ ~Good(t)
    BY <2>2
  <2>4. it[t] = IF t = {} THEN 0 ELSE f[Some(t)] + it[t \ {Some(t)}]
    <3>1. t \in SUBSET S
      BY <2>3
    <3> HIDE DEF Bad, T
    <3>2. QED
      BY <3>1, AddsUpStep
  <2>5. t # {}
    <3> SUFFICES ASSUME t = {} PROVE FALSE
      OBVIOUS
    <3>1. it[t] = 0
      BY <2>4
    <3>2. Good(t)
      BY <3>1
    <3>3. QED
      BY <3>2, <2>3
  <2>6. /\ Some(t) \in t /\ Cardinality(t) \in Nat
        /\ \A y \in t : t \ {y} \in SUBSET S /\ Cardinality(t \ {y}) = Cardinality(t) - 1
    BY <2>3, <2>5, WithoutSome
  <2> DEFINE z == Some(t)
  <2> HIDE DEF z
  <2>7. z \in t /\ it[t] = f[z] + it[t \ {z}]
    BY <2>4, <2>5, <2>6 DEF z
  <2>8. ASSUME NEW y \in t PROVE Good(t \ {y})
    <3>1. ~(n <= Cardinality(t \ {y}))
      BY <2>2, <2>6
    <3>2. t \ {y} \notin Bad
      BY <3>1, <2>1
    <3>3. QED
      BY <3>2, <2>6
  <2>9. it[t] \in Int
    <3>1. it[t \ {z}] \in Int /\ f[z] \in Int
      BY <2>3, <2>7, <2>8
    <3>2. QED
      BY <3>1, <2>7
  <2>10. ASSUME NEW y \in t PROVE it[t] = f[y] + it[t \ {y}]
    <3>1. CASE y = z
      BY <3>1, <2>7
    <3>2. CASE y # z
      <4>1. y \in t \ {z} /\ z \in t \ {y}
        BY <3>2, <2>7
      <4>2. it[t \ {z}] = f[y] + it[(t \ {z}) \ {y}]
        BY <4>1, <2>7, <2>8
      <4>3. it[t \ {y}] = f[z] + it[(t \ {y}) \ {z}]
        BY <4>1, <2>8
      <4>4. (t \ {z}) \ {y} = (t \ {y}) \ {z}
        OBVIOUS
      <4>5. (t \ {z}) \ {y} \in SUBSET S /\ it[(t \ {z}) \ {y}] \in Int
        <5>1. t \ {z} \in SUBSET S /\ Good(t \ {z})
          BY <2>3, <2>7, <2>8
        <5>2. it[t \ {z}] \in Int /\ f[y] \in Int
          BY <5>1, <2>3
        <5>3. Cardinality(t \ {z}) \in Nat /\ Cardinality((t \ {z}) \ {y}) = Cardinality(t \ {z}) - 1
          <6>1. t \ {z} \in SUBSET S /\ y \in t \ {z}
            BY <4>1, <5>1
          <6> HIDE DEF Bad, T, Good
          <6>2. QED
            BY <6>1, WithoutSome
        <5>4. ~(n <= Cardinality((t \ {z}) \ {y}))
          BY <5>3, <2>2, <2>6, <2>7
        <5>5. (t \ {z}) \ {y} \notin Bad
          BY <5>4, <2>1
        <5>6. QED
          BY <5>5, <2>3
      <4>6. f[y] \in Int /\ f[z] \in Int
        BY <2>3, <2>7
      <4> DEFINE u == it[(t \ {z}) \ {y}]
      <4>7. u \in Int /\ it[t \ {z}] = f[y] + u /\ it[t \ {y}] = f[z] + u
        BY <4>2, <4>3, <4>4, <4>5
      <4> HIDE DEF u
      <4>8. QED
        BY <4>6, <4>7, <2>7
    <3>3. QED
      BY <3>1, <3>2
  <2>11. QED
    BY <2>3, <2>9, <2>10
<1>3. s \notin Bad
  <2> HIDE DEF Bad
  <2>1. QED
    BY <1>2
<1>4. Good(s) /\ x \in S
  BY <1>3
<1>5. QED
  BY <1>4

\* The sum of f[x] for all x of a finite set S, as the community modules have it, too.
SumOf(f, S) == LET it[s \in SUBSET S] == IF s = {} THEN 0 ELSE f[Some(s)] + it[s \ {Some(s)}] IN it[S]

LEMMA SumOfIs ==
  ASSUME NEW S, IsFiniteSet(S), NEW f
  PROVE  \E it : AddsUp(it, f, SUBSET S) /\ SumOf(f, S) = it[S]
<1> DEFINE it == CHOOSE g : AddsUp(g, f, SUBSET S)
<1>1. AddsUp(it, f, SUBSET S)
  <2>1. \E g : AddsUp(g, f, SUBSET S)
    BY AddsUpExists
  <2>2. QED
    BY <2>1
<1>2. SumOf(f, S) = it[S]
  BY DEF SumOf, AddsUp
<1> HIDE DEF it
<1>3. QED
  BY <1>1, <1>2

\* The sum with one element more, the sum of none, and the same sum.
LEMMA SumOfTakes ==
  ASSUME NEW S, IsFiniteSet(S), NEW f, \A y \in S : f[y] \in Int, NEW x \in S
  PROVE  SumOf(f, S) = f[x] + SumOf(f, S \ {x}) /\ SumOf(f, S \ {x}) \in Int
<1>1. PICK it : AddsUp(it, f, SUBSET S) /\ SumOf(f, S) = it[S]
  BY SumOfIs
<1>2. IsFiniteSet(S \ {x})
  BY FS_Subset
<1>3. PICK jt : AddsUp(jt, f, SUBSET (S \ {x})) /\ SumOf(f, S \ {x}) = jt[S \ {x}]
  BY <1>2, SumOfIs
<1>4. S \ {x} \subseteq S /\ S \ {x} \subseteq S \ {x} /\ S \in SUBSET S
  OBVIOUS
<1>5. it[S \ {x}] = jt[S \ {x}]
  <2> DEFINE R == S \ {x}
  <2>1. Sums(it, f, S) /\ Sums(jt, f, R) /\ R \subseteq S
    BY <1>1, <1>2, <1>3 DEF Sums
  <2> HIDE DEF R
  <2>2. R \subseteq R /\ \A y \in R : f[y] = f[y]
    OBVIOUS
  <2>3. it[R] = jt[R]
    BY <2>1, <2>2, SumsAgree
  <2>4. QED
    BY <2>3 DEF R
<1>6. it[S] = f[x] + it[S \ {x}] /\ it[S] \in Int
  BY <1>1, <1>4, SumTakes
<1>7. it[S \ {x}] \in Int
  <2>1. CASE S \ {x} = {}
    BY <2>1, <1>1 DEF AddsUp
  <2>2. CASE S \ {x} # {}
    <3>1. PICK y : y \in S \ {x}
      BY <2>2
    <3>2. QED
      BY <3>1, <1>1, <1>4, SumTakes
  <2>3. QED
    BY <2>1, <2>2
<1>8. QED
  BY <1>1, <1>3, <1>5, <1>6, <1>7

LEMMA SumOfNone ==
  ASSUME NEW f PROVE SumOf(f, {}) = 0
<1>1. IsFiniteSet({})
  BY FS_EmptySet
<1>2. PICK it : AddsUp(it, f, SUBSET {}) /\ SumOf(f, {}) = it[{}]
  BY <1>1, SumOfIs
<1>3. QED
  BY <1>2 DEF AddsUp

LEMMA SumOfAgrees ==
  ASSUME NEW S, IsFiniteSet(S), NEW f, NEW g, \A x \in S : f[x] = g[x]
  PROVE  SumOf(f, S) = SumOf(g, S)
<1>1. PICK it : AddsUp(it, f, SUBSET S) /\ SumOf(f, S) = it[S]
  BY SumOfIs
<1>2. PICK jt : AddsUp(jt, g, SUBSET S) /\ SumOf(g, S) = jt[S]
  BY SumOfIs
<1>3. it[S] = jt[S]
  <2>1. Sums(it, f, S) /\ Sums(jt, g, S) /\ S \subseteq S
    BY <1>1, <1>2 DEF Sums
  <2>2. QED
    BY <2>1, SumsAgree
<1>4. QED
  BY <1>1, <1>2, <1>3

LEMMA SumOfType ==
  ASSUME NEW S, IsFiniteSet(S), NEW f, \A y \in S : f[y] \in Int
  PROVE  SumOf(f, S) \in Int
<1>1. CASE S = {}
  BY <1>1, SumOfNone
<1>2. CASE S # {}
  <2>1. PICK x \in S : TRUE
    BY <1>2
  <2>2. SumOf(f, S) = f[x] + SumOf(f, S \ {x}) /\ SumOf(f, S \ {x}) \in Int
    BY SumOfTakes
  <2>3. f[x] \in Int
    OBVIOUS
  <2>4. QED
    BY <2>2, <2>3
<1>3. QED
  BY <1>1, <1>2

\* With more elements, none of them negative, a sum is no smaller.
LEMMA SumOfMore ==
  ASSUME NEW S, IsFiniteSet(S), NEW f, \A y \in S : f[y] \in Nat, NEW A \in SUBSET S
  PROVE  SumOf(f, A) <= SumOf(f, S)
<1> DEFINE N == Cardinality(S)
           Holds(T) == A \subseteq T => SumOf(f, A) <= SumOf(f, T)
           G == {n \in 0 .. N : \A T \in SUBSET S : Cardinality(T) = n => Holds(T)}
<1>1. N \in Nat /\ IsFiniteSet(A)
  BY FS_CardinalityType, FS_Subset
<1>2. SumOf(f, A) \in Int
  <2>1. \A y \in A : f[y] \in Int
    OBVIOUS
  <2>2. QED
    BY <2>1, <1>1, SumOfType
<1>3. 0 \in G
  <2>1. ASSUME NEW T \in SUBSET S, Cardinality(T) = 0 PROVE Holds(T)
    <3>1. IsFiniteSet(T)
      BY FS_Subset
    <3>2. T = {}
      BY <2>1, <3>1, FS_EmptySet
    <3>3. A \subseteq T => A = T
      BY <3>2
    <3>4. QED
      BY <3>3, <1>2
  <2>2. QED
    BY <2>1, <1>1
<1>4. ASSUME NEW n \in 0 .. N, n < N, n \in G PROVE n + 1 \in G
  <2>1. ASSUME NEW T \in SUBSET S, Cardinality(T) = n + 1, A \subseteq T PROVE SumOf(f, A) <= SumOf(f, T)
    <3>1. CASE A = T
      BY <3>1, <1>2
    <3>2. CASE A # T
      <4>1. PICK x \in T : x \notin A
        BY <2>1, <3>2
      <4>2. IsFiniteSet(T) /\ T \ {x} \in SUBSET S /\ A \subseteq T \ {x} /\ f[x] \in Nat
            /\ \A y \in T : f[y] \in Int
        BY <2>1, <4>1, FS_Subset
      <4>3. Cardinality(T \ {x}) = n
        <5>1. Cardinality(T \ {x}) = Cardinality(T) - 1
          BY <4>2, FS_RemoveElement
        <5>2. QED
          BY <5>1, <2>1
      <4>4. SumOf(f, A) <= SumOf(f, T \ {x})
        BY <4>2, <4>3, <1>4
      <4>5. SumOf(f, T) = f[x] + SumOf(f, T \ {x}) /\ SumOf(f, T \ {x}) \in Int
        BY <4>2, SumOfTakes
      <4>6. QED
        BY <4>2, <4>4, <4>5, <1>2
    <3>3. QED
      BY <3>1, <3>2
  <2>2. n + 1 \in 0 .. N
    BY <1>1, <1>4
  <2>3. QED
    BY <2>1, <2>2
<1>5. N \in G
  <2>1. \A n \in 0 .. N : n < N /\ n \in G => n + 1 \in G
    BY <1>4
  <2> HIDE DEF G, N
  <2>2. \A n \in 0 .. N : n \in G
    BY <1>1, <1>3, <2>1, CountUp
  <2>3. QED
    BY <2>2, <1>1
<1>6. QED
  BY <1>5
=============================================================================
