----------------------------- MODULE SetInduction -----------------------------
(***************************************************************************)
(* Induction and recursion over the naturals and finite sets, with sets    *)
(* and functions in place of operator arguments: a proof names the set of  *)
(* the numbers it is about, or the function that makes one value of the    *)
(* next, and the provers need not instantiate an operator.                 *)
(***************************************************************************)
EXTENDS Integers, FiniteSets, WellFoundedInduction, FiniteSetTheorems, TLAPS

\* A set of naturals has a least element.
LEMMA LeastNat ==
  ASSUME NEW S \in SUBSET Nat, S # {}
  PROVE  \E n \in S : \A m \in S : n <= m
<1>1. \E n \in S : \A m \in S : <<m, n>> \notin OpToRel(<, Nat)
  BY NatLessThanWellFounded, WFMin, Zenon
<1>2. \A m, n \in Nat : <<m, n>> \notin OpToRel(<, Nat) => n <= m
  BY DEF OpToRel
<1> QED BY <1>1, <1>2

\* Induction.
LEMMA NatSetInduction ==
  ASSUME NEW S, 0 \in S, \A n \in Nat : n \in S => n + 1 \in S
  PROVE  Nat \subseteq S
<1> SUFFICES ASSUME Nat \ S # {} PROVE FALSE
  OBVIOUS
<1>1. PICK n \in Nat \ S : \A m \in Nat \ S : n <= m
  BY LeastNat
<1>2. n # 0 /\ n - 1 \in Nat /\ ~(n <= n - 1) /\ n = (n - 1) + 1
  BY <1>1
<1> QED BY <1>1, <1>2

\* f follows step on 0..n.
Follows(f, start, step, n) ==
  /\ DOMAIN f = 0..n /\ f[0] = start
  /\ \A k \in 1..n : f[k] = step[<<f[k - 1], k>>]

\* f is what start and step define on the numbers of D.
Recursive(f, D, start, step) ==
  \A n \in D : f[n] = IF n = 0 THEN start ELSE step[<<f[n - 1], n>>]

\* Functions by recursion.
LEMMA NatRecursion ==
  ASSUME NEW V, NEW start \in V, NEW step \in [V \X Nat -> V]
  PROVE  \E f \in [Nat -> V] : Recursive(f, Nat, start, step)
<1> DEFINE Good(n) == {g \in [0..n -> V] : Follows(g, start, step, n)}
<1>1. \A n \in Nat : Good(n) # {}
  <2> DEFINE S == {n \in Nat : Good(n) # {}}
  <2>1. 0 \in S
    <3>1. [k \in 0..0 |-> start] \in Good(0)
      BY DEF Follows
    <3> QED BY <3>1
  <2>2. ASSUME NEW n \in Nat, n \in S PROVE n + 1 \in S
    <3>1. PICK g \in [0..n -> V] : Follows(g, start, step, n)
      BY <2>2
    <3> DEFINE h == [k \in 0..(n + 1) |-> IF k = n + 1 THEN step[<<g[n], n + 1>>] ELSE g[k]]
    <3>2. h \in [0..(n + 1) -> V]
      <4>1. \A k \in 0..(n + 1) : k # n + 1 => k \in 0..n
        OBVIOUS
      <4>2. step[<<g[n], n + 1>>] \in V
        OBVIOUS
      <4> QED BY <4>1, <4>2
    <3>3. Follows(h, start, step, n + 1)
      <4>1. h[0] = start
        BY <3>1 DEF Follows
      <4>2. ASSUME NEW k \in 1..(n + 1) PROVE h[k] = step[<<h[k - 1], k>>]
        <5>1. CASE k = n + 1
          <6>1. k \in 0..(n + 1) /\ k - 1 = n /\ n \in 0..(n + 1) /\ n # n + 1
            BY <5>1
          <6>2. h[k] = step[<<g[n], n + 1>>] /\ h[n] = g[n]
            BY <5>1, <6>1
          <6> QED BY <5>1, <6>1, <6>2
        <5>2. CASE k # n + 1
          <6>1. k \in 1..n /\ k \in 0..(n + 1) /\ k - 1 \in 0..(n + 1) /\ k - 1 # n + 1
            BY <5>2
          <6>2. h[k] = g[k] /\ h[k - 1] = g[k - 1]
            BY <5>2, <6>1
          <6> QED BY <3>1, <6>1, <6>2 DEF Follows
        <5> QED BY <5>1, <5>2
      <4> QED BY <4>1, <4>2 DEF Follows
    <3> QED BY <3>2, <3>3
  <2> HIDE DEF S
  <2>3. Nat \subseteq S
    BY <2>1, <2>2, NatSetInduction
  <2> QED BY <2>3 DEF S
\* Any two agree where both are defined.
<1>2. ASSUME NEW m \in Nat, NEW n \in Nat, m <= n, NEW g \in Good(m), NEW h \in Good(n)
      PROVE  g[m] = h[m]
  <2> DEFINE S == {k \in Nat : k <= m => g[k] = h[k]}
  <2>1. 0 \in S
    BY <1>2 DEF Follows
  <2>2. ASSUME NEW k \in Nat, k \in S PROVE k + 1 \in S
    <3> SUFFICES ASSUME k + 1 <= m PROVE g[k + 1] = h[k + 1]
      OBVIOUS
    <3>1. k + 1 \in 1..m /\ k + 1 \in 1..n /\ (k + 1) - 1 = k /\ k <= m
      BY <1>2
    <3>2. g[k] = h[k]
      BY <2>2, <3>1
    <3> QED BY <1>2, <3>1, <3>2 DEF Follows
  <2> HIDE DEF S
  <2>3. Nat \subseteq S
    BY <2>1, <2>2, NatSetInduction
  <2> QED BY <2>3 DEF S
<1> DEFINE G(n) == CHOOSE g \in Good(n) : TRUE
           f    == [n \in Nat |-> G(n)[n]]
<1>3. \A n \in Nat : G(n) \in Good(n)
  BY <1>1
<1> HIDE DEF G
<1>4. f \in [Nat -> V]
  <2> SUFFICES ASSUME NEW n \in Nat PROVE G(n)[n] \in V
    OBVIOUS
  <2>1. G(n) \in [0..n -> V] /\ n \in 0..n
    BY <1>3
  <2> QED BY <2>1
<1>5. ASSUME NEW n \in Nat PROVE f[n] = IF n = 0 THEN start ELSE step[<<f[n - 1], n>>]
  <2>1. G(n) \in [0..n -> V] /\ Follows(G(n), start, step, n)
    BY <1>3
  <2>2. CASE n = 0
    BY <2>1, <2>2 DEF Follows
  <2>3. CASE n # 0
    <3>1. n - 1 \in Nat /\ n - 1 <= n /\ n \in 1..n
      BY <2>3
    <3>2. G(n - 1) \in Good(n - 1) /\ G(n) \in Good(n)
      BY <1>3, <3>1
    <3>3. G(n - 1)[n - 1] = G(n)[n - 1]
      <4> HIDE DEF Good
      <4> QED BY <1>2, <3>1, <3>2
    <3>4. f[n] = G(n)[n] /\ f[n - 1] = G(n - 1)[n - 1]
      BY <3>1
    <3>5. G(n)[n] = step[<<G(n)[n - 1], n>>]
      BY <2>1, <3>1 DEF Follows
    <3> HIDE DEF f
    <3> QED BY <2>3, <3>3, <3>4, <3>5
  <2> QED BY <2>2, <2>3
<1> HIDE DEF f
<1>6. Recursive(f, Nat, start, step)
  BY <1>5 DEF Recursive
<1> QED BY <1>4, <1>6

\* The same for functions on an interval.
LEMMA IntervalRecursion ==
  ASSUME NEW V, NEW start \in V, NEW N \in Nat, NEW step \in [V \X (1..N) -> V]
  PROVE  \E f \in [0..N -> V] : Recursive(f, 0..N, start, step)
<1> DEFINE longer == [p \in V \X Nat |-> IF p[2] \in 1..N THEN step[p] ELSE start]
<1>1. longer \in [V \X Nat -> V]
  <2> SUFFICES ASSUME NEW p \in V \X Nat
               PROVE  (IF p[2] \in 1..N THEN step[p] ELSE start) \in V
    OBVIOUS
  <2>1. p[2] \in 1..N => p \in V \X (1..N)
    OBVIOUS
  <2> QED BY <2>1
<1>2. \A v \in V, n \in 1..N : longer[<<v, n>>] = step[<<v, n>>]
  <2> SUFFICES ASSUME NEW v \in V, NEW n \in 1..N PROVE longer[<<v, n>>] = step[<<v, n>>]
    OBVIOUS
  <2>1. <<v, n>> \in V \X Nat /\ <<v, n>>[2] = n
    OBVIOUS
  <2> QED BY <2>1
<1> HIDE DEF longer
<1>3. PICK f \in [Nat -> V] : Recursive(f, Nat, start, longer)
  BY <1>1, NatRecursion
<1> DEFINE g == [n \in 0..N |-> f[n]]
<1>4. \A n \in 0..N : g[n] = IF n = 0 THEN start ELSE step[<<g[n - 1], n>>]
  <2> SUFFICES ASSUME NEW n \in 0..N PROVE g[n] = IF n = 0 THEN start ELSE step[<<g[n - 1], n>>]
    OBVIOUS
  <2>1. CASE n = 0
    BY <1>3, <2>1 DEF Recursive
  <2>2. CASE n # 0
    <3>1. n \in 1..N /\ n - 1 \in 0..N /\ n - 1 \in Nat
      BY <2>2
    <3>2. f[n] = longer[<<f[n - 1], n>>]
      BY <1>3, <2>2 DEF Recursive
    <3> QED BY <1>2, <2>2, <3>1, <3>2
  <2> QED BY <2>1, <2>2
<1>5. g \in [0..N -> V]
  OBVIOUS
<1> HIDE DEF g
<1>6. Recursive(g, 0..N, start, step)
  BY <1>4 DEF Recursive
<1> QED BY <1>5, <1>6

\* step looks at f below the rank of d only.
Local(step, D, V, rank) ==
  \A f, g \in [D -> V], d \in D :
    (\A e \in D : rank[e] < rank[d] => f[e] = g[e]) => step[<<f, d>>] = step[<<g, d>>]

Solves(f, step, D) == \A d \in D : f[d] = step[<<f, d>>]

\* Functions by recursion on a bounded rank.
LEMMA RankRecursion ==
  ASSUME NEW D, NEW V, NEW B \in Nat, NEW rank \in [D -> 0..B], NEW W, W = [D -> V],
         NEW start \in W, NEW step \in [W \X D -> V], Local(step, D, V, rank)
  PROVE  \E f \in W : Solves(f, step, D)
<1> DEFINE next == [p \in W \X Nat |-> [d \in D |-> step[<<p[1], d>>]]]
<1>1. next \in [W \X Nat -> W] /\ \A w \in W, n \in Nat : next[<<w, n>>] = [d \in D |-> step[<<w, d>>]]
  <2>1. \A w \in W : [d \in D |-> step[<<w, d>>]] \in W
    OBVIOUS
  <2>2. \A p \in W \X Nat : p[1] \in W
    OBVIOUS
  <2>3. \A w \in W, n \in Nat : <<w, n>> \in W \X Nat /\ <<w, n>>[1] = w
    OBVIOUS
  <2>4. \A p \in W \X Nat : next[p] = [d \in D |-> step[<<p[1], d>>]]
    OBVIOUS
  <2>5. next = [p \in W \X Nat |-> next[p]]
    OBVIOUS
  <2> HIDE DEF next
  <2>6. \A p \in W \X Nat : next[p] \in W
    BY <2>1, <2>2, <2>4
  <2>7. next \in [W \X Nat -> W]
    BY <2>5, <2>6
  <2>8. \A w \in W, n \in Nat : next[<<w, n>>] = [d \in D |-> step[<<w, d>>]]
    <3> SUFFICES ASSUME NEW w \in W, NEW n \in Nat PROVE next[<<w, n>>] = [d \in D |-> step[<<w, d>>]]
      OBVIOUS
    <3>1. next[<<w, n>>] = [d \in D |-> step[<<<<w, n>>[1], d>>]]
      BY <2>3, <2>4
    <3> QED BY <2>3, <3>1
  <2> QED BY <2>7, <2>8
<1> HIDE DEF next
<1>2. PICK F \in [Nat -> W] : Recursive(F, Nat, start, next)
  BY <1>1, NatRecursion
<1>3. ASSUME NEW n \in Nat
      PROVE  F[n] \in W /\ F[n + 1] \in W /\ \A d \in D : F[n + 1][d] = step[<<F[n], d>>]
  <2>1. n + 1 \in Nat /\ n + 1 # 0 /\ (n + 1) - 1 = n
    OBVIOUS
  <2>2. F[n] \in W /\ F[n + 1] \in W
    BY <2>1
  <2>3. F[n + 1] = next[<<F[n], n + 1>>]
    BY <1>2, <2>1 DEF Recursive
  <2>4. F[n + 1] = [d \in D |-> step[<<F[n], d>>]]
    BY <1>1, <2>1, <2>2, <2>3
  <2> QED BY <2>2, <2>4
<1> DEFINE Settled(n) == \A d \in D : rank[d] < n => F[n + 1][d] = F[n][d]
           S == {n \in Nat : Settled(n)}
<1>4. 0 \in S
  <2>1. \A d \in D : ~(rank[d] < 0)
    OBVIOUS
  <2> QED BY <2>1
<1>5. ASSUME NEW n \in Nat, n \in S PROVE n + 1 \in S
  <2> SUFFICES ASSUME NEW d \in D, rank[d] < n + 1 PROVE F[(n + 1) + 1][d] = F[n + 1][d]
    OBVIOUS
  <2>1. \A e \in D : rank[e] < rank[d] => F[n + 1][e] = F[n][e]
    <3> SUFFICES ASSUME NEW e \in D, rank[e] < rank[d] PROVE F[n + 1][e] = F[n][e]
      OBVIOUS
    <3>1. rank[e] \in Nat /\ rank[d] \in Nat
      OBVIOUS
    <3>2. rank[e] < n
      BY <3>1
    <3> QED BY <1>5, <3>2
  <2>2. n + 1 \in Nat
    OBVIOUS
  <2>3. F[n] \in W /\ F[n + 1] \in W /\ F[n + 1][d] = step[<<F[n], d>>]
    BY <1>3
  <2>4. F[(n + 1) + 1][d] = step[<<F[n + 1], d>>]
    BY <1>3, <2>2
  <2> HIDE DEF S
  <2>5. step[<<F[n + 1], d>>] = step[<<F[n], d>>]
    BY <2>1, <2>3 DEF Local
  <2> QED BY <2>3, <2>4, <2>5
<1> HIDE DEF S
<1>6. Nat \subseteq S
  BY <1>4, <1>5, NatSetInduction
<1>7. B + 1 \in Nat /\ \A d \in D : rank[d] < B + 1
  OBVIOUS
<1>8. Settled(B + 1)
  BY <1>6, <1>7 DEF S
<1>9. \A d \in D : F[B + 1][d] = step[<<F[B + 1], d>>]
  BY <1>3, <1>7, <1>8
<1>10. F[B + 1] \in W
  BY <1>3, <1>7
<1>11. Solves(F[B + 1], step, D)
  BY <1>9 DEF Solves
<1> QED BY <1>10, <1>11
\* Induction on a rank.
LEMMA RankInduction ==
  ASSUME NEW D, NEW rank \in [D -> Nat], NEW P,
         \A d \in D : (\A e \in D : rank[e] < rank[d] => e \in P) => d \in P
  PROVE  D \subseteq P
<1> DEFINE S == {n \in Nat : \A d \in D : rank[d] < n => d \in P}
<1>1. 0 \in S
  OBVIOUS
<1>2. ASSUME NEW n \in Nat, n \in S PROVE n + 1 \in S
  <2> SUFFICES ASSUME NEW d \in D, rank[d] < n + 1 PROVE d \in P
    OBVIOUS
  <2>1. \A e \in D : rank[e] < rank[d] => e \in P
    <3> SUFFICES ASSUME NEW e \in D, rank[e] < rank[d] PROVE e \in P
      OBVIOUS
    <3>1. rank[e] \in Nat /\ rank[d] \in Nat
      OBVIOUS
    <3>2. rank[e] < n
      BY <3>1
    <3> QED BY <1>2, <3>2
  <2> QED BY <2>1
<1> HIDE DEF S
<1>3. Nat \subseteq S
  BY <1>1, <1>2, NatSetInduction
<1> SUFFICES ASSUME NEW d \in D PROVE d \in P
  OBVIOUS
<1>4. rank[d] + 1 \in S /\ rank[d] < rank[d] + 1
  BY <1>3
<1> QED BY <1>4 DEF S

\* Induction over the numbers up to N.
LEMMA IntervalInduction ==
  ASSUME NEW N \in Nat, NEW P, 0 \in P, \A n \in 1..N : n - 1 \in P => n \in P
  PROVE  0..N \subseteq P
<1> DEFINE S == {n \in Nat : n <= N => n \in P}
<1>1. 0 \in S
  OBVIOUS
<1>2. ASSUME NEW n \in Nat, n \in S PROVE n + 1 \in S
  <2> SUFFICES ASSUME n + 1 <= N PROVE n + 1 \in P
    OBVIOUS
  <2>1. n + 1 \in 1..N /\ (n + 1) - 1 = n /\ n \in P
    BY <1>2
  <2> QED BY <2>1
<1> HIDE DEF S
<1>3. Nat \subseteq S
  BY <1>1, <1>2, NatSetInduction
<1> QED BY <1>3 DEF S

\* f is what start and step define on the subsets of S, where pick says which element is taken away.
RecursiveOnSubsets(f, S, start, step, pick) ==
  \A T \in SUBSET S : f[T] = IF T = {} THEN start ELSE step[<<f[T \ {pick[T]}], pick[T]>>]

\* Functions on the subsets of a finite set, by recursion: one element is taken away at a time.
LEMMA SubsetRecursion ==
  ASSUME NEW S, IsFiniteSet(S), NEW V, NEW start \in V, NEW step \in [V \X S -> V],
         NEW pick \in [(SUBSET S) \ {{}} -> S], \A T \in (SUBSET S) \ {{}} : pick[T] \in T
  PROVE  \E f \in [SUBSET S -> V] : RecursiveOnSubsets(f, S, start, step, pick)
<1> DEFINE Good(f, T) == f[T] = IF T = {} THEN start ELSE step[<<f[T \ {pick[T]}], pick[T]>>]
           K == {n \in Nat : \E f \in [SUBSET S -> V] :
                               \A T \in SUBSET S : Cardinality(T) <= n => Good(f, T)}
<1>1. \A T \in SUBSET S : IsFiniteSet(T) /\ Cardinality(T) \in Nat
  BY FS_Subset, FS_CardinalityType
<1>2. \A T \in SUBSET S : Cardinality(T) = 0 => T = {}
  BY <1>1, FS_EmptySet
<1>3. \A T \in (SUBSET S) \ {{}} : /\ T \ {pick[T]} \in SUBSET S
                                   /\ Cardinality(T \ {pick[T]}) = Cardinality(T) - 1
  BY <1>1, FS_RemoveElement
<1>4. 0 \in K
  <2> DEFINE g == [T \in SUBSET S |-> start]
  <2>1. g \in [SUBSET S -> V]
    OBVIOUS
  <2>2. \A T \in SUBSET S : Cardinality(T) <= 0 => Good(g, T)
    BY <1>1, <1>2
  <2> QED BY <2>1, <2>2
<1>5. ASSUME NEW n \in Nat, n \in K PROVE n + 1 \in K
  <2>1. PICK f \in [SUBSET S -> V] : \A T \in SUBSET S : Cardinality(T) <= n => Good(f, T)
    BY <1>5
  <2> DEFINE g == [T \in SUBSET S |-> IF Cardinality(T) <= n THEN f[T]
                                      ELSE step[<<f[T \ {pick[T]}], pick[T]>>]]
  <2>2. g \in [SUBSET S -> V]
    <3> SUFFICES ASSUME NEW T \in SUBSET S, ~(Cardinality(T) <= n)
                 PROVE  step[<<f[T \ {pick[T]}], pick[T]>>] \in V
      OBVIOUS
    <3>1. T # {}
      <4>1. Cardinality({}) <= n
        BY FS_EmptySet
      <4> QED BY <4>1
    <3>2. f[T \ {pick[T]}] \in V /\ pick[T] \in S
      BY <1>3, <3>1
    <3> QED BY <3>2
  <2>3. ASSUME NEW T \in SUBSET S, Cardinality(T) <= n + 1 PROVE Good(g, T)
    <3>1. CASE T = {}
      <4>1. Cardinality(T) <= n
        BY <3>1, FS_EmptySet
      <4> QED BY <2>1, <3>1, <4>1
    <3>2. CASE T # {}
      <4> DEFINE U == T \ {pick[T]}
      <4>1. U \in SUBSET S /\ Cardinality(U) <= n
        BY <1>1, <1>3, <2>3, <3>2
      <4>2. g[U] = f[U]
        BY <4>1
      <4>3. g[T] = step[<<f[U], pick[T]>>]
        <5>1. CASE Cardinality(T) <= n
          BY <2>1, <3>2, <5>1
        <5>2. CASE ~(Cardinality(T) <= n)
          BY <5>2
        <5> QED BY <5>1, <5>2
      <4> HIDE DEF g
      <4> QED BY <3>2, <4>2, <4>3
    <3> QED BY <3>1, <3>2
  <2> HIDE DEF g, Good
  <2> QED BY <2>2, <2>3
<1> HIDE DEF K
<1>6. Cardinality(S) \in K
  BY <1>1, <1>4, <1>5, NatSetInduction
<1>7. PICK f \in [SUBSET S -> V] : \A T \in SUBSET S : Cardinality(T) <= Cardinality(S) => Good(f, T)
  BY <1>6 DEF K
<1>8. \A T \in SUBSET S : Cardinality(T) <= Cardinality(S)
  BY FS_Subset
<1> QED BY <1>7, <1>8 DEF RecursiveOnSubsets

\* Induction on the subsets of a finite set.
LEMMA SubsetInduction ==
  ASSUME NEW S, IsFiniteSet(S), NEW P,
         \A T \in SUBSET S : (\A x \in T : T \ {x} \in P) => T \in P
  PROVE  SUBSET S \subseteq P
<1> DEFINE K == {n \in Nat : \A T \in SUBSET S : Cardinality(T) = n => T \in P}
<1>1. \A T \in SUBSET S : IsFiniteSet(T) /\ Cardinality(T) \in Nat
  BY FS_Subset, FS_CardinalityType
<1>2. 0 \in K
  <2> SUFFICES ASSUME NEW T \in SUBSET S, Cardinality(T) = 0 PROVE T \in P
    OBVIOUS
  <2>1. T = {}
    BY <1>1, FS_EmptySet
  <2> QED BY <2>1
<1>3. ASSUME NEW n \in Nat, n \in K PROVE n + 1 \in K
  <2> SUFFICES ASSUME NEW T \in SUBSET S, Cardinality(T) = n + 1 PROVE T \in P
    OBVIOUS
  <2>1. ASSUME NEW x \in T PROVE T \ {x} \in SUBSET S /\ Cardinality(T \ {x}) = n
    <3>1. Cardinality(T \ {x}) = Cardinality(T) - 1
      BY <1>1, FS_RemoveElement
    <3> QED BY <3>1
  <2> QED BY <1>3, <2>1
<1> HIDE DEF K
<1>4. Nat \subseteq K
  BY <1>2, <1>3, NatSetInduction
<1> QED BY <1>1, <1>4 DEF K
-----------------------------------------------------------------------------
(* Sums over finite sets *)

Some(T) == CHOOSE x \in T : TRUE

\* g adds up v over the subsets of S, as the library's folds do: some element first.
Summing(g, v, S) ==
  /\ g \in [SUBSET S -> Int]
  /\ \A T \in SUBSET S : g[T] = IF T = {} THEN 0 ELSE v[Some(T)] + g[T \ {Some(T)}]

\* A finite set has a running sum over its subsets.
LEMMA SumExists ==
  ASSUME NEW S, IsFiniteSet(S), NEW v \in [S -> Int]
  PROVE  \E g : Summing(g, v, S)
<1> DEFINE pick == [T \in (SUBSET S) \ {{}} |-> Some(T)]
           step == [p \in Int \X S |-> v[p[2]] + p[1]]
<1>1. \A T \in (SUBSET S) \ {{}} : Some(T) \in T /\ Some(T) \in S
  BY DEF Some
<1>2. pick \in [(SUBSET S) \ {{}} -> S] /\ \A T \in (SUBSET S) \ {{}} : pick[T] = Some(T) /\ pick[T] \in T
  BY <1>1
<1>3. step \in [Int \X S -> Int] /\ \A n \in Int, x \in S : step[<<n, x>>] = v[x] + n
  OBVIOUS
<1> HIDE DEF pick, step
<1>4. PICK g \in [SUBSET S -> Int] : RecursiveOnSubsets(g, S, 0, step, pick)
  <2> DEFINE V == Int
  <2>1. 0 \in V /\ step \in [V \X S -> V] /\ pick \in [(SUBSET S) \ {{}} -> S]
    BY <1>2, <1>3
  <2>2. \A T \in (SUBSET S) \ {{}} : pick[T] \in T
    BY <1>2
  <2> HIDE DEF V
  <2>3. \E g \in [SUBSET S -> V] : RecursiveOnSubsets(g, S, 0, step, pick)
    BY <2>1, <2>2, SubsetRecursion
  <2> QED BY <2>3 DEF V
<1>5. ASSUME NEW T \in SUBSET S, T # {} PROVE g[T] = v[Some(T)] + g[T \ {Some(T)}]
  <2>1. pick[T] = Some(T) /\ Some(T) \in S /\ T \ {Some(T)} \in SUBSET S
    BY <1>1, <1>2, <1>5
  <2>2. g[T] = step[<<g[T \ {Some(T)}], Some(T)>>]
    BY <1>4, <1>5, <2>1 DEF RecursiveOnSubsets
  <2> QED BY <1>3, <2>1, <2>2
<1>6. g[{}] = 0
  BY <1>4 DEF RecursiveOnSubsets
<1> QED BY <1>5, <1>6 DEF Summing

\* Two sums of the same numbers agree.
LEMMA SumsAgree ==
  ASSUME NEW S, IsFiniteSet(S), NEW R, NEW v, NEW w, NEW g, NEW h, Summing(g, v, S), Summing(h, w, R),
         S \subseteq R, \A x \in S : v[x] = w[x]
  PROVE  \A T \in SUBSET S : g[T] = h[T]
<1> DEFINE P == {T \in SUBSET S : g[T] = h[T]}
<1>1. \A T \in SUBSET S : (\A x \in T : T \ {x} \in P) => T \in P
  <2> SUFFICES ASSUME NEW T \in SUBSET S, \A x \in T : T \ {x} \in P PROVE g[T] = h[T]
    OBVIOUS
  <2>1. CASE T = {}
    BY <2>1 DEF Summing
  <2>2. CASE T # {}
    <3>1. Some(T) \in T
      BY <2>2 DEF Some
    <3>2. g[T \ {Some(T)}] = h[T \ {Some(T)}]
      BY <3>1
    <3>3. g[T] = v[Some(T)] + g[T \ {Some(T)}] /\ h[T] = w[Some(T)] + h[T \ {Some(T)}]
      BY <2>2 DEF Summing
    <3> QED BY <3>1, <3>2, <3>3
  <2> QED BY <2>1, <2>2
<1> HIDE DEF P
<1>2. SUBSET S \subseteq P
  <2>1. \A Q : (\A T \in SUBSET S : (\A x \in T : T \ {x} \in Q) => T \in Q) => SUBSET S \subseteq Q
    BY SubsetInduction
  <2> QED BY <1>1, <2>1
<1> QED BY <1>2 DEF P

\* Any element can be taken away first.
LEMMA SumRemoves ==
  ASSUME NEW S, IsFiniteSet(S), NEW v \in [S -> Int], NEW g, Summing(g, v, S)
  PROVE  \A T \in SUBSET S : \A x \in T : g[T] = v[x] + g[T \ {x}]
<1> DEFINE P == {T \in SUBSET S : \A x \in T : g[T] = v[x] + g[T \ {x}]}
<1>1. \A T \in SUBSET S : (\A x \in T : T \ {x} \in P) => T \in P
  <2> SUFFICES ASSUME NEW T \in SUBSET S, \A x \in T : T \ {x} \in P, NEW x \in T
               PROVE  g[T] = v[x] + g[T \ {x}]
    OBVIOUS
  <2> DEFINE c == Some(T)
  <2>1. c \in T /\ g[T] = v[c] + g[T \ {c}]
    BY DEF Some, Summing
  <2> HIDE DEF c
  <2>2. CASE x # c
    <3>1. x \in T \ {c} /\ c \in T \ {x} /\ T \ {c} \in P /\ T \ {x} \in P
      BY <2>1, <2>2
    <3> DEFINE U == T \ {x, c}
    <3>2. (T \ {c}) \ {x} = U /\ (T \ {x}) \ {c} = U /\ U \in SUBSET S
      OBVIOUS
    <3> HIDE DEF U
    <3>3. g[T \ {c}] = v[x] + g[U] /\ g[T \ {x}] = v[c] + g[U]
      BY <3>1, <3>2
    <3>4. v[x] \in Int /\ v[c] \in Int /\ g[U] \in Int
      BY <2>1, <3>2 DEF Summing
    <3> HIDE DEF P
    <3> QED BY <2>1, <3>3, <3>4
  <2> QED BY <2>1, <2>2
<1> HIDE DEF P
<1>2. SUBSET S \subseteq P
  <2>1. \A Q : (\A T \in SUBSET S : (\A x \in T : T \ {x} \in Q) => T \in Q) => SUBSET S \subseteq Q
    BY SubsetInduction
  <2> QED BY <1>1, <2>1
<1> QED BY <1>2 DEF P

\* Equal values add up to their number times the value.
LEMMA SumConstant ==
  ASSUME NEW S, IsFiniteSet(S), NEW v, NEW c \in Int, \A x \in S : v[x] = c, NEW g, Summing(g, v, S)
  PROVE  \A T \in SUBSET S : g[T] = c * Cardinality(T)
<1> DEFINE P == {T \in SUBSET S : g[T] = c * Cardinality(T)}
<1>1. \A T \in SUBSET S : (\A x \in T : T \ {x} \in P) => T \in P
  <2> SUFFICES ASSUME NEW T \in SUBSET S, \A x \in T : T \ {x} \in P PROVE g[T] = c * Cardinality(T)
    OBVIOUS
  <2>1. CASE T = {}
    <3>1. g[{}] = 0 /\ Cardinality({}) = 0
      BY FS_EmptySet DEF Summing
    <3> QED BY <2>1, <3>1
  <2>2. CASE T # {}
    <3> DEFINE x == Some(T)
               n == Cardinality(T)
               m == Cardinality(T \ {x})
    <3>1. x \in T /\ IsFiniteSet(T)
      BY <2>2, FS_Subset DEF Some
    <3>2. m = n - 1 /\ n \in Nat
      BY <3>1, FS_RemoveElement, FS_CardinalityType
    <3>3. g[T] = v[x] + g[T \ {x}] /\ v[x] = c
      BY <2>2, <3>1 DEF Summing
    <3>4. g[T \ {x}] = c * m
      BY <3>1
    <3> HIDE DEF x, n, m
    <3>5. g[T] = c + c * m
      BY <3>3, <3>4
    <3> QED BY <3>2, <3>5 DEF n
  <2> QED BY <2>1, <2>2
<1> HIDE DEF P
<1>2. SUBSET S \subseteq P
  <2>1. \A Q : (\A T \in SUBSET S : (\A x \in T : T \ {x} \in Q) => T \in Q) => SUBSET S \subseteq Q
    BY SubsetInduction
  <2> QED BY <1>1, <2>1
<1> QED BY <1>2 DEF P

\* A sum of larger numbers is larger.
LEMMA SumsOrdered ==
  ASSUME NEW S, IsFiniteSet(S), NEW v, NEW w, NEW g, NEW h, Summing(g, v, S), Summing(h, w, S),
         \A x \in S : v[x] \in Int /\ w[x] \in Int /\ v[x] <= w[x]
  PROVE  \A T \in SUBSET S : g[T] <= h[T]
<1> DEFINE P == {T \in SUBSET S : g[T] <= h[T]}
<1>1. \A T \in SUBSET S : (\A x \in T : T \ {x} \in P) => T \in P
  <2> SUFFICES ASSUME NEW T \in SUBSET S, \A x \in T : T \ {x} \in P PROVE g[T] <= h[T]
    OBVIOUS
  <2>1. CASE T = {}
    <3>1. g[{}] = 0 /\ h[{}] = 0
      BY DEF Summing
    <3> QED BY <2>1, <3>1
  <2>2. CASE T # {}
    <3> DEFINE x == Some(T)
               U == T \ {x}
    <3>1. x \in T /\ x \in S /\ U \in P
      BY <2>2 DEF Some
    <3>2. g[T] = v[x] + g[U] /\ h[T] = w[x] + h[U] /\ g[U] \in Int /\ h[U] \in Int
      BY <2>2 DEF Summing
    <3> HIDE DEF x, U
    <3> QED BY <3>1, <3>2
  <2> QED BY <2>1, <2>2
<1> HIDE DEF P
<1>2. SUBSET S \subseteq P
  <2>1. \A Q : (\A T \in SUBSET S : (\A x \in T : T \ {x} \in Q) => T \in Q) => SUBSET S \subseteq Q
    BY SubsetInduction
  <2> QED BY <1>1, <2>1
<1> QED BY <1>2 DEF P

\* The library's folds define a sum by this equation.
Fixed(f, v, S) ==
  f = [T \in SUBSET S |-> IF T = {} THEN 0 ELSE v[Some(T)] + f[T \ {Some(T)}]]

\* A function that solves the recursion of the fold is that sum.
LEMMA FixedSums ==
  ASSUME NEW S, IsFiniteSet(S), NEW v, \A x \in S : v[x] \in Int, NEW f, Fixed(f, v, S)
  PROVE  Summing(f, v, S)
<1> DEFINE Step(T) == IF T = {} THEN 0 ELSE v[Some(T)] + f[T \ {Some(T)}]
<1>1. f = [T \in SUBSET S |-> Step(T)]
  BY DEF Fixed
<1>2. \A T \in SUBSET S : f[T] = Step(T)
  <2> HIDE DEF Step
  <2> QED BY <1>1
<1> DEFINE P == {T \in SUBSET S : f[T] \in Int}
<1>3. \A T \in SUBSET S : (\A x \in T : T \ {x} \in P) => T \in P
  <2> SUFFICES ASSUME NEW T \in SUBSET S, \A x \in T : T \ {x} \in P PROVE f[T] \in Int
    OBVIOUS
  <2>1. CASE T = {}
    <3>1. f[{}] = 0
      BY <1>2
    <3> QED BY <2>1, <3>1
  <2>2. CASE T # {}
    <3>1. Some(T) \in T /\ v[Some(T)] \in Int
      BY <2>2 DEF Some
    <3>2. f[T \ {Some(T)}] \in Int
      BY <3>1
    <3>3. f[T] = v[Some(T)] + f[T \ {Some(T)}]
      BY <1>2, <2>2
    <3> QED BY <3>1, <3>2, <3>3
  <2> QED BY <2>1, <2>2
<1> HIDE DEF P
<1>4. SUBSET S \subseteq P
  <2>1. \A Q : (\A T \in SUBSET S : (\A x \in T : T \ {x} \in Q) => T \in Q) => SUBSET S \subseteq Q
    BY SubsetInduction
  <2> QED BY <1>3, <2>1
<1>5. f \in [SUBSET S -> Int]
  <2>1. \A T \in SUBSET S : f[T] \in Int
    BY <1>4 DEF P
  <2>2. f = [T \in SUBSET S |-> f[T]]
    <3> HIDE DEF Step
    <3> QED BY <1>1, <1>2
  <2> QED BY <2>1, <2>2
<1> QED BY <1>2, <1>5 DEF Summing

\* Something satisfies it.
LEMMA FixedExists ==
  ASSUME NEW S, IsFiniteSet(S), NEW v, \A x \in S : v[x] \in Int
  PROVE  \E f : Fixed(f, v, S)
<1> DEFINE w == [x \in S |-> v[x]]
<1>1. w \in [S -> Int] /\ \A x \in S : w[x] = v[x]
  OBVIOUS
<1> HIDE DEF w
<1>2. PICK g : Summing(g, w, S)
  BY <1>1, SumExists
<1> DEFINE Step(T) == IF T = {} THEN 0 ELSE v[Some(T)] + g[T \ {Some(T)}]
<1>3. \A T \in SUBSET S : g[T] = Step(T)
  BY <1>1, <1>2 DEF Summing, Some
<1>4. g = [T \in SUBSET S |-> Step(T)]
  <2> HIDE DEF Step
  <2>1. g = [T \in SUBSET S |-> g[T]]
    BY <1>2 DEF Summing
  <2> QED BY <1>3, <2>1
<1> QED BY <1>4 DEF Fixed

\* The sum as those folds choose it.
Folded(v, S) == CHOOSE g : Fixed(g, v, S)

\* The fold over a finite set is its sum.
LEMMA FoldedSums ==
  ASSUME NEW S, IsFiniteSet(S), NEW v, \A x \in S : v[x] \in Int
  PROVE  Summing(Folded(v, S), v, S)
<1>1. \E g : Fixed(g, v, S)
  BY FixedExists
<1>2. Fixed(Folded(v, S), v, S)
  BY <1>1 DEF Folded
<1> QED BY <1>2, FixedSums
-----------------------------------------------------------------------------
(* Listings of finite sets in an order *)

Orders(R, S) ==
  /\ \A x \in S : <<x, x>> \notin R
  /\ \A x, y \in S : x # y => <<x, y>> \in R \/ <<y, x>> \in R
  /\ \A x, y, z \in S : <<x, y>> \in R /\ <<y, z>> \in R => <<x, z>> \in R

\* The elements of T in this order.
Listing(s, R, T) ==
  /\ s \in [1..Cardinality(T) -> T]
  /\ \A i, k \in 1..Cardinality(T) : i < k => <<s[i], s[k]>> \in R

\* A set that is not empty has a last element.
LEMMA LastExists ==
  ASSUME NEW S, IsFiniteSet(S), NEW R, Orders(R, S)
  PROVE  \A T \in SUBSET S : T # {} => \E m \in T : \A x \in T \ {m} : <<x, m>> \in R
<1> DEFINE P == {T \in SUBSET S : T # {} => \E m \in T : \A x \in T \ {m} : <<x, m>> \in R}
<1>1. ASSUME NEW T \in SUBSET S, \A x \in T : T \ {x} \in P, NEW y \in T
      PROVE  \E m \in T : \A x \in T \ {m} : <<x, m>> \in R
  <2>1. CASE T \ {y} = {}
    BY <2>1
  <2>2. CASE T \ {y} # {}
    <3>1. PICK m \in T \ {y} : \A x \in (T \ {y}) \ {m} : <<x, m>> \in R
      BY <1>1, <2>2
    <3>2. CASE <<y, m>> \in R
      BY <3>1, <3>2
    <3>3. CASE <<m, y>> \in R
      BY <3>1, <3>3 DEF Orders
    <3> QED BY <3>1, <3>2, <3>3 DEF Orders
  <2> QED BY <2>1, <2>2
<1>2. \A T \in SUBSET S : (\A x \in T : T \ {x} \in P) => T \in P
  BY <1>1
<1> HIDE DEF P
<1>3. SUBSET S \subseteq P
  BY <1>2, SubsetInduction
<1> QED BY <1>3 DEF P

\* A finite set that is ordered can be listed in its order, and so can each subset.
LEMMA ListingExists ==
  ASSUME NEW S, IsFiniteSet(S), NEW R, Orders(R, S)
  PROVE  \A T \in SUBSET S : \E s : Listing(s, R, T)
<1> DEFINE P == {T \in SUBSET S : \E s : Listing(s, R, T)}
<1>1. \A T \in SUBSET S : IsFiniteSet(T) /\ Cardinality(T) \in Nat
  BY FS_Subset, FS_CardinalityType
<1>2. ASSUME NEW T \in SUBSET S, \A x \in T : T \ {x} \in P
      PROVE  \E s : Listing(s, R, T)
  <2>1. CASE T = {}
    <3>1. Cardinality(T) = 0
      BY <2>1, FS_EmptySet
    <3>2. PICK e : e = [i \in 1..0 |-> 0]
      OBVIOUS
    <3>3. 1..Cardinality(T) = {} /\ 1..0 = {}
      BY <3>1
    <3>4. e \in [1..Cardinality(T) -> T]
      BY <3>2, <3>3
    <3>5. Listing(e, R, T)
      BY <3>3, <3>4 DEF Listing
    <3> QED BY <3>5
  <2>2. CASE T # {}
    <3>1. PICK m \in T : \A x \in T \ {m} : <<x, m>> \in R
      BY <2>2, LastExists
    <3>2. PICK r : Listing(r, R, T \ {m})
      BY <1>2
    <3>3. PICK n \in Nat : n = Cardinality(T)
      BY <1>1
    <3>4. Cardinality(T \ {m}) = n - 1 /\ n >= 1
      BY <1>1, <3>3, FS_RemoveElement
    <3> DEFINE s == [i \in 1..n |-> IF i = n THEN m ELSE r[i]]
    <3>5. \A i \in 1..(n - 1) : r[i] \in T \ {m}
      BY <3>2, <3>4 DEF Listing
    <3>6. s \in [1..n -> T]
      BY <3>5
    <3>7. ASSUME NEW i \in 1..n, NEW k \in 1..n, i < k PROVE <<s[i], s[k]>> \in R
      <4>1. i \in 1..(n - 1) /\ s[i] = r[i]
        BY <3>7
      <4>2. CASE k = n
        BY <3>1, <3>5, <4>1, <4>2
      <4>3. CASE k # n
        <5>1. k \in 1..(n - 1) /\ s[k] = r[k]
          BY <4>3
        <5>2. \A x, y \in 1..(n - 1) : x < y => <<r[x], r[y]>> \in R
          BY <3>2, <3>4 DEF Listing
        <5> QED BY <3>7, <4>1, <5>1, <5>2
      <4> QED BY <4>2, <4>3
    <3> HIDE DEF s
    <3> QED BY <3>3, <3>6, <3>7 DEF Listing
  <2> QED BY <2>1, <2>2
<1>3. \A T \in SUBSET S : (\A x \in T : T \ {x} \in P) => T \in P
  BY <1>2
<1> HIDE DEF P
<1>4. SUBSET S \subseteq P
  BY <1>3, SubsetInduction
<1> QED BY <1>4 DEF P

\* A listing names every element, and none twice.
LEMMA ListingIsWhole ==
  ASSUME NEW S, IsFiniteSet(S), NEW R, Orders(R, S), NEW s, Listing(s, R, S)
  PROVE  /\ \A i, k \in 1..Cardinality(S) : s[i] = s[k] => i = k
         /\ \A x \in S : \E i \in 1..Cardinality(S) : s[i] = x
<1> DEFINE D == 1..Cardinality(S)
<1>1. Cardinality(S) \in Nat /\ IsFiniteSet(D) /\ Cardinality(D) = Cardinality(S)
  BY FS_CardinalityType, FS_Interval
<1>2. \A i, k \in D : s[i] = s[k] => i = k
  <2> SUFFICES ASSUME NEW i \in D, NEW k \in D, i < k PROVE s[i] # s[k]
    BY <1>1
  <2> QED BY DEF Orders, Listing
<1>3. s \in Injection(D, S)
  BY <1>2 DEF Injection, IsInjective, Listing
<1> HIDE DEF D
<1>4. s \in Surjection(D, S)
  BY <1>1, <1>3, FS_Injection
<1> QED BY <1>2, <1>4 DEF Surjection, D
=============================================================================
