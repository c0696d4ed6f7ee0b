---------------------------- MODULE CiJobsProofs ----------------------------
(***************************************************************************)
(* For any jobs, findings and files: the comment of a pull request shows   *)
(* the job that wrote last, unless two requests met; an exit code tells    *)
(* what is new; a fix order is what it says; and the history has what was  *)
(* appended to it.                                                         *)
(***************************************************************************)
EXTENDS CiJobs, SetInduction, SequenceTheorems, TLAPS
-----------------------------------------------------------------------------
(* What the score of a module is, and what the order of its fixes promises *)

Cats == ToSet(Categories)

\* The categories scored are finitely many.
LEMMA CategoriesFinite ==
  /\ IsFiniteSet(Cats) /\ IsFiniteSet(Scope) /\ Scope \subseteq Cats
  /\ Cardinality(Scope) \in Nat /\ (Cardinality(Scope) = 0 <=> Scope = {})
<1>1. Cats = {Categories[i] : i \in 1..Len(Categories)} /\ Len(Categories) \in Nat
  BY ScoringAssumption DEF Cats, ToSet
<1>2. IsFiniteSet(1..Len(Categories))
  BY <1>1, FS_Interval
<1>3. IsFiniteSet(Cats)
  <2>1. Categories \in Surjection(1..Len(Categories), Cats)
    BY <1>1, ScoringAssumption DEF Surjection
  <2> QED BY <1>2, <2>1, FS_Surjection
<1>4. IsFiniteSet(Scope) /\ Scope \subseteq Cats
  BY <1>3, ScoringAssumption, FS_Subset DEF Cats
<1> QED BY <1>3, <1>4, FS_CardinalityType, FS_EmptySet

\* A set of numbers that is finite has a least one.
LEMMA LeastOfFinite ==
  ASSUME NEW S \in SUBSET Int, IsFiniteSet(S), S # {}
  PROVE  Min(S) \in S /\ \A x \in S : Min(S) <= x
<1> DEFINE P == {T \in SUBSET S : T # {} => \E m \in T : \A x \in T : m <= x}
<1>1. \A T \in SUBSET S : (\A x \in T : T \ {x} \in P) => T \in P
  <2> SUFFICES ASSUME NEW T \in SUBSET S, \A x \in T : T \ {x} \in P, NEW y \in T
               PROVE  \E m \in T : \A x \in T : m <= x
    OBVIOUS
  <2>1. CASE T \ {y} = {}
    BY <2>1
  <2>2. CASE T \ {y} # {}
    <3>1. PICK m \in T \ {y} : \A x \in T \ {y} : m <= x
      BY <2>2
    <3>2. CASE y <= m
      BY <3>1, <3>2
    <3>3. CASE m <= y
      BY <3>1, <3>3
    <3> QED BY <3>1, <3>2, <3>3
  <2> QED BY <2>1, <2>2
<1> HIDE DEF P
<1>2. SUBSET S \subseteq P
  <2>1. \A Q : (\A T \in SUBSET S : (\A x \in T : T \ {x} \in Q) => T \in Q) => SUBSET S \subseteq Q
    BY SubsetInduction
  <2> QED BY <1>1, <2>1
<1>3. \E m \in S : \A x \in S : m <= x
  BY <1>2 DEF P
<1> QED BY <1>3 DEF Min
-----------------------------------------------------------------------------
(* The overall score *)

\* The sum of the scores is an integer, and the fold computes it.
LEMMA SumOverScope ==
  ASSUME NEW scores, \A c \in Scope : scores[c] \in Int
  PROVE  /\ Summing(Folded(scores, Scope), scores, Scope)
         /\ SumOver(scores) = Folded(scores, Scope)[Scope] /\ SumOver(scores) \in Int
<1>1. Summing(Folded(scores, Scope), scores, Scope)
  BY CategoriesFinite, FoldedSums
<1>2. SumOver(scores) = Folded(scores, Scope)[Scope]
  BY DEF SumOver, MapThenSumSet, MapThenFoldSet, Folded, Fixed, Some
<1>3. Folded(scores, Scope)[Scope] \in Int
  BY <1>1 DEF Summing
<1> QED BY <1>1, <1>2, <1>3

\* The least score is one of the scores, and at most each.
LEMMA LeastOfScope ==
  ASSUME NEW scores, \A c \in Scope : scores[c] \in Int, Scope # {}
  PROVE  /\ LeastOf(scores) \in Int /\ \A c \in Scope : LeastOf(scores) <= scores[c]
         /\ \E c \in Scope : LeastOf(scores) = scores[c]
<1> DEFINE S == {scores[c] : c \in Scope}
<1>1. IsFiniteSet(S)
  <2>1. [c \in Scope |-> scores[c]] \in Surjection(Scope, S)
    BY DEF Surjection
  <2> QED BY <2>1, CategoriesFinite, FS_Surjection
<1>2. S \in SUBSET Int /\ S # {}
  OBVIOUS
<1>3. Min(S) \in S /\ \A x \in S : Min(S) <= x
  <2> HIDE DEF S
  <2> QED BY <1>1, <1>2, LeastOfFinite
<1> QED BY <1>3 DEF LeastOf

\* Numbers that are one apart at most have sums that are their number apart at most.
LEMMA SumsNear ==
  ASSUME NEW S, IsFiniteSet(S), NEW v, NEW w, NEW g, NEW h, Summing(g, v, S), Summing(h, w, S),
         \A x \in S : v[x] \in Int /\ w[x] \in Int /\ v[x] <= w[x] + 1
  PROVE  \A T \in SUBSET S : g[T] <= h[T] + Cardinality(T)
<1> DEFINE P == {T \in SUBSET S : g[T] <= h[T] + Cardinality(T)}
<1>1. \A T \in SUBSET S : (\A x \in T : T \ {x} \in P) => T \in P
  <2> SUFFICES ASSUME NEW T \in SUBSET S, \A x \in T : T \ {x} \in P PROVE g[T] <= h[T] + Cardinality(T)
    OBVIOUS
  <2>1. CASE T = {}
    <3>1. g[{}] = 0 /\ h[{}] = 0 /\ Cardinality({}) = 0
      BY FS_EmptySet DEF Summing
    <3> QED BY <2>1, <3>1
  <2>2. CASE T # {}
    <3> DEFINE x == Some(T)
               U == T \ {x}
               n == Cardinality(T)
               m == Cardinality(U)
    <3>1. x \in T /\ x \in S /\ IsFiniteSet(T) /\ U \in SUBSET S
      BY <2>2, FS_Subset DEF Some
    <3>2. m = n - 1 /\ n \in Nat
      BY <3>1, FS_RemoveElement, FS_CardinalityType
    <3>3. g[T] = v[x] + g[U] /\ h[T] = w[x] + h[U] /\ g[U] \in Int /\ h[U] \in Int
      BY <2>2, <3>1 DEF Summing
    <3>4. g[U] <= h[U] + m
      BY <3>1
    <3>5. v[x] \in Int /\ w[x] \in Int /\ v[x] <= w[x] + 1
      BY <3>1
    <3> HIDE DEF x, U, n, m
    <3> QED BY <3>2, <3>3, <3>4, <3>5 DEF n
  <2> QED BY <2>1, <2>2
<1> HIDE DEF P
<1>2. SUBSET S \subseteq P
  <2>1. \A Q : (\A T \in SUBSET S : (\A x \in T : T \ {x} \in Q) => T \in Q) => SUBSET S \subseteq Q
    BY SubsetInduction
  <2> QED BY <1>1, <2>1
<1> QED BY <1>2 DEF P

\* Rounding keeps the order of two numbers, whatever it does to ties, and what is ten apart comes
\* out eleven apart at most.
LEMMA RoundedOrdered ==
  ASSUME NEW a \in Int, NEW b \in Int, NEW n \in Nat \ {0}, NEW x \in BOOLEAN, NEW y \in BOOLEAN
  PROVE  /\ Rounded(a, n, x) \in Int
         /\ a < b \/ (a = b /\ x = y) => Rounded(a, n, x) <= Rounded(b, n, y)
         /\ a <= b + 10 * n => Rounded(a, n, x) <= Rounded(b, n, y) + 11
<1> DEFINE t(z, u) == IF u THEN 2 * z + n - 1 ELSE 2 * z + n
           d == 2 * n
<1>1. d \in Nat \ {0} /\ t(a, x) \in Int /\ t(b, y) \in Int
  OBVIOUS
<1>2. Rounded(a, n, x) = t(a, x) \div d /\ Rounded(b, n, y) = t(b, y) \div d
  BY DEF Rounded, Cut
<1>3. a < b \/ (a = b /\ x = y) => t(a, x) <= t(b, y)
  OBVIOUS
<1>4. a <= b + 10 * n => t(a, x) <= t(b, y) + 11 * d
  <2> SUFFICES ASSUME a <= b + 10 * n PROVE t(a, x) <= t(b, y) + 11 * d
    OBVIOUS
  <2>1. 10 * n \in Int /\ 11 * d = 22 * n /\ 2 * a <= 2 * b + 20 * n
    OBVIOUS
  <2> QED BY <2>1
<1> HIDE DEF t, d
<1>5. \A u, v \in Int : u <= v => u \div d \in Int /\ u \div d <= v \div d
  BY <1>1
<1>6. \A u \in Int : (u + 11 * d) \in Int /\ (u + 11 * d) \div d = u \div d + 11
  BY <1>1
<1>7. t(a, x) <= t(b, y) + 11 * d => t(a, x) \div d <= t(b, y) \div d + 11
  BY <1>1, <1>5, <1>6
<1> QED BY <1>1, <1>2, <1>3, <1>4, <1>5, <1>7

\* Better categories make a better score; categories that are one point apart at most make scores
\* that are eleven tenths apart at most.
LEMMA BlendOrdered ==
  ASSUME NEW low, NEW high, \A c \in Scope : low[c] \in Int /\ high[c] \in Int
  PROVE  /\ BlendOverall(low) \in Int
         /\ (\A c \in Scope : low[c] <= high[c]) => BlendOverall(low) <= BlendOverall(high)
         /\ (\A c \in Scope : low[c] <= high[c] + 1) => BlendOverall(low) <= BlendOverall(high) + 11
<1> DEFINE n == Cardinality(Scope)
<1>1. CASE n = 0
  BY <1>1 DEF BlendOverall
<1>2. CASE n # 0
  <2>1. n \in Nat \ {0} /\ Scope # {}
    BY <1>2, CategoriesFinite
  <2> DEFINE l == LeastOf(low)
             h == LeastOf(high)
             p == SumOver(low)
             q == SumOver(high)
             x == <<l, p>> \in Low
             y == <<h, q>> \in Low
             a == 4 * l * n + 6 * p
             b == 4 * h * n + 6 * q
  <2>2. p \in Int /\ q \in Int /\ l \in Int /\ h \in Int
    BY <2>1, LeastOfScope, SumOverScope
  <2>3. \A k \in {0, 1} : (\A c \in Scope : low[c] <= high[c] + k) => l <= h + k
    <3> SUFFICES ASSUME NEW k \in {0, 1}, \A c \in Scope : low[c] <= high[c] + k PROVE l <= h + k
      OBVIOUS
    <3>1. PICK c \in Scope : LeastOf(high) = high[c]
      BY <2>1, LeastOfScope
    <3>2. LeastOf(low) \in Int /\ LeastOf(low) <= low[c]
      BY <2>1, LeastOfScope
    <3> QED BY <3>1, <3>2
  <2>4. /\ (\A c \in Scope : low[c] <= high[c]) => p <= q
        /\ (\A c \in Scope : low[c] <= high[c] + 1) => p <= q + n
    <3>1. Summing(Folded(low, Scope), low, Scope) /\ Summing(Folded(high, Scope), high, Scope)
      BY SumOverScope
    <3>2. (\A c \in Scope : low[c] <= high[c]) =>
            \A T \in SUBSET Scope : Folded(low, Scope)[T] <= Folded(high, Scope)[T]
      BY <3>1, CategoriesFinite, SumsOrdered
    <3>3. (\A c \in Scope : low[c] <= high[c] + 1) =>
            \A T \in SUBSET Scope : Folded(low, Scope)[T] <= Folded(high, Scope)[T] + Cardinality(T)
      BY <3>1, CategoriesFinite, SumsNear
    <3>4. p = Folded(low, Scope)[Scope] /\ q = Folded(high, Scope)[Scope] /\ Scope \in SUBSET Scope
      BY SumOverScope
    <3> HIDE DEF p, q
    <3> QED BY <3>2, <3>3, <3>4
  <2>5. BlendOverall(low) = Rounded(a, n, x) /\ BlendOverall(high) = Rounded(b, n, y)
    BY <1>2 DEF BlendOverall
  <2>6. x \in BOOLEAN /\ y \in BOOLEAN /\ (l = h /\ p = q => x = y)
    OBVIOUS
  <2>7. \A u \in Int : u * n \in Int /\ 4 * u * n = 4 * (u * n) /\ (u + 1) * n = u * n + n
    BY <2>1
  <2>8. \A u, v \in Int : (u < v => u * n < v * n) /\ (u <= v => u * n <= v * n)
    BY <2>1
  <2> HIDE DEF l, h, p, q, n
  <2>9. a \in Int /\ b \in Int
    BY <2>2, <2>7
  <2>10. ASSUME l <= h, p <= q PROVE a < b \/ (l = h /\ p = q /\ a = b)
    <3>1. CASE l = h
      BY <2>2, <2>7, <2>10, <3>1
    <3>2. CASE l < h
      <4>1. l * n < h * n
        BY <2>2, <2>8, <3>2
      <4> QED BY <2>2, <2>7, <2>10, <4>1
    <3> QED BY <2>2, <2>10, <3>1, <3>2
  <2>11. ASSUME l <= h + 1, p <= q + n PROVE a <= b + 10 * n
    <3>1. l * n <= h * n + n
      <4>1. h + 1 \in Int /\ l * n <= (h + 1) * n
        BY <2>2, <2>8, <2>11
      <4> QED BY <2>2, <2>7, <4>1
    <3> QED BY <2>1, <2>2, <2>7, <2>11, <3>1
  <2> HIDE DEF a, b, x, y
  <2>12. /\ Rounded(a, n, x) \in Int
         /\ a < b \/ (a = b /\ x = y) => Rounded(a, n, x) <= Rounded(b, n, y)
         /\ a <= b + 10 * n => Rounded(a, n, x) <= Rounded(b, n, y) + 11
    BY <2>1, <2>6, <2>9, RoundedOrdered
  <2>13. (\A c \in Scope : low[c] <= high[c]) => l <= h /\ p <= q
    <3>1. (\A c \in Scope : low[c] <= high[c]) => \A c \in Scope : low[c] <= high[c] + 0
      OBVIOUS
    <3> QED BY <2>2, <2>3, <2>4, <3>1
  <2>14. (\A c \in Scope : low[c] <= high[c] + 1) => l <= h + 1 /\ p <= q + n
    BY <2>3, <2>4
  <2> QED BY <2>5, <2>6, <2>10, <2>11, <2>12, <2>13, <2>14
<1> QED BY <1>1, <1>2

\* Without a finding the score is full.
LEMMA FullScore ==
  ASSUME NEW scores, \A c \in Scope : scores[c] = 100
  PROVE  BlendOverall(scores) = 1000
<1> DEFINE n == Cardinality(Scope)
<1>1. CASE n = 0
  BY <1>1 DEF BlendOverall
<1>2. CASE n # 0
  <2>1. n \in Nat \ {0} /\ Scope # {}
    BY <1>2, CategoriesFinite
  <2>2. LeastOf(scores) = 100
    BY <2>1, LeastOfScope
  <2>3. SumOver(scores) = 100 * n
    <3>1. Summing(Folded(scores, Scope), scores, Scope) /\ SumOver(scores) = Folded(scores, Scope)[Scope]
      BY SumOverScope
    <3>2. \A T \in SUBSET Scope : Folded(scores, Scope)[T] = 100 * Cardinality(T)
      <4>1. PICK g : g = Folded(scores, Scope)
        OBVIOUS
      <4>2. IsFiniteSet(Scope) /\ Summing(g, scores, Scope) /\ 100 \in Int
        BY <3>1, <4>1, CategoriesFinite
      <4>3. \A T \in SUBSET Scope : g[T] = 100 * Cardinality(T)
        BY <4>2, SumConstant
      <4> QED BY <4>1, <4>3
    <3> QED BY <3>1, <3>2
  <2> DEFINE tied == <<LeastOf(scores), SumOver(scores)>> \in Low
  <2>4. BlendOverall(scores) = Rounded(4 * 100 * n + 6 * (100 * n), n, tied) /\ tied \in BOOLEAN
    <3>1. BlendOverall(scores) = Rounded(4 * LeastOf(scores) * n + 6 * SumOver(scores), n, tied)
      BY <1>2 DEF BlendOverall
    <3> HIDE DEF n, tied
    <3>2. BlendOverall(scores) = Rounded(4 * 100 * n + 6 * (100 * n), n, tied)
      BY <2>2, <2>3, <3>1, Zenon
    <3> QED BY <3>2 DEF tied
  <2>5. \A m \in Nat \ {0} :
          /\ (2 * (4 * 100 * m + 6 * (100 * m)) + m) \div (2 * m) = 1000
          /\ (2 * (4 * 100 * m + 6 * (100 * m)) + m - 1) \div (2 * m) = 1000
    <3>1. \A m \in Nat \ {0} : 2 * (4 * 100 * m + 6 * (100 * m)) + m = 2001 * m
      OBVIOUS
    <3>2. \A d \in Nat \ {0} : \A x \in Int : 1000 * d <= x /\ x < 1001 * d => x \div d = 1000
      OBVIOUS
    <3>3. \A m \in Nat \ {0} : LET d == 2 * m
                               IN /\ d \in Nat \ {0} /\ 1000 * d <= 2001 * m - 1 /\ 2001 * m < 1001 * d
                                  /\ 2001 * m \in Int /\ 2001 * m - 1 \in Int /\ 1000 * d <= 2001 * m
                                  /\ 2001 * m - 1 < 1001 * d
      OBVIOUS
    <3>4. \A m \in Nat \ {0} : (2001 * m) \div (2 * m) = 1000 /\ (2001 * m - 1) \div (2 * m) = 1000
      BY <3>2, <3>3
    <3> QED BY <3>1, <3>4
  <2> HIDE DEF n, tied
  <2> QED BY <2>1, <2>4, <2>5 DEF Rounded, Cut
<1> QED BY <1>1, <1>2
-----------------------------------------------------------------------------
(* What the findings cost *)


\* Findings that have a score to lose.
Scorable(set) == IsFiniteSet(set) /\ \A f \in set : f.category \in Cats /\ f.tier \in ToSet(Tiers)

PointSum(set) == MapThenSumSet(Points, set)

\* The points of a finding are a natural number.
LEMMA PointsType ==
  ASSUME NEW set, Scorable(set)
  PROVE  \A f \in set : Points(f) \in Nat
<1> SUFFICES ASSUME NEW f \in set PROVE Points(f) \in Nat
  OBVIOUS
<1>1. ToSet(Tiers) = {"P0", "P1", "P2", "P3"}
  BY DEF ToSet, Tiers
<1>2. TierPoints[f.tier] \in Nat
  BY <1>1 DEF TierPoints, Scorable
<1>3. Weight[f.category] \in Nat
  BY ScoringAssumption DEF Scorable, Cats
<1>4. \A x, y \in Nat : x * y \in Nat
  OBVIOUS
<1> QED BY <1>2, <1>3, <1>4 DEF Points

\* The sum over some findings, by one function for their subsets.
LEMMA PointSumIs ==
  ASSUME NEW set, Scorable(set)
  PROVE  \E g : Summing(g, [f \in set |-> Points(f)], set) /\ PointSum(set) = g[set]
<1> DEFINE v == [f \in set |-> Points(f)]
           Step(g, T) == IF T = {} THEN 0 ELSE v[Some(T)] + g[T \ {Some(T)}]
           Direct(g, T) == IF T = {} THEN 0 ELSE Points(Some(T)) + g[T \ {Some(T)}]
           Count == CHOOSE g : g = [T \in SUBSET set |-> Direct(g, T)]
<1>1. IsFiniteSet(set) /\ \A f \in set : v[f] \in Int
  BY PointsType DEF Scorable
<1>2. \A g : \A T \in SUBSET set : Step(g, T) = Direct(g, T)
  BY DEF Some
<1>3. PICK h : Fixed(h, v, set)
  <2> HIDE DEF v
  <2> QED BY <1>1, FixedExists
<1>4. h = [T \in SUBSET set |-> Direct(h, T)]
  <2>1. h = [T \in SUBSET set |-> Step(h, T)]
    BY <1>3 DEF Fixed
  <2> HIDE DEF Step, Direct
  <2> QED BY <1>2, <2>1
<1>5. Count = [T \in SUBSET set |-> Direct(Count, T)]
  <2> HIDE DEF Direct
  <2> QED BY <1>4
<1>6. PointSum(set) = Count[set]
  BY DEF PointSum, MapThenSumSet, MapThenFoldSet, Some
<1> HIDE DEF Count
<1>7. Fixed(Count, v, set)
  <2>1. Count = [T \in SUBSET set |-> Step(Count, T)]
    <3> HIDE DEF Step, Direct
    <3> QED BY <1>2, <1>5
  <2> QED BY <2>1 DEF Fixed
<1>8. Summing(Count, v, set)
  <2> HIDE DEF v
  <2> QED BY <1>1, <1>7, FixedSums
<1> QED BY <1>6, <1>8

\* The same function serves every subset.
LEMMA PointSumsAgree ==
  ASSUME NEW set, Scorable(set), NEW g, Summing(g, [f \in set |-> Points(f)], set), NEW T \in SUBSET set
  PROVE  PointSum(T) = g[T] /\ Scorable(T)
<1>1. Scorable(T)
  BY FS_Subset DEF Scorable
<1>2. PICK h : Summing(h, [f \in T |-> Points(f)], T) /\ PointSum(T) = h[T]
  BY <1>1, PointSumIs
<1>3. \A U \in SUBSET T : h[U] = g[U]
  <2> DEFINE v == [f \in T |-> Points(f)]
             w == [f \in set |-> Points(f)]
  <2>1. IsFiniteSet(T) /\ T \subseteq set /\ \A f \in T : v[f] = w[f]
    BY <1>1 DEF Scorable
  <2>2. Summing(h, v, T) /\ Summing(g, w, set)
    BY <1>2
  <2> HIDE DEF v, w
  <2> QED BY <2>1, <2>2, SumsAgree
<1> QED BY <1>1, <1>2, <1>3

\* One finding less costs its points less.
LEMMA PointSumRemoves ==
  ASSUME NEW set, Scorable(set)
  PROVE  /\ PointSum(set) \in Int
         /\ set = {} => PointSum(set) = 0
         /\ \A f \in set : PointSum(set) = Points(f) + PointSum(set \ {f})
<1> DEFINE v == [f \in set |-> Points(f)]
<1>1. PICK g : Summing(g, v, set) /\ PointSum(set) = g[set]
  BY PointSumIs
<1>2. PointSum(set) \in Int /\ (set = {} => PointSum(set) = 0)
  BY <1>1 DEF Summing
<1>3. ASSUME NEW f \in set PROVE PointSum(set) = Points(f) + PointSum(set \ {f})
  <2>1. v \in [set -> Int] /\ v[f] = Points(f)
    BY PointsType
  <2>2. PointSum(set \ {f}) = g[set \ {f}]
    BY <1>1, PointSumsAgree
  <2>3. g[set] = v[f] + g[set \ {f}]
    <3> HIDE DEF v
    <3> QED BY <1>1, <2>1, SumRemoves DEF Scorable
  <2> QED BY <1>1, <2>1, <2>2, <2>3
<1> QED BY <1>2, <1>3

\* More findings cost no less.
LEMMA PointSumOrdered ==
  ASSUME NEW set, Scorable(set), NEW T \in SUBSET set
  PROVE  PointSum(T) \in Nat /\ PointSum(T) <= PointSum(set)
<1> DEFINE P == {U \in SUBSET set : PointSum(U) \in Nat /\ \A V \in SUBSET U : PointSum(V) <= PointSum(U)}
<1>0. \A U \in SUBSET set : Scorable(U)
  BY FS_Subset DEF Scorable
<1>1. \A U \in SUBSET set : (\A x \in U : U \ {x} \in P) => U \in P
  <2> SUFFICES ASSUME NEW U \in SUBSET set, \A x \in U : U \ {x} \in P
               PROVE  PointSum(U) \in Nat /\ \A V \in SUBSET U : PointSum(V) <= PointSum(U)
    OBVIOUS
  <2>1. PointSum(U) \in Int
    BY <1>0, PointSumRemoves
  <2>2. CASE U = {}
    <3>1. PointSum(U) = 0
      BY <1>0, <2>2, PointSumRemoves
    <3> QED BY <2>2, <3>1
  <2>3. ASSUME NEW x \in U
        PROVE  PointSum(U) \in Nat /\ PointSum(U \ {x}) <= PointSum(U)
    <3>1. PointSum(U) = Points(x) + PointSum(U \ {x}) /\ Points(x) \in Nat
      BY <1>0, PointSumRemoves, PointsType
    <3>2. PointSum(U \ {x}) \in Nat
      OBVIOUS
    <3> QED BY <3>1, <3>2
  <2>4. ASSUME NEW V \in SUBSET U, V # U PROVE PointSum(V) <= PointSum(U)
    <3>1. PICK x \in U : x \notin V
      BY <2>4
    <3>2. V \in SUBSET (U \ {x}) /\ U \ {x} \in P
      BY <3>1
    <3>3. PointSum(V) <= PointSum(U \ {x}) /\ PointSum(U \ {x}) \in Nat
      BY <3>2
    <3>4. PointSum(V) \in Int
      BY <1>0, PointSumRemoves
    <3> HIDE DEF P
    <3> QED BY <2>1, <2>3, <3>1, <3>3, <3>4
  <2>5. PointSum(U) \in Nat
    BY <2>2, <2>3
  <2> HIDE DEF P
  <2> QED BY <2>4, <2>5
<1> HIDE DEF P
<1>2. SUBSET set \subseteq P
  <2>1. \A Q : (\A U \in SUBSET set : (\A x \in U : U \ {x} \in Q) => U \in Q) => SUBSET set \subseteq Q
    BY SubsetInduction DEF Scorable
  <2> QED BY <1>1, <2>1
<1> QED BY <1>2 DEF P

\* The impact of some findings, of one finding less, and of fewer findings.
LEMMA ImpactOf ==
  ASSUME NEW set, Scorable(set)
  PROVE  /\ Impact(set) \in [Cats -> Nat]
         /\ set = {} => \A c \in Cats : Impact(set)[c] = 0
         /\ \A f \in set : Impact(set \ {f}) = [Impact(set) EXCEPT ![f.category] = @ - Points(f)]
         /\ \A T \in SUBSET set : \A c \in Cats : Impact(T)[c] <= Impact(set)[c]
<1> DEFINE In(T, c) == {f \in T : f.category = c}
<1>1. \A T : Impact(T) = [c \in Cats |-> PointSum(In(T, c))]
  BY DEF Impact, PointSum, Cats
<1>2. \A T \in SUBSET set : \A c \in Cats : Scorable(In(T, c))
  BY FS_Subset DEF Scorable
<1>3. \A T \in SUBSET set : \A c \in Cats :
        PointSum(In(T, c)) \in Nat /\ PointSum(In(T, c)) <= PointSum(In(set, c))
  <2> SUFFICES ASSUME NEW T \in SUBSET set, NEW c \in Cats
               PROVE  PointSum(In(T, c)) \in Nat /\ PointSum(In(T, c)) <= PointSum(In(set, c))
    OBVIOUS
  <2>1. In(T, c) \in SUBSET In(set, c) /\ Scorable(In(set, c))
    BY <1>2
  <2> HIDE DEF In
  <2> QED BY <2>1, PointSumOrdered
<1>4. ASSUME set = {}, NEW c \in Cats PROVE PointSum(In(set, c)) = 0
  <2>1. In(set, c) = {} /\ Scorable(In(set, c))
    BY <1>2, <1>4
  <2> HIDE DEF In
  <2> QED BY <2>1, PointSumRemoves
<1>5. ASSUME NEW f \in set
      PROVE  Impact(set \ {f}) = [Impact(set) EXCEPT ![f.category] = @ - Points(f)]
  <2>1. f.category \in Cats
    BY DEF Scorable
  <2>2. ASSUME NEW c \in Cats, c # f.category PROVE PointSum(In(set \ {f}, c)) = PointSum(In(set, c))
    <3>1. In(set \ {f}, c) = In(set, c)
      BY <2>2
    <3> QED BY <3>1
  <2>3. PointSum(In(set \ {f}, f.category)) = PointSum(In(set, f.category)) - Points(f)
    <3>1. f \in In(set, f.category) /\ In(set \ {f}, f.category) = In(set, f.category) \ {f}
      OBVIOUS
    <3>2. Scorable(In(set, f.category)) /\ Points(f) \in Nat
      BY <1>2, <2>1, PointsType
    <3>3. PointSum(In(set \ {f}, f.category)) \in Nat
      BY <1>3, <2>1
    <3> HIDE DEF In
    <3>4. PointSum(In(set, f.category)) = Points(f) + PointSum(In(set, f.category) \ {f})
      BY <3>1, <3>2, PointSumRemoves
    <3> QED BY <3>1, <3>2, <3>3, <3>4
  <2> HIDE DEF In
  <2>4. [c \in Cats |-> PointSum(In(set \ {f}, c))]
          = [[c \in Cats |-> PointSum(In(set, c))] EXCEPT ![f.category] = @ - Points(f)]
    BY <2>1, <2>2, <2>3
  <2> QED BY <1>1, <2>4
<1> HIDE DEF In
<1>6. Impact(set) \in [Cats -> Nat]
  BY <1>1, <1>3
<1>7. set = {} => \A c \in Cats : Impact(set)[c] = 0
  BY <1>1, <1>4
<1>8. \A T \in SUBSET set : \A c \in Cats : Impact(T)[c] <= Impact(set)[c]
  BY <1>1, <1>3
<1> QED BY <1>5, <1>6, <1>7, <1>8

\* The score of a category, by its impact and whether its float lies above.
PointsLeft(impact, above) == IF impact >= 1000 THEN 0 ELSE Cut(1000 - impact, 10, above)

\* Less impact leaves no fewer points, and a hair is worth no more than one.
LEMMA PointsLeftOrdered ==
  ASSUME NEW x \in Nat, NEW y \in Nat, NEW p \in BOOLEAN, NEW q \in BOOLEAN
  PROVE  /\ PointsLeft(x, p) \in Int
         /\ y < x \/ (y = x /\ (q => p)) => PointsLeft(x, p) <= PointsLeft(y, q)
         /\ PointsLeft(x, p) <= PointsLeft(x, q) + 1
  BY DEF PointsLeft, Cut

\* The scores of the categories when of some findings others were taken off.
LEMMA ScoresOf ==
  ASSUME NEW from, NEW gone, NEW left, Scorable(left)
  PROVE  /\ Scope \subseteq Cats
         /\ \A c \in Cats : /\ Impact(left)[c] \in Nat
                            /\ CategoryScores(Impact(left), Drifted(from, gone))[c]
                                 = PointsLeft(Impact(left)[c], c \in Drifted(from, gone))
<1>1. Impact(left) \in [Cats -> Nat]
  BY ImpactOf
<1> QED BY <1>1, CategoriesFinite DEF CategoryScores, PointsLeft

OfCategory(set, c) == {f \in set : f.category = c}

\* Which categories have drifted.
LEMMA DriftedIs ==
  ASSUME NEW from, NEW gone, NEW c
  PROVE  c \in Drifted(from, gone) <=>
           /\ c \in Cats /\ Inexact(c) /\ OfCategory(from, c) # {}
           /\ Above(OfCategory(from, c), OfCategory(gone, c))
  BY Zenon DEF Drifted, OfCategory, Cats

\* A category that has drifted has findings, each of which costs something.
LEMMA DriftedCosts ==
  ASSUME NEW from, NEW gone, NEW c \in Drifted(from, gone)
  PROVE  c \in Cats /\ Inexact(c) /\ Weight[c] \in Nat \ {0} /\ {f \in from : f.category = c} # {}
<1>1. c \in Cats /\ Inexact(c) /\ {f \in from : f.category = c} # {}
  BY DEF Drifted, Cats
<1>2. Weight[c] \in Nat
  BY <1>1, ScoringAssumption DEF Cats
<1>3. Weight[c] # 0
  BY <1>1 DEF Inexact
<1> QED BY <1>1, <1>2, <1>3

\* A finding that weighs something costs something.
LEMMA PointsCost ==
  ASSUME NEW set, Scorable(set), NEW f \in set, Weight[f.category] \in Nat \ {0}
  PROVE  Points(f) \in Nat \ {0}
<1>1. ToSet(Tiers) = {"P0", "P1", "P2", "P3"}
  BY DEF ToSet, Tiers
<1>2. TierPoints[f.tier] \in Nat \ {0}
  BY <1>1 DEF TierPoints, Scorable
<1>3. \A x, y \in Nat \ {0} : x * y \in Nat \ {0}
  OBVIOUS
<1> QED BY <1>2, <1>3 DEF Points

\* The score of some findings afresh, and that of what is left when the others were taken off.
Score(set) == Running(set, {}, Impact(set))
After(from, left) == Running(from, from \ left, Impact(left))

\* More findings never raise the score; none at all is a full score.
LEMMA ScoreOrdered ==
  ASSUME NEW set, Scorable(set)
  PROVE  /\ \A T \in SUBSET set : Score(T) \in Int /\ Score(set) <= Score(T)
         /\ set = {} => Score(set) = 1000
<1> DEFINE in(T, c)  == {f \in T : f.category = c}
           off(T, c) == c \in Drifted(T, {})
           all(T)    == CategoryScores(Impact(T), Drifted(T, {}))
<1>1. \A T \in SUBSET set : Scorable(T)
  BY FS_Subset DEF Scorable
<1>2. ASSUME NEW T \in SUBSET set PROVE Score(T) \in Int /\ Score(set) <= Score(T)
  <2>1. \A c \in Cats : Impact(T)[c] \in Nat /\ Impact(set)[c] \in Nat /\ Impact(T)[c] <= Impact(set)[c]
    BY <1>1, ImpactOf
  <2>2. ASSUME NEW c \in Cats, off(T, c)
        PROVE  Impact(T)[c] < Impact(set)[c] \/ off(set, c)
    <3>1. CASE in(T, c) = in(set, c)
      <4>1. in({}, c) = in({}, c) /\ Inexact(c) /\ in(T, c) # {} /\ Above(in(T, c), in({}, c)) /\ c \in ToSet(Categories)
        BY <2>2 DEF Drifted
      <4> QED BY <3>1, <4>1 DEF Drifted
    <3>2. CASE in(T, c) # in(set, c)
      <4>1. PICK f \in set : f.category = c /\ f \notin T
        BY <3>2
      <4>2. Points(f) \in Nat \ {0}
        BY <2>2, <4>1, DriftedCosts, PointsCost
      <4>3. /\ Scorable(set \ {f}) /\ T \in SUBSET (set \ {f})
            /\ Impact(set \ {f}) = [Impact(set) EXCEPT ![f.category] = @ - Points(f)]
        BY <1>1, <4>1, ImpactOf
      <4>4. Impact(T)[c] <= Impact(set \ {f})[c] /\ Impact(set) \in [Cats -> Nat]
        BY <4>3, ImpactOf
      <4>5. Impact(set \ {f})[c] = Impact(set)[c] - Points(f)
        BY <4>1, <4>3, <4>4
      <4> QED BY <2>1, <4>2, <4>4, <4>5
    <3> QED BY <3>1, <3>2
  <2>3. \A c \in Cats : /\ all(set)[c] = PointsLeft(Impact(set)[c], off(set, c))
                        /\ all(T)[c] = PointsLeft(Impact(T)[c], off(T, c))
    BY <1>1, ScoresOf
  <2>4. ASSUME NEW c \in Cats PROVE all(set)[c] \in Int /\ all(T)[c] \in Int /\ all(set)[c] <= all(T)[c]
    <3> DEFINE x == Impact(set)[c]
               y == Impact(T)[c]
               p == off(set, c)
               q == off(T, c)
    <3>1. x \in Nat /\ y \in Nat /\ y <= x /\ p \in BOOLEAN /\ q \in BOOLEAN /\ (q => y < x \/ p)
      BY <2>1, <2>2
    <3>2. all(set)[c] = PointsLeft(x, p) /\ all(T)[c] = PointsLeft(y, q)
      BY <2>3
    <3> HIDE DEF x, y, p, q, all
    <3>3. PointsLeft(x, p) \in Int /\ PointsLeft(y, q) \in Int /\ PointsLeft(x, p) <= PointsLeft(y, q)
      BY <3>1, PointsLeftOrdered
    <3> QED BY <3>2, <3>3
  <2> HIDE DEF all
  <2>5. Scope \subseteq Cats
    BY CategoriesFinite
  <2>6. BlendOverall(all(T)) \in Int /\ BlendOverall(all(set)) <= BlendOverall(all(T))
    BY <2>4, <2>5, BlendOrdered
  <2> QED BY <2>6 DEF Score, Running, all
<1>3. ASSUME set = {} PROVE Score(set) = 1000
  <2>1. Drifted(set, {}) = {}
    BY <1>3 DEF Drifted
  <2>2. ASSUME NEW c \in Scope PROVE all(set)[c] = 100
    <3>1. c \in Cats /\ all(set)[c] = PointsLeft(Impact(set)[c], c \in Drifted(set, {}))
      BY ScoresOf
    <3>2. Impact(set)[c] = 0
      BY <1>3, <3>1, ImpactOf
    <3>3. (c \in Drifted(set, {})) = FALSE
      BY <2>1
    <3> HIDE DEF all
    <3>4. all(set)[c] = PointsLeft(0, FALSE)
      BY <3>1, <3>2, <3>3, Zenon
    <3> QED BY <3>4 DEF PointsLeft, Cut
  <2> HIDE DEF all
  <2>3. \A c \in Scope : all(set)[c] = 100
    BY <2>2
  <2>4. BlendOverall(all(set)) = 1000
    BY <2>3, FullScore
  <2> QED BY <2>4 DEF Score, Running, all
<1> QED BY <1>2, <1>3

\* Findings that no float is beside.
Plain(set) == \A f \in set : f.category \in Scope => ~Inexact(f.category)

\* A fix taken off never costs points; the score that is left is at most eleven tenths from what
\* would be added up afresh, and the same when nothing counted is inexact.
LEMMA AfterFollows ==
  ASSUME NEW from, Scorable(from), NEW left \in SUBSET from
  PROVE  /\ After(from, left) \in Int
         /\ \A f \in left : After(from, left) <= After(from, left \ {f})
         /\ After(from, left) - Score(left) \in -11..11
         /\ Plain(from) => After(from, left) = Score(left)
         /\ After(from, from) = Score(from)
<1> DEFINE all(T, gone, rest) == CategoryScores(Impact(rest), Drifted(T, gone))
<1>0. \A rest \in SUBSET from : Scorable(rest)
  BY FS_Subset DEF Scorable
<1>1. \A T, gone : \A rest \in SUBSET from : \A c \in Scope :
        /\ Impact(rest)[c] \in Nat /\ c \in Cats
        /\ all(T, gone, rest)[c] = PointsLeft(Impact(rest)[c], c \in Drifted(T, gone))
  BY <1>0, ScoresOf
<1>2. \A T, gone : \A rest \in SUBSET from : \A c \in Scope : all(T, gone, rest)[c] \in Int
  <2> SUFFICES ASSUME NEW T, NEW gone, NEW rest \in SUBSET from, NEW c \in Scope PROVE all(T, gone, rest)[c] \in Int
    OBVIOUS
  <2> DEFINE x == Impact(rest)[c]
             p == c \in Drifted(T, gone)
  <2>1. x \in Nat /\ p \in BOOLEAN /\ all(T, gone, rest)[c] = PointsLeft(x, p)
    BY <1>1
  <2> HIDE DEF x, p, all
  <2> QED BY <2>1, PointsLeftOrdered
<1>3. /\ \A rest : After(from, rest) = BlendOverall(all(from, from \ rest, rest))
      /\ \A rest : Score(rest) = BlendOverall(all(rest, {}, rest))
  BY DEF After, Score, Running
<1> HIDE DEF all
<1>4. After(from, left) \in Int /\ Score(left) \in Int
  BY <1>2, <1>3, BlendOrdered
<1>5. ASSUME NEW f \in left PROVE After(from, left) <= After(from, left \ {f})
  <2> DEFINE rest == left \ {f}
             now  == all(from, from \ left, left)
             then == all(from, from \ rest, rest)
  <2>1. rest \in SUBSET from /\ f.category \in Cats /\ f \in from
    BY DEF Scorable
  <2>2. Impact(rest) = [Impact(left) EXCEPT ![f.category] = @ - Points(f)] /\ Impact(left) \in [Cats -> Nat]
    BY <1>0, ImpactOf
  <2>3. ASSUME NEW c \in Scope PROVE now[c] <= then[c]
    <3> DEFINE x == Impact(left)[c]
               y == Impact(rest)[c]
               p == c \in Drifted(from, from \ left)
               q == c \in Drifted(from, from \ rest)
    <3>1. x \in Nat /\ y \in Nat /\ c \in Cats /\ now[c] = PointsLeft(x, p) /\ then[c] = PointsLeft(y, q)
      BY <1>1, <2>1
    <3>2. CASE c # f.category
      <4>1. y = x
        BY <2>2, <3>1, <3>2
      <4>2. {g \in from \ left : g.category = c} = {g \in from \ rest : g.category = c}
        BY <3>2
      <4>3. p <=> q
        <5>1. OfCategory(from \ left, c) = OfCategory(from \ rest, c)
          BY <4>2 DEF OfCategory
        <5>2. /\ p <=> /\ c \in Cats /\ Inexact(c) /\ OfCategory(from, c) # {}
                      /\ Above(OfCategory(from, c), OfCategory(from \ left, c))
              /\ q <=> /\ c \in Cats /\ Inexact(c) /\ OfCategory(from, c) # {}
                      /\ Above(OfCategory(from, c), OfCategory(from \ rest, c))
          BY DriftedIs
        <5> HIDE DEF p, q, rest
        <5> QED BY <5>1, <5>2, Zenon
      <4>4. PointsLeft(x, p) \in Int /\ (p = q)
        <5>1. p \in BOOLEAN /\ q \in BOOLEAN
          OBVIOUS
        <5> HIDE DEF p, q, x
        <5> QED BY <3>1, <4>3, <5>1, PointsLeftOrdered
      <4> HIDE DEF x, y, p, q, now, then
      <4> QED BY <3>1, <4>1, <4>4
    <3>3. CASE c = f.category
      <4>1. y = x - Points(f) /\ Points(f) \in Nat
        BY <1>0, <2>2, <3>1, <3>3, PointsType
      <4>2. q => Points(f) \in Nat \ {0}
        BY <2>1, <3>3, DriftedCosts, PointsCost
      <4>3. y < x \/ (y = x /\ (q => p))
        BY <3>1, <4>1, <4>2
      <4>4. p \in BOOLEAN /\ q \in BOOLEAN
        OBVIOUS
      <4> HIDE DEF x, y, p, q, now, then
      <4> QED BY <3>1, <4>3, <4>4, PointsLeftOrdered
    <3> QED BY <1>2, <2>1, <3>2, <3>3
  <2>4. \A c \in Scope : now[c] \in Int /\ then[c] \in Int
    BY <1>2, <2>1
  <2> HIDE DEF now, then
  <2>5. BlendOverall(now) <= BlendOverall(then)
    BY <2>3, <2>4, BlendOrdered
  <2> QED BY <1>3, <2>5 DEF now, then
<1>6. After(from, left) - Score(left) \in -11..11
  <2> DEFINE now   == all(from, from \ left, left)
             fresh == all(left, {}, left)
  <2>1. ASSUME NEW c \in Scope PROVE now[c] <= fresh[c] + 1 /\ fresh[c] <= now[c] + 1
    <3> DEFINE x == Impact(left)[c]
               p == c \in Drifted(from, from \ left)
               q == c \in Drifted(left, {})
    <3>1. x \in Nat /\ now[c] = PointsLeft(x, p) /\ fresh[c] = PointsLeft(x, q)
      BY <1>1
    <3>2. p \in BOOLEAN /\ q \in BOOLEAN
      OBVIOUS
    <3> HIDE DEF x, p, q, now, fresh
    <3> QED BY <3>1, <3>2, PointsLeftOrdered
  <2>2. \A c \in Scope : now[c] \in Int /\ fresh[c] \in Int
    BY <1>2
  <2> HIDE DEF now, fresh
  <2>3. BlendOverall(now) <= BlendOverall(fresh) + 11 /\ BlendOverall(fresh) <= BlendOverall(now) + 11
    BY <2>1, <2>2, BlendOrdered
  <2>4. After(from, left) = BlendOverall(now) /\ Score(left) = BlendOverall(fresh)
    BY <1>3 DEF now, fresh
  <2> QED BY <1>4, <2>3, <2>4
<1>7. ASSUME Plain(from) PROVE After(from, left) = Score(left)
  <2> DEFINE now   == all(from, from \ left, left)
             fresh == all(left, {}, left)
  <2>1. ASSUME NEW c \in Scope PROVE c \notin Drifted(from, from \ left) /\ c \notin Drifted(left, {})
    <3>1. \A T \in SUBSET from : \A gone : c \notin Drifted(T, gone)
      BY <1>7, DriftedCosts DEF Plain
    <3> QED BY <3>1
  <2>2. ASSUME NEW c \in Scope PROVE now[c] = fresh[c]
    <3>1. /\ now[c] = PointsLeft(Impact(left)[c], c \in Drifted(from, from \ left))
          /\ fresh[c] = PointsLeft(Impact(left)[c], c \in Drifted(left, {}))
      BY <1>1
    <3>2. (c \in Drifted(from, from \ left)) = FALSE /\ (c \in Drifted(left, {})) = FALSE
      BY <2>1
    <3> HIDE DEF now, fresh
    <3> QED BY <3>1, <3>2, Zenon
  <2>3. \A c \in Scope : now[c] \in Int /\ fresh[c] \in Int /\ now[c] <= fresh[c] /\ fresh[c] <= now[c]
    BY <1>2, <2>2
  <2> HIDE DEF now, fresh
  <2>4. BlendOverall(now) <= BlendOverall(fresh) /\ BlendOverall(fresh) <= BlendOverall(now)
    BY <2>3, BlendOrdered
  <2>5. After(from, left) = BlendOverall(now) /\ Score(left) = BlendOverall(fresh)
    BY <1>3 DEF now, fresh
  <2> QED BY <1>4, <2>4, <2>5
<1>8. After(from, from) = Score(from)
  <2>1. from \ from = {}
    OBVIOUS
  <2> QED BY <2>1 DEF After, Score
<1> QED BY <1>4, <1>5, <1>6, <1>7, <1>8

\* The score of a module is that of its findings that count.
LEMMA OverallIs ==
  ASSUME NEW set, IsFiniteSet(set), \A f \in set : f.tier \in ToSet(Tiers)
  PROVE  /\ \A withMedium \in BOOLEAN :
              /\ Scorable({f \in set : Counts(f, withMedium)})
              /\ Overall(set, withMedium) = Score({f \in set : Counts(f, withMedium)})
              /\ Overall(set, withMedium) \in Int
         /\ Overall(set, TRUE) <= Overall(set, FALSE)
         /\ set = {} => Overall(set, FALSE) = 1000
<1> DEFINE Counted(withMedium) == {f \in set : Counts(f, withMedium)}
<1>1. \A withMedium \in BOOLEAN : Scorable(Counted(withMedium))
  BY FS_Subset DEF Scorable, Counts, Cats
<1>2. Counted(FALSE) \in SUBSET Counted(TRUE)
  BY DEF Counts
<1>3. \A withMedium : Overall(set, withMedium) = Score(Counted(withMedium))
  BY DEF Overall, Score
<1>4. Overall(set, TRUE) = Score(Counted(TRUE)) /\ Overall(set, FALSE) = Score(Counted(FALSE))
  BY DEF Overall, Score
<1>5. set = {} => Counted(FALSE) = {}
  OBVIOUS
<1> HIDE DEF Counted
<1>6. Score(Counted(TRUE)) <= Score(Counted(FALSE))
  BY <1>1, <1>2, ScoreOrdered, ZenonT(40)
<1>7. \A withMedium \in BOOLEAN : Score(Counted(withMedium)) \in Int
  BY <1>1, ScoreOrdered
<1>8. set = {} => Score(Counted(FALSE)) = 1000
  BY <1>1, <1>5, ScoreOrdered, ZenonT(40)
<1>9. \A withMedium \in BOOLEAN : /\ Scorable(Counted(withMedium))
                                  /\ Overall(set, withMedium) = Score(Counted(withMedium))
                                  /\ Overall(set, withMedium) \in Int
  BY <1>1, <1>3, <1>7
<1>10. Overall(set, TRUE) <= Overall(set, FALSE) /\ (set = {} => Overall(set, FALSE) = 1000)
  BY <1>6, <1>8, <1>4, ZenonT(40)
<1> QED BY <1>9, <1>10, Zenon DEF Counted

\* A project without findings scores 100.0.
LEMMA CleanScore == Overall({}, FALSE) = 1000
<1> DEFINE none == {}
<1>1. IsFiniteSet(none) /\ \A f \in none : f.tier \in ToSet(Tiers)
  BY FS_EmptySet
<1>2. none = {}
  OBVIOUS
<1> HIDE DEF none
<1>3. /\ \A withMedium \in BOOLEAN :
           /\ Scorable({f \in none : Counts(f, withMedium)})
           /\ Overall(none, withMedium) = Score({f \in none : Counts(f, withMedium)})
           /\ Overall(none, withMedium) \in Int
      /\ Overall(none, TRUE) <= Overall(none, FALSE)
      /\ none = {} => Overall(none, FALSE) = 1000
  BY <1>1, OverallIs, ZenonT(40)
<1> QED BY <1>2, <1>3, Zenon DEF none
-----------------------------------------------------------------------------
(* The order of the fixes *)

Lexicographic(n) == [1..n -> Int]

\* The lexicographic order is transitive, and nothing precedes itself.
LEMMA PrecedesOrders ==
  ASSUME NEW n \in Nat
  PROVE  /\ \A s, t, u \in Lexicographic(n) : Precedes(s, t) /\ Precedes(t, u) => Precedes(s, u)
         /\ \A s \in Lexicographic(n) : ~Precedes(s, s)
<1>1. ASSUME NEW s \in Lexicographic(n), NEW t \in Lexicographic(n), NEW u \in Lexicographic(n),
             Precedes(s, t), Precedes(t, u)
      PROVE  Precedes(s, u)
  <2>0. DOMAIN s = 1..n /\ DOMAIN t = 1..n
    BY DEF Lexicographic
  <2>1. PICK i \in 1..n : s[i] < t[i] /\ \A k \in 1..(i - 1) : s[k] = t[k]
    BY <1>1, <2>0 DEF Precedes
  <2>2. PICK j \in 1..n : t[j] < u[j] /\ \A k \in 1..(j - 1) : t[k] = u[k]
    BY <1>1, <2>0 DEF Precedes
  <2>3. \A k \in 1..n : s[k] \in Int /\ t[k] \in Int /\ u[k] \in Int
    BY DEF Lexicographic
  <2>4. CASE i <= j
    <3>1. s[i] < u[i] /\ \A k \in 1..(i - 1) : s[k] = u[k]
      BY <2>1, <2>2, <2>3, <2>4
    <3> QED BY <2>0, <3>1 DEF Precedes
  <2>5. CASE j < i
    <3>1. s[j] < u[j] /\ \A k \in 1..(j - 1) : s[k] = u[k]
      BY <2>1, <2>2, <2>3, <2>5
    <3> QED BY <2>0, <3>1 DEF Precedes
  <2> QED BY <2>4, <2>5
<1>2. ASSUME NEW s \in Lexicographic(n) PROVE ~Precedes(s, s)
  BY DEF Precedes, Lexicographic
<1> QED BY <1>1, <1>2

\* Something of a finite set has a key that none precedes.
LEMMA FirstExists ==
  ASSUME NEW S, IsFiniteSet(S), NEW n \in Nat, NEW key \in [S -> Lexicographic(n)], S # {}
  PROVE  \E f \in S : \A g \in S \ {f} : ~Precedes(key[g], key[f])
<1> DEFINE P == {T \in SUBSET S : T # {} => \E f \in T : \A g \in T \ {f} : ~Precedes(key[g], key[f])}
<1>1. \A T \in SUBSET S : (\A x \in T : T \ {x} \in P) => T \in P
  <2> SUFFICES ASSUME NEW T \in SUBSET S, \A x \in T : T \ {x} \in P, NEW y \in T
               PROVE  \E f \in T : \A g \in T \ {f} : ~Precedes(key[g], key[f])
    OBVIOUS
  <2>1. CASE T \ {y} = {}
    BY <2>1
  <2>2. CASE T \ {y} # {}
    <3>1. PICK m \in T \ {y} : \A g \in (T \ {y}) \ {m} : ~Precedes(key[g], key[m])
      BY <2>2
    <3>2. CASE ~Precedes(key[y], key[m])
      BY <3>1, <3>2
    <3>3. CASE Precedes(key[y], key[m])
      <4>1. \A g \in T : key[g] \in Lexicographic(n)
        OBVIOUS
      <4>2. ASSUME NEW g \in T \ {y}, Precedes(key[g], key[y]) PROVE FALSE
        <5>1. Precedes(key[g], key[m])
          BY <3>3, <4>1, <4>2, PrecedesOrders
        <5>2. g = m
          BY <3>1, <5>1
        <5> QED BY <4>1, <5>1, <5>2, PrecedesOrders
      <4> QED BY <4>2
    <3> QED BY <3>2, <3>3
  <2> QED BY <2>1, <2>2
<1> HIDE DEF P
<1>2. SUBSET S \subseteq P
  <2>1. \A Q : (\A T \in SUBSET S : (\A x \in T : T \ {x} \in Q) => T \in Q) => SUBSET S \subseteq Q
    BY SubsetInduction
  <2> QED BY <1>1, <2>1
<1> QED BY <1>2 DEF P

\* Findings that can be put in order.
Rankable(set) ==
  /\ Scorable(set)
  /\ \A f \in set : /\ f.file \in ToSet(Names) /\ f.rule \in ToSet(Names) /\ f.line \in Nat
                    /\ f.fixable \/ f.rule \in DOMAIN Effort

\* The sort keys of the fixes are sequences of five integers.
LEMMA NumbersOf ==
  ASSUME NEW set, Rankable(set)
  PROVE  /\ \A f \in set : \A n \in Int : PerEffort(n, f) \in Int
         /\ \A f \in set : Order(f) \in Lexicographic(5)
<1>1. ASSUME NEW f \in set, NEW n \in Int PROVE PerEffort(n, f) \in Int
  <2>1. EffortOf(f) \in 1..3
    BY ScoringAssumption DEF EffortOf, Rankable
  <2>2. 6 \div EffortOf(f) \in Int
    BY <2>1
  <2> DEFINE e == 6 \div EffortOf(f)
  <2>3. \A x, y \in Int : x * y \in Int
    OBVIOUS
  <2> QED BY <2>2, <2>3 DEF PerEffort
<1>2. \A name \in ToSet(Names) : Rank(name) \in Nat
  BY ScoringAssumption DEF Rank, ToSet
<1>3. \A f \in set : TierRank(f) \in Nat
  <2> SUFFICES ASSUME NEW f \in set PROVE TierRank(f) \in Nat
    OBVIOUS
  <2>1. \E i \in 1..4 : Tiers[i] = f.tier
    BY DEF Rankable, Scorable, ToSet, Tiers
  <2> QED BY <2>1 DEF TierRank
<1>4. ASSUME NEW f \in set PROVE Order(f) \in Lexicographic(5)
  <2>1. Points(f) \in Int
    BY PointsType DEF Rankable
  <2>2. /\ PerEffort(Points(f), f) \in Int /\ TierRank(f) \in Int
        /\ Rank(f.file) \in Int /\ f.line \in Int /\ Rank(f.rule) \in Int
    BY <1>1, <1>2, <1>3, <2>1 DEF Rankable
  <2>3. \A a, b, c, d, e \in Int : <<-a, b, c, d, e>> \in [1..5 -> Int]
    OBVIOUS
  <2> QED BY <2>2, <2>3 DEF Order, Lexicographic
<1> QED BY <1>1, <1>4

\* The next fix is one of the findings that are left.
LEMMA NextFixIsLeft ==
  ASSUME NEW left, Rankable(left), left # {}, NEW raw \in [Cats -> Int]
  PROVE  NextFix(left, raw) \in left
<1> DEFINE of(c)   == {f \in left : f.category = c}
           head(c) == First(of(c), Order)
           inScope == {head(c) : c \in {d \in Scope : of(d) # {}}}
           key(f)  == <<-PerEffort(Gain(raw, f), f)>> \o Order(f)
           outside == {i \in DOMAIN Categories : of(Categories[i]) # {}}
<1>1. \A c \in Cats : Rankable(of(c)) /\ of(c) \subseteq left
  BY FS_Subset DEF Rankable, Scorable
<1>2. ASSUME NEW c \in Cats, of(c) # {} PROVE head(c) \in of(c)
  <2> DEFINE S == of(c)
             k == [f \in S |-> Order(f)]
  <2>1. k \in [S -> Lexicographic(5)] /\ IsFiniteSet(S) /\ S # {}
    <3>1. \A f \in S : Order(f) \in Lexicographic(5)
      BY <1>1, NumbersOf
    <3> QED BY <1>1, <1>2, <3>1 DEF Rankable, Scorable
  <2> HIDE DEF S
  <2>2. \E f \in S : \A g \in S \ {f} : ~Precedes(k[g], k[f])
    <3> HIDE DEF k
    <3> QED BY <2>1, FirstExists
  <2>3. \E f \in S : \A g \in S \ {f} : ~Precedes(Order(g), Order(f))
    BY <2>2
  <2> QED BY <2>3 DEF First, S
<1>3. \A f \in left : f.category \in Cats /\ f \in of(f.category)
  BY DEF Rankable, Scorable
<1>4. inScope \subseteq left /\ IsFiniteSet(inScope)
  <2>1. \A c \in Scope : of(c) # {} => head(c) \in left
    BY <1>1, <1>2, CategoriesFinite
  <2>2. inScope \subseteq left
    BY <2>1
  <2> HIDE DEF inScope
  <2> QED BY <2>2, FS_Subset DEF Rankable, Scorable
<1>5. ASSUME inScope # {} PROVE First(inScope, key) \in inScope
  <2> DEFINE S == inScope
             k == [f \in S |-> key(f)]
  <2>1. Scope # {}
    BY <1>5
  <2>2. ASSUME NEW f \in left PROVE key(f) \in Lexicographic(6)
    <3>1. Gain(raw, f) \in Int
      <4>1. \A r \in [Cats -> Int] : VirtualOverall(r) \in Int
        <5> SUFFICES ASSUME NEW r \in [Cats -> Int] PROVE VirtualOverall(r) \in Int
          OBVIOUS
        <5>1. \A c \in Scope : r[c] \in Int
          BY CategoriesFinite
        <5>2. LeastOf(r) \in Int /\ SumOver(r) \in Int /\ Cardinality(Scope) \in Int
          BY <2>1, <5>1, LeastOfScope, SumOverScope, CategoriesFinite
        <5>3. \A x, y, z \in Int : 4 * x * y + 6 * z \in Int
          OBVIOUS
        <5> QED BY <5>2, <5>3 DEF VirtualOverall
      <4>2. [raw EXCEPT ![f.category] = @ + Points(f)] \in [Cats -> Int]
        <5>1. Points(f) \in Int
          BY PointsType DEF Rankable
        <5> QED BY <1>3, <5>1
      <4>3. VirtualOverall(raw) \in Int /\ VirtualOverall([raw EXCEPT ![f.category] = @ + Points(f)]) \in Int
        BY <4>1, <4>2
      <4> QED BY <4>3 DEF Gain
    <3>2. PerEffort(Gain(raw, f), f) \in Int /\ Order(f) \in Lexicographic(5)
      BY <3>1, NumbersOf
    <3>3. \A n \in Int : \A s \in [1..5 -> Int] : <<-n>> \o s \in [1..6 -> Int]
      <4> SUFFICES ASSUME NEW n \in Int, NEW s \in [1..5 -> Int] PROVE <<-n>> \o s \in [1..6 -> Int]
        OBVIOUS
      <4>1. s \in Seq(Int) /\ Len(s) = 5
        <5>1. s \in Seq(Int)
          BY SeqDef
        <5> QED BY <5>1, LenProperties
      <4>2. <<-n>> \in Seq(Int) /\ Len(<<-n>>) = 1
        OBVIOUS
      <4> DEFINE t == <<-n>>
      <4>3. t \o s \in Seq(Int) /\ Len(t \o s) = 6
        <5> DEFINE V == Int
        <5>1. t \in Seq(V) /\ Len(t) = 1 /\ s \in Seq(V) /\ Len(s) = 5
          BY <4>1, <4>2
        <5> HIDE DEF t, V
        <5>2. t \o s \in Seq(V) /\ Len(t \o s) = Len(t) + Len(s)
          <6>1. \A W : \A x, y \in Seq(W) : x \o y \in Seq(W) /\ Len(x \o y) = Len(x) + Len(y)
            BY ConcatProperties, Zenon
          <6> QED BY <5>1, <6>1, Zenon
        <5> QED BY <5>1, <5>2 DEF V
      <4> HIDE DEF t
      <4>4. t \o s \in [1..6 -> Int]
        BY <4>3, LenProperties
      <4> QED BY <4>4 DEF t
    <3> QED BY <3>2, <3>3 DEF Lexicographic
  <2>3. k \in [S -> Lexicographic(6)] /\ IsFiniteSet(S) /\ S # {}
    <3> HIDE DEF key, inScope
    <3> QED BY <1>4, <1>5, <2>2
  <2>4. \E f \in S : \A g \in S \ {f} : ~Precedes(k[g], k[f])
    <3> HIDE DEF k, S
    <3> QED BY <2>3, FirstExists
  <2>5. \E f \in S : \A g \in S \ {f} : ~Precedes(key(g), key(f))
    <3> HIDE DEF key, S
    <3> QED BY <2>4
  <2> QED BY <2>5 DEF First
<1>6. ASSUME inScope = {} PROVE head(Categories[Min(outside)]) \in left
  <2>1. PICK f \in left : TRUE
    OBVIOUS
  <2>2. \E i \in DOMAIN Categories : Categories[i] = f.category
    BY <1>3 DEF Cats, ToSet
  <2>3. outside # {} /\ outside \subseteq DOMAIN Categories
    BY <1>3, <2>2
  <2>4. DOMAIN Categories = 1..Len(Categories) /\ Len(Categories) \in Nat
    BY ScoringAssumption
  <2>5. Min(outside) \in outside
    <3> HIDE DEF outside
    <3> DEFINE all == 1..Len(Categories)
    <3>1. outside \subseteq all /\ outside \in SUBSET Int
      BY <2>3, <2>4
    <3>2. IsFiniteSet(all)
      BY <2>4, FS_Interval
    <3> HIDE DEF all
    <3>3. IsFiniteSet(outside)
      BY <3>1, <3>2, FS_Subset
    <3> QED BY <2>3, <3>1, <3>3, LeastOfFinite
  <2>6. Categories[Min(outside)] \in Cats /\ of(Categories[Min(outside)]) # {}
    BY <2>5, ScoringAssumption DEF Cats, ToSet
  <2> HIDE DEF outside, head, of
  <2> QED BY <1>1, <1>2, <2>6
<1>7. NextFix(left, raw) = IF inScope # {} THEN First(inScope, key) ELSE head(Categories[Min(outside)])
  BY DEF NextFix
<1> HIDE DEF inScope, key, head, outside
<1> QED BY <1>4, <1>5, <1>6, <1>7

\* Findings of any category, of which those that count can be put in order.
Sortable(set) ==
  /\ IsFiniteSet(set)
  /\ \A f \in set : /\ f.tier \in ToSet(Tiers) /\ f.file \in ToSet(Names) /\ f.rule \in ToSet(Names)
                    /\ f.line \in Nat /\ (f.fixable \/ f.rule \in DOMAIN Effort)

\* After k fixes of the counted findings.
Progress(s, counted, k) ==
  /\ s.from = counted /\ s.left \in SUBSET counted /\ Cardinality(s.left) = Cardinality(counted) - k
  /\ s.impact = Impact(s.left) /\ s.raw \in [Cats -> Int] /\ s.previous = After(counted, s.left)
  /\ s.ranked \in Seq([fix : counted, projected : Int, gain : Int]) /\ Len(s.ranked) = k

\* What the next fix is listed as.
Listed(s, f) ==
  LET promised == After(s.from, s.left \ {f})
  IN [fix |-> f, projected |-> promised, gain |-> promised - After(s.from, s.left)]

\* The fix of a state, and how it is listed.
FixOf(s) == NextFix(s.left, s.raw)
EntryOf(s) == Listed(s, FixOf(s))

\* Taking the best fix that is left goes one step further down the ranking.
LEMMA FixProgresses ==
  ASSUME NEW counted, Rankable(counted), NEW k \in Nat, k < Cardinality(counted),
         NEW s, Progress(s, counted, k)
  PROVE  /\ FixOf(s) \in s.left /\ Take(s, FixOf(s)).left = s.left \ {FixOf(s)}
         /\ Take(s, FixOf(s)).ranked = Append(s.ranked, EntryOf(s))
         /\ Progress(Take(s, FixOf(s)), counted, k + 1)
<1> DEFINE f == FixOf(s)
           t == Take(s, f)
           left == s.left \ {f}
<1>1. IsFiniteSet(s.left) /\ Rankable(s.left) /\ Scorable(s.left) /\ Scorable(left) /\ Cardinality(counted) \in Nat
  BY FS_Subset, FS_CardinalityType DEF Rankable, Scorable, Progress
<1>2. s.left # {}
  <2>1. Cardinality({}) = 0
    BY FS_EmptySet
  <2>2. Cardinality(s.left) # 0
    BY <1>1 DEF Progress
  <2> QED BY <2>1, <2>2
<1>3. f \in s.left
  BY <1>1, <1>2, NextFixIsLeft DEF Progress, FixOf
<1> HIDE DEF f
<1>4. f \in counted /\ f.category \in Cats /\ Points(f) \in Int
  BY <1>1, <1>3, PointsType DEF Progress, Scorable
<1>5. t.impact = Impact(left)
  <2>1. Impact(left) = [Impact(s.left) EXCEPT ![f.category] = @ - Points(f)]
    BY <1>1, <1>3, ImpactOf
  <2> QED BY <2>1 DEF Take, Progress
<1>6. t.left = left /\ left \in SUBSET counted /\ Cardinality(left) = Cardinality(counted) - (k + 1)
  <2>1. Cardinality(left) = Cardinality(s.left) - 1
    BY <1>1, <1>3, FS_RemoveElement
  <2> QED BY <1>1, <2>1 DEF Take, Progress
<1>7. t.raw \in [Cats -> Int]
  BY <1>4 DEF Take, Progress
<1>8. t.previous = After(counted, left) /\ t.from = counted
  BY <1>5 DEF Take, After, Progress
<1>9. t.ranked = Append(s.ranked, Listed(s, f))
  BY <1>8 DEF Take, Listed, Progress
<1>10. Listed(s, f) \in [fix : counted, projected : Int, gain : Int]
  <2>1. After(counted, left) \in Int /\ After(counted, s.left) \in Int
    BY <1>6, AfterFollows DEF Rankable, Progress
  <2> QED BY <1>4, <2>1 DEF Listed, Progress
<1>11. t.ranked \in Seq([fix : counted, projected : Int, gain : Int]) /\ Len(t.ranked) = k + 1
  <2> DEFINE E == [fix : counted, projected : Int, gain : Int]
  <2>1. s.ranked \in Seq(E) /\ Len(s.ranked) = k /\ Listed(s, f) \in E
    BY <1>10 DEF Progress
  <2> HIDE DEF E
  <2>2. t.ranked \in Seq(E) /\ Len(t.ranked) = k + 1
    BY <1>9, <2>1
  <2> QED BY <2>2 DEF E
<1> QED BY <1>3, <1>5, <1>6, <1>7, <1>8, <1>9, <1>11 DEF Progress, EntryOf, f

\* The states of a ranking, from the first with all findings.
Beginning(counted) ==
  [from |-> counted, left |-> counted, impact |-> Impact(counted), ranked |-> <<>>,
   raw |-> [c \in DOMAIN Impact(counted) |-> 1000 - Impact(counted)[c]],
   previous |-> Running(counted, {}, Impact(counted))]

Step(after, start, k) == IF k = 0 THEN start ELSE Take(after[k - 1], FixOf(after[k - 1]))

Steps(after, start, n) == after = [k \in 0..n |-> Step(after, start, k)]

\* The repeated choice has a state after each of its steps.
LEMMA StepsExist ==
  ASSUME NEW start, NEW n \in Nat
  PROVE  \E after : Steps(after, start, n)
<1> DEFINE K == {m \in Nat : \E f : Steps(f, start, m)}
<1>1. 0 \in K
  <2> DEFINE f == [k \in 0..0 |-> start]
  <2>1. \A k \in 0..0 : f[k] = Step(f, start, k)
    BY DEF Step
  <2>2. f = [k \in 0..0 |-> Step(f, start, k)]
    BY <2>1
  <2> QED BY <2>2 DEF Steps
<1>2. ASSUME NEW m \in Nat, m \in K PROVE m + 1 \in K
  <2>1. PICK f : Steps(f, start, m)
    BY <1>2
  <2> DEFINE g == [k \in 0..(m + 1) |-> IF k <= m THEN f[k] ELSE Take(f[m], FixOf(f[m]))]
  <2>2. \A k \in 0..m : f[k] = Step(f, start, k)
    BY <2>1 DEF Steps
  <2>3. \A k \in 0..(m + 1) : g[k] = Step(g, start, k)
    BY <2>2 DEF Step
  <2>4. g = [k \in 0..(m + 1) |-> Step(g, start, k)]
    <3>1. g = [k \in 0..(m + 1) |-> g[k]]
      OBVIOUS
    <3> HIDE DEF g
    <3> QED BY <2>3, <3>1
  <2> HIDE DEF g
  <2> QED BY <2>4 DEF Steps
<1> HIDE DEF K
<1>3. n \in K
  BY <1>1, <1>2, NatSetInduction
<1> QED BY <1>3 DEF K

\* Each state follows from the one before.
LEMMA StepsProgress ==
  ASSUME NEW counted, Rankable(counted), NEW n \in Nat, n = Cardinality(counted),
         NEW after, Steps(after, Beginning(counted), n)
  PROVE  /\ after[0].left = counted
         /\ \A k \in 0..n : Progress(after[k], counted, k)
         /\ \A k \in 1..n : /\ FixOf(after[k - 1]) \in after[k - 1].left
                           /\ after[k].left = after[k - 1].left \ {FixOf(after[k - 1])}
                           /\ after[k].ranked = Append(after[k - 1].ranked, EntryOf(after[k - 1]))
<1> DEFINE start == Beginning(counted)
<1>1. Progress(start, counted, 0) /\ start.left = counted
  <2>1. Impact(counted) \in [Cats -> Nat]
    BY ImpactOf DEF Rankable
  <2> DEFINE raw == [c \in DOMAIN Impact(counted) |-> 1000 - Impact(counted)[c]]
  <2>2. raw \in [Cats -> Int]
    BY <2>1
  <2> HIDE DEF raw
  <2>3. Running(counted, {}, Impact(counted)) = After(counted, counted)
    BY AfterFollows DEF Rankable, Score
  <2> QED BY <2>2, <2>3 DEF Progress, Beginning, raw
<1> HIDE DEF start
<1>2. after[0] = start /\ \A k \in 1..n : after[k] = Take(after[k - 1], FixOf(after[k - 1]))
  <2>1. \A k \in 0..n : after[k] = Step(after, start, k)
    BY DEF Steps, start
  <2> QED BY <2>1 DEF Step
<1>3. ASSUME NEW k \in Nat, k < n, Progress(after[k], counted, k)
      PROVE  /\ FixOf(after[k]) \in after[k].left
             /\ after[k + 1].left = after[k].left \ {FixOf(after[k])}
             /\ after[k + 1].ranked = Append(after[k].ranked, EntryOf(after[k]))
             /\ Progress(after[k + 1], counted, k + 1)
  <2>1. k + 1 \in 1..n /\ (k + 1) - 1 = k
    BY <1>3
  <2>2. after[k + 1] = Take(after[k], FixOf(after[k]))
    BY <1>2, <2>1
  <2> DEFINE s == after[k]
  <2>3. k < Cardinality(counted) /\ Progress(s, counted, k)
    BY <1>3
  <2> HIDE DEF s
  <2>4. /\ FixOf(s) \in s.left /\ Take(s, FixOf(s)).left = s.left \ {FixOf(s)}
        /\ Take(s, FixOf(s)).ranked = Append(s.ranked, EntryOf(s))
        /\ Progress(Take(s, FixOf(s)), counted, k + 1)
    BY <2>3, FixProgresses
  <2> QED BY <2>2, <2>4 DEF s
<1>4. \A k \in 0..n : Progress(after[k], counted, k)
  <2> DEFINE K == {k \in Nat : k <= n => Progress(after[k], counted, k)}
  <2>1. 0 \in K
    BY <1>1, <1>2
  <2>2. ASSUME NEW k \in Nat, k \in K PROVE k + 1 \in K
    <3> SUFFICES ASSUME k + 1 <= n PROVE Progress(after[k + 1], counted, k + 1)
      OBVIOUS
    <3>1. k < n /\ Progress(after[k], counted, k)
      BY <2>2
    <3> QED BY <1>3, <3>1
  <2> HIDE DEF K
  <2>3. Nat \subseteq K
    BY <2>1, <2>2, NatSetInduction
  <2> QED BY <2>3 DEF K
<1>5. ASSUME NEW k \in 1..n
      PROVE  /\ FixOf(after[k - 1]) \in after[k - 1].left
             /\ after[k].left = after[k - 1].left \ {FixOf(after[k - 1])}
             /\ after[k].ranked = Append(after[k - 1].ranked, EntryOf(after[k - 1]))
  <2> DEFINE i == k - 1
  <2>1. i \in Nat /\ i < n /\ i \in 0..n /\ k = i + 1
    OBVIOUS
  <2> HIDE DEF i
  <2>2. /\ FixOf(after[i]) \in after[i].left
        /\ after[i + 1].left = after[i].left \ {FixOf(after[i])}
        /\ after[i + 1].ranked = Append(after[i].ranked, EntryOf(after[i]))
    BY <1>3, <1>4, <2>1
  <2> QED BY <2>1, <2>2 DEF i
<1> QED BY <1>1, <1>2, <1>4, <1>5

\* The fixes of the first k steps.
FixesOf(after, k) == {FixOf(after[i - 1]) : i \in 1..k}

\* What is left is what is not fixed, and the list has an entry for each step.
LEMMA StepsList ==
  ASSUME NEW counted, Rankable(counted), NEW n \in Nat, n = Cardinality(counted),
         NEW after, Steps(after, Beginning(counted), n)
  PROVE  /\ \A k \in 0..n : FixesOf(after, k) \subseteq counted /\ after[k].left = counted \ FixesOf(after, k)
         /\ FixesOf(after, n) = counted
         /\ \A k \in 0..n : \A i \in 1..k : after[k].ranked[i] = EntryOf(after[i - 1])
<1> DEFINE left(k)   == after[k].left
           fix(k)    == FixOf(after[k - 1])
           list(k)   == after[k].ranked
           entry(k)  == EntryOf(after[k - 1])
           fixes(k)  == FixesOf(after, k)
<1>1. /\ left(0) = counted /\ \A k \in 0..n : Progress(after[k], counted, k)
      /\ \A k \in 1..n : /\ fix(k) \in left(k - 1) /\ left(k) = left(k - 1) \ {fix(k)}
                        /\ list(k) = Append(list(k - 1), entry(k))
  BY StepsProgress
<1>2. \A k \in 0..n : list(k) \in Seq([fix : counted, projected : Int, gain : Int]) /\ Len(list(k)) = k
  BY <1>1 DEF Progress
<1>3. \A k \in Nat : fixes(k + 1) = fixes(k) \cup {fix(k + 1)}
  <2> SUFFICES ASSUME NEW k \in Nat PROVE fixes(k + 1) = fixes(k) \cup {fix(k + 1)}
    OBVIOUS
  <2>1. 1..(k + 1) = 1..k \cup {k + 1}
    OBVIOUS
  <2> QED BY <2>1 DEF FixesOf
<1>4. fixes(0) = {}
  BY DEF FixesOf
<1>5. \A k \in Nat : k < n => (k + 1) \in 1..n /\ (k + 1) - 1 = k /\ k \in 0..n /\ (k + 1) \in 0..n
  OBVIOUS
<1> HIDE DEF left, fix, list, entry, fixes
<1>6. \A k \in 0..n : fixes(k) \subseteq counted /\ left(k) = counted \ fixes(k)
  <2> DEFINE K == {k \in Nat : k <= n => fixes(k) \subseteq counted /\ left(k) = counted \ fixes(k)}
  <2>1. 0 \in K
    BY <1>1, <1>4
  <2>2. ASSUME NEW k \in Nat, k \in K PROVE k + 1 \in K
    <3> SUFFICES ASSUME k + 1 <= n
                 PROVE  fixes(k + 1) \subseteq counted /\ left(k + 1) = counted \ fixes(k + 1)
      OBVIOUS
    <3>1. fixes(k) \subseteq counted /\ left(k) = counted \ fixes(k)
      BY <2>2
    <3>2. left(k + 1) = left(k) \ {fix(k + 1)} /\ fix(k + 1) \in left(k)
      BY <1>1, <1>5
    <3>3. fixes(k + 1) = fixes(k) \cup {fix(k + 1)}
      BY <1>3
    <3> QED BY <3>1, <3>2, <3>3
  <2> HIDE DEF K
  <2>3. Nat \subseteq K
    BY <2>1, <2>2, NatSetInduction
  <2> QED BY <2>3 DEF K
<1>7. fixes(n) = counted
  <2>1. left(n) \in SUBSET counted /\ Cardinality(left(n)) = 0
    BY <1>1 DEF Progress, left
  <2>2. left(n) = {}
    BY <2>1, FS_Subset, FS_EmptySet DEF Rankable, Scorable
  <2>3. n \in 0..n
    OBVIOUS
  <2> QED BY <1>6, <2>2, <2>3
<1>8. \A k \in 0..n : \A i \in 1..k : list(k)[i] = entry(i)
  <2> DEFINE K == {k \in Nat : k <= n => \A i \in 1..k : list(k)[i] = entry(i)}
  <2>1. 0 \in K
    OBVIOUS
  <2>2. ASSUME NEW k \in Nat, k \in K PROVE k + 1 \in K
    <3> SUFFICES ASSUME k + 1 <= n, NEW i \in 1..(k + 1) PROVE list(k + 1)[i] = entry(i)
      OBVIOUS
    <3>1. \A x \in 1..k : list(k)[x] = entry(x)
      BY <2>2
    <3> DEFINE r == list(k)
               E == [fix : counted, projected : Int, gain : Int]
    <3>2. list(k + 1) = Append(r, entry(k + 1))
      BY <1>1, <1>5
    <3>3. r \in Seq(E) /\ Len(r) = k /\ list(k + 1) \in Seq(E)
      <4>1. k \in 0..n /\ k + 1 \in 0..n
        OBVIOUS
      <4> QED BY <1>2, <4>1
    <3> HIDE DEF r, E
    <3>4. \A x \in 1..k : list(k + 1)[x] = r[x]
      BY <3>2, <3>3
    <3>5. list(k + 1)[k + 1] = entry(k + 1)
      BY <3>2, <3>3
    <3> QED BY <3>1, <3>4, <3>5 DEF r
  <2> HIDE DEF K
  <2>3. Nat \subseteq K
    BY <2>1, <2>2, NatSetInduction
  <2> QED BY <2>3 DEF K
<1> QED BY <1>6, <1>7, <1>8 DEF left, fix, list, entry, fixes

\* Every counted finding once; the promised scores are those of what is left, or near them; the
\* gains are their differences, and no fix costs points.
HonestOrder(set, ranked) ==
  LET counted     == {f \in set : Counts(f, FALSE)}
      fixed(k)    == {ranked[i].fix : i \in 1..k}
      score(k)    == Overall(set \ fixed(k), FALSE)
      promised(k) == IF k = 0 THEN Overall(set, FALSE) ELSE ranked[k].projected
  IN /\ fixed(Len(ranked)) = counted /\ Cardinality(fixed(Len(ranked))) = Len(ranked)
     /\ \A k \in DOMAIN ranked :
          /\ promised(k) - score(k) \in (IF Plain(counted) THEN {0} ELSE -11..11)
          /\ ranked[k].gain = promised(k) - promised(k - 1) /\ ranked[k].gain >= 0

\* The ranking of the fixes is an honest one: everything once, the best first.
LEMMA FixesRanked ==
  ASSUME NEW set, Sortable(set)
  PROVE  HonestOrder(set, RankFixes(set))
<1> DEFINE all    == {f \in set : Counts(f, FALSE)}
           ranked == RankFixes(set)
<1>1. PICK counted : counted = all
  OBVIOUS
<1>2. Rankable(counted)
  BY <1>1, FS_Subset DEF Sortable, Rankable, Scorable, Counts, Cats
<1>3. PICK n \in Nat : n = Cardinality(counted)
  BY <1>2, FS_CardinalityType DEF Rankable, Scorable
<1>4. \E after : Steps(after, Beginning(counted), n) /\ ranked = after[n].ranked
  <2> DEFINE Chain(f) == [k \in 0..n |-> Step(f, Beginning(counted), k)]
             after == CHOOSE f : f = Chain(f)
  <2>1. \E f : f = Chain(f)
    BY StepsExist DEF Steps
  <2>2. after = Chain(after)
    <3> HIDE DEF Chain
    <3> QED BY <2>1
  <2>3. ranked = after[n].ranked
    BY <1>1, <1>3 DEF RankFixes, Step, Beginning, FixOf
  <2> HIDE DEF after
  <2> QED BY <2>2, <2>3 DEF Steps
<1>5. PICK after : Steps(after, Beginning(counted), n) /\ ranked = after[n].ranked
  BY <1>4
<1> HIDE DEF ranked
<1>6. /\ after[0].left = counted
      /\ \A k \in 0..n : Progress(after[k], counted, k)
      /\ \A k \in 1..n : /\ FixOf(after[k - 1]) \in after[k - 1].left
                        /\ after[k].left = after[k - 1].left \ {FixOf(after[k - 1])}
  <2>1. /\ Rankable(counted) /\ n \in Nat /\ n = Cardinality(counted)
        /\ Steps(after, Beginning(counted), n)
    BY <1>2, <1>3, <1>5
  <2>2. /\ after[0].left = counted
        /\ \A k \in 0..n : Progress(after[k], counted, k)
        /\ \A k \in 1..n : /\ FixOf(after[k - 1]) \in after[k - 1].left
                          /\ after[k].left = after[k - 1].left \ {FixOf(after[k - 1])}
                          /\ after[k].ranked = Append(after[k - 1].ranked, EntryOf(after[k - 1]))
    BY <2>1, StepsProgress
  <2> QED BY <2>2
<1>7. /\ \A k \in 0..n : after[k].left = counted \ FixesOf(after, k)
      /\ FixesOf(after, n) = counted
      /\ \A k \in 0..n : \A i \in 1..k : after[k].ranked[i] = EntryOf(after[i - 1])
  BY <1>2, <1>3, <1>5, StepsList
<1>8. Len(ranked) = n /\ DOMAIN ranked = 1..n /\ \A i \in 1..n : ranked[i] = EntryOf(after[i - 1])
  <2> DEFINE E == [fix : counted, projected : Int, gain : Int]
  <2>1. ranked \in Seq(E) /\ Len(ranked) = n
    <3>1. Progress(after[n], counted, n)
      BY <1>6
    <3> QED BY <1>5, <3>1 DEF Progress
  <2> HIDE DEF E
  <2> QED BY <1>5, <1>7, <2>1
<1> DEFINE fixed(k) == {ranked[i].fix : i \in 1..k}
<1>9. \A k \in 0..n : fixed(k) = FixesOf(after, k)
  <2>1. \A s : EntryOf(s).fix = FixOf(s)
    BY DEF EntryOf, Listed
  <2>2. \A i \in 1..n : ranked[i].fix = FixOf(after[i - 1])
    BY <1>8, <2>1
  <2> SUFFICES ASSUME NEW k \in 0..n PROVE fixed(k) = FixesOf(after, k)
    OBVIOUS
  <2>3. \A i \in 1..k : ranked[i].fix = FixOf(after[i - 1])
    BY <2>2
  <2>4. {ranked[i].fix : i \in 1..k} = {FixOf(after[i - 1]) : i \in 1..k}
    BY <2>3
  <2> QED BY <2>4 DEF FixesOf
<1> HIDE DEF fixed
<1>10. \A k \in 0..n : Overall(set \ fixed(k), FALSE) = Score(after[k].left)
  <2> SUFFICES ASSUME NEW k \in 0..n PROVE Overall(set \ fixed(k), FALSE) = Score(after[k].left)
    OBVIOUS
  <2>1. {f \in set \ fixed(k) : Counts(f, FALSE)} = after[k].left
    <3>1. after[k].left = all \ fixed(k)
      BY <1>1, <1>7, <1>9
    <3> QED BY <3>1
  <2> QED BY <2>1 DEF Overall, Score
<1>11. ASSUME NEW k \in 1..n
       PROVE  /\ ranked[k].projected = After(counted, after[k].left)
              /\ ranked[k].gain = After(counted, after[k].left) - After(counted, after[k - 1].left)
  <2>1. k - 1 \in 0..n /\ ranked[k] = EntryOf(after[k - 1])
    BY <1>8
  <2>2. PICK s : s = after[k - 1]
    OBVIOUS
  <2>3. s.from = counted /\ after[k].left = s.left \ {FixOf(s)} /\ ranked[k] = EntryOf(s)
    <3>1. Progress(s, counted, k - 1)
      BY <1>6, <2>1, <2>2
    <3>2. after[k].left = s.left \ {FixOf(s)}
      BY <1>6, <2>2
    <3> QED BY <2>1, <2>2, <3>1, <3>2 DEF Progress
  <2>4. /\ EntryOf(s).projected = After(s.from, s.left \ {FixOf(s)})
        /\ EntryOf(s).gain = After(s.from, s.left \ {FixOf(s)}) - After(s.from, s.left)
    BY DEF EntryOf, Listed
  <2> QED BY <2>2, <2>3, <2>4
<1> DEFINE promised(k) == IF k = 0 THEN Overall(set, FALSE) ELSE ranked[k].projected
<1>12. \A k \in 0..n : promised(k) = After(counted, after[k].left)
  <2>1. Overall(set, FALSE) = After(counted, after[0].left)
    <3>1. Overall(set, FALSE) = Score(counted)
      BY <1>1 DEF Overall, Score
    <3> QED BY <1>2, <1>6, <3>1, AfterFollows DEF Rankable
  <2> SUFFICES ASSUME NEW k \in 0..n PROVE promised(k) = After(counted, after[k].left)
    OBVIOUS
  <2>2. CASE k = 0
    BY <2>1, <2>2
  <2>3. CASE k # 0
    <3>1. k \in 1..n
      BY <2>3
    <3> QED BY <1>11, <2>3, <3>1
  <2> QED BY <2>2, <2>3
<1>13. ASSUME NEW k \in 1..n
       PROVE  /\ promised(k) - Overall(set \ fixed(k), FALSE) \in (IF Plain(counted) THEN {0} ELSE -11..11)
              /\ ranked[k].gain = promised(k) - promised(k - 1) /\ ranked[k].gain >= 0
  <2> DEFINE was == after[k - 1].left
             is  == after[k].left
  <2>1. k \in 0..n /\ k - 1 \in 0..n
    OBVIOUS
  <2>2. is = was \ {FixOf(after[k - 1])} /\ was \in SUBSET counted /\ FixOf(after[k - 1]) \in was
    BY <1>6, <2>1 DEF Progress
  <2>3. ranked[k].gain = After(counted, is) - After(counted, was)
    BY <1>11
  <2>4. Overall(set \ fixed(k), FALSE) = Score(is) /\ promised(k) = After(counted, is) /\ promised(k - 1) = After(counted, was)
    BY <1>10, <1>12, <2>1
  <2> HIDE DEF was, is, promised
  <2>5. /\ After(counted, is) \in Int /\ After(counted, was) \in Int /\ After(counted, was) <= After(counted, is)
        /\ After(counted, is) - Score(is) \in -11..11
        /\ Plain(counted) => After(counted, is) = Score(is)
    <3>1. is \in SUBSET counted
      BY <2>2
    <3> QED BY <1>2, <2>2, <3>1, AfterFollows DEF Rankable
  <2>6. After(counted, is) - After(counted, was) >= 0
    BY <2>5
  <2>7. Plain(counted) => After(counted, is) - Score(is) = 0
    BY <2>5
  <2> QED BY <2>3, <2>4, <2>5, <2>6, <2>7
<1>14. fixed(Len(ranked)) = all /\ Cardinality(fixed(Len(ranked))) = Len(ranked)
  <2>1. fixed(n) = counted
    BY <1>7, <1>9
  <2> QED BY <1>1, <1>3, <1>8, <2>1
<1> HIDE DEF promised
<1> QED BY <1>1, <1>8, <1>13, <1>14 DEF HonestOrder, ranked, fixed, promised
-----------------------------------------------------------------------------
(* The jobs *)

\* The least element of a set of numbers is one of them.
LEMMA MinIsLeast ==
  ASSUME NEW S \in SUBSET Nat, S # {}
  PROVE  Min(S) \in S /\ \A x \in S : Min(S) <= x
  BY LeastNat DEF Min
-----------------------------------------------------------------------------
(* The order of the stages *)

\* The stages of a scan that has its findings, up to the gates.
Late == {"delta", "stamp", "append", "html", "list", "send", "gate"}

\* The number of a stage; before the first one it is 0.
Place(p, stage) == IF p = 0 THEN stage = "waiting" ELSE stage = Stages[p]

\* After a stage comes the first later one that is wanted; the gates always are.
LEMMA FollowingIsNext ==
  ASSUME NEW o, NEW p \in 0..9, NEW stage, Place(p, stage), stage # "ids"
  PROVE  \E q \in (p + 1)..10 : /\ Following(o, stage) = Stages[q] /\ Wanted(o, Stages[q])
                                /\ \A i \in (p + 1)..(q - 1) : ~Wanted(o, Stages[i])
<1> DEFINE later == {i \in DOMAIN Stages : Wanted(o, Stages[i]) /\ \A k \in i..Len(Stages) : Stages[k] # stage}
<1>1. DOMAIN Stages = 1..10 /\ Len(Stages) = 10 /\ Stages[10] = "gate"
  BY DEF Stages
<1>2. \A i \in 1..10 : (\A k \in i..10 : Stages[k] # stage) <=> i > p
  BY DEF Stages, Place
<1>3. later = {i \in 1..10 : Wanted(o, Stages[i]) /\ i > p}
  BY <1>1, <1>2
<1>4. 10 \in later
  BY <1>1, <1>3 DEF Wanted
<1> DEFINE q == Min(later)
<1>5. later \in SUBSET Nat
  BY <1>3
<1> HIDE DEF later
<1>6. q \in later /\ \A i \in later : q <= i
  BY <1>4, <1>5, MinIsLeast
<1>7. Following(o, stage) = Stages[q]
  BY <1>4 DEF Following, later
<1> HIDE DEF q
<1> QED BY <1>3, <1>6, <1>7

\* What comes after each stage.
LEMMA StageOrder ==
  ASSUME NEW o
  PROVE  /\ Following(o, "waiting") \in {"truncate", "ids", "rescore"}
         /\ Following(o, "waiting") \in {"truncate", "ids"} => o.write
         /\ o.write => Following(o, "truncate") = "ids"
         /\ Following(o, "ids") = "ended"
         /\ \A s \in {"rescore", "delta", "stamp", "append", "html", "list", "send"} :
              Following(o, s) \in Late /\ (Following(o, s) = "send" => s = "list")
         /\ Following(o, "send") = "gate"
<1>1. Following(o, "ids") = "ended"
  BY DEF Following
<1>2. /\ Following(o, "waiting") \in {"truncate", "ids", "rescore"}
      /\ Following(o, "waiting") \in {"truncate", "ids"} => o.write
  <2>1. PICK q \in (0 + 1)..10 : /\ Following(o, "waiting") = Stages[q] /\ Wanted(o, Stages[q])
                           /\ \A i \in (0 + 1)..(q - 1) : ~Wanted(o, Stages[i])
    BY FollowingIsNext DEF Place
  <2>2. Stages[3] = "rescore" /\ Wanted(o, Stages[3])
    BY DEF Stages, Wanted
  <2>3. q \in {1, 2, 3}
    BY <2>1, <2>2
  <2> QED BY <2>1, <2>3 DEF Stages, Wanted
<1>3. ASSUME o.write PROVE Following(o, "truncate") = "ids"
  <2>1. PICK q \in (1 + 1)..10 : /\ Following(o, "truncate") = Stages[q] /\ Wanted(o, Stages[q])
                           /\ \A i \in (1 + 1)..(q - 1) : ~Wanted(o, Stages[i])
    BY FollowingIsNext DEF Place, Stages
  <2>2. Stages[2] = "ids" /\ Wanted(o, Stages[2])
    BY <1>3 DEF Stages, Wanted
  <2>3. q = 2
    BY <2>1, <2>2
  <2> QED BY <2>1, <2>2, <2>3
<1>4. ASSUME NEW s \in {"rescore", "delta", "stamp", "append", "html", "list", "send"}
      PROVE  /\ Following(o, s) \in Late /\ (Following(o, s) = "send" => s = "list")
             /\ s = "send" => Following(o, s) = "gate"
  <2>1. PICK p \in 3..9 : s = Stages[p]
    BY <1>4 DEF Stages
  <2>2. PICK q \in (p + 1)..10 : /\ Following(o, s) = Stages[q] /\ Wanted(o, Stages[q])
                                 /\ \A i \in (p + 1)..(q - 1) : ~Wanted(o, Stages[i])
    BY <2>1, FollowingIsNext DEF Place
  <2>3. Following(o, s) \in Late
    BY <2>1, <2>2 DEF Stages, Late
  <2>4. ASSUME Following(o, s) = "send" PROVE s = "list"
    <3>1. q = 9
      BY <2>2, <2>4 DEF Stages
    <3>2. Wanted(o, "list") <=> Wanted(o, "send")
      BY DEF Wanted
    <3>3. Stages[8] = "list" /\ Stages[9] = "send"
      BY DEF Stages
    <3>4. ~(8 \in (p + 1)..(q - 1))
      BY <2>2, <3>1, <3>2, <3>3
    <3> QED BY <2>1, <3>1, <3>3, <3>4
  <2>5. ASSUME s = "send" PROVE Following(o, s) = "gate"
    <3>1. p = 9
      BY <2>1, <2>5 DEF Stages
    <3> QED BY <2>2, <3>1 DEF Stages
  <2> QED BY <2>3, <2>4, <2>5
<1> QED BY <1>1, <1>2, <1>3, <1>4
-----------------------------------------------------------------------------
(* The comments *)

Comment == [job : Nat, marker : BOOLEAN]

Marked(list) == {i \in DOMAIN list : list[i].marker}

\* The comments after a request is carried out.
Posted(list, target, shown) ==
  IF target = 0 THEN Append(list, shown) ELSE [list EXCEPT ![target] = shown]

\* The first comment with the marker is chosen, or none.
LEMMA ChosenIsFirst ==
  ASSUME NEW list \in Seq(Comment)
  PROVE  /\ Marked(list) = {} => ChooseCommentAction(list) = 0
         /\ Marked(list) # {} => /\ ChooseCommentAction(list) = Min(Marked(list))
                                 /\ Min(Marked(list)) \in Marked(list)
                                 /\ \A i \in Marked(list) : Min(Marked(list)) <= i
<1>1. Marked(list) \in SUBSET Nat
  BY DEF Marked
<1> QED BY <1>1, MinIsLeast DEF ChooseCommentAction, Marked

\* A request adds at most one comment with the marker; one that takes the comment a job would now
\* choose adds none but the first, and is the first.
LEMMA PostedShows ==
  ASSUME NEW list \in Seq(Comment), NEW target \in 0..Len(list),
         NEW shown \in Comment, shown.marker
  PROVE  /\ Posted(list, target, shown) \in Seq(Comment)
         /\ Len(Posted(list, target, shown)) >= Len(list)
         /\ IsFiniteSet(Marked(list)) /\ IsFiniteSet(Marked(Posted(list, target, shown)))
         /\ Cardinality(Marked(Posted(list, target, shown))) <= Cardinality(Marked(list)) + 1
         /\ target = ChooseCommentAction(list) =>
              /\ Cardinality(Marked(Posted(list, target, shown))) <= 1
                 \/ Cardinality(Marked(Posted(list, target, shown))) <= Cardinality(Marked(list))
              /\ Posted(list, target, shown)[Min(Marked(Posted(list, target, shown)))] = shown
<1> DEFINE n == Len(list)
           new == Posted(list, target, shown)
           at == IF target = 0 THEN n + 1 ELSE target
<1>1. n \in Nat /\ DOMAIN list = 1..n
  OBVIOUS
<1>2. new \in Seq(Comment) /\ new[at] = shown /\ at \in DOMAIN new /\ Len(new) >= n
  <2>1. CASE target = 0
    BY <2>1 DEF Posted
  <2>2. CASE target # 0
    <3>1. target \in 1..n
      BY <2>2
    <3> QED BY <3>1, <2>2 DEF Posted
  <2> QED BY <2>1, <2>2
<1>3. \A i \in DOMAIN new \ {at} : i \in DOMAIN list /\ new[i] = list[i]
  <2>1. CASE target = 0
    BY <2>1 DEF Posted
  <2>2. CASE target # 0
    BY <2>2 DEF Posted
  <2> QED BY <2>1, <2>2
<1>4. Marked(new) = Marked(list) \cup {at}
  <2>1. \A i \in DOMAIN list \ {at} : i \in DOMAIN new
    BY <1>2
  <2> QED BY <1>2, <1>3, <2>1 DEF Marked
<1>5. IsFiniteSet(Marked(list)) /\ Cardinality(Marked(list)) \in Nat
  <2>1. IsFiniteSet(1..n)
    BY <1>1, FS_Interval
  <2> QED BY <1>1, <2>1, FS_Subset, FS_CardinalityType DEF Marked
<1>6. IsFiniteSet(Marked(new)) /\ Cardinality(Marked(new)) <= Cardinality(Marked(list)) + 1
  <2>1. IsFiniteSet(Marked(list) \cup {at})
        /\ Cardinality(Marked(list) \cup {at}) <= Cardinality(Marked(list)) + 1
    <3> HIDE DEF at
    <3>1. Cardinality(Marked(list) \cup {at})
            = IF at \in Marked(list) THEN Cardinality(Marked(list)) ELSE Cardinality(Marked(list)) + 1
      BY <1>5, FS_AddElement
    <3> QED BY <1>5, <3>1, FS_AddElement
  <2> QED BY <1>4, <2>1
<1>7. ASSUME target = ChooseCommentAction(list)
      PROVE  /\ Cardinality(Marked(new)) <= 1 \/ Cardinality(Marked(new)) <= Cardinality(Marked(list))
             /\ new[Min(Marked(new))] = shown
  <2> HIDE DEF new, n, at
  <2>1. CASE Marked(list) = {}
    <3>1. Marked(new) = {at}
      BY <1>4, <2>1
    <3>2. Cardinality({at}) = 1
      BY FS_Singleton
    <3>3. Min({at}) = at
      <4>1. {at} \in SUBSET Nat /\ {at} # {}
        BY <1>1 DEF at, n
      <4> QED BY <4>1, MinIsLeast
    <3> QED BY <1>2, <3>1, <3>2, <3>3
  <2>2. CASE Marked(list) # {}
    <3>1. target = Min(Marked(list)) /\ target \in Marked(list)
      BY <1>7, <2>2, ChosenIsFirst
    <3>2. at = target
      BY <1>1, <3>1 DEF Marked, at
    <3>3. Marked(new) = Marked(list)
      BY <1>4, <3>1, <3>2
    <3> QED BY <1>2, <1>5, <3>1, <3>2, <3>3
  <2> QED BY <2>1, <2>2
<1> QED BY <1>2, <1>5, <1>6, <1>7
-----------------------------------------------------------------------------
(* The jobs *)

JobFields == DOMAIN Waiting

\* The stages of a scan; only one that writes a baseline goes through the first two.
Writing   == {"truncate", "ids"}
Scanning  == (Writing \cup {"rescore"}) \cup Late

Staged(o, job) ==
  /\ DOMAIN job = JobFields
  /\ job.pc \in Writing => o.write
  /\ job.pc \in Scanning => o.kind = "scan"

Shape ==
  /\ DOMAIN jobs = DOMAIN plan /\ DOMAIN plan \subseteq Nat
  /\ \A j \in DOMAIN plan : Possible(plan[j]) /\ Staged(plan[j], jobs[j])

\* The stages a job is in that has asked for its comment.
Over == {"gate", "ended", "killed"}

\* What a job has seen of the comments, and which of them it would take.
Fits(target, seen) ==
  /\ seen \in Nat /\ seen <= posted.landed /\ target \in 0..Len(comments)
  /\ seen = posted.landed => target = ChooseCommentAction(comments)

\* The comments, and what is under way to them.
StickyInv ==
  /\ comments \in Seq(Comment)
  /\ posted \in [by : Nat, alone : BOOLEAN, landed : Nat, met : Nat]
  /\ IsFiniteSet(Marked(comments)) /\ Cardinality(Marked(comments)) <= 1 + posted.met
  /\ posted.alone => comments[Min(Marked(comments))].job = posted.by
  /\ \A j \in DOMAIN jobs : jobs[j].pc = "send" => Fits(jobs[j].target, jobs[j].seen)
  /\ \A request \in flight :
       /\ request.job \in DOMAIN jobs /\ request.job \in Nat /\ jobs[request.job].pc \in Over
       /\ Fits(request.target, jobs[request.job].seen)

\* The fields of a job.
LEMMA FieldNames ==
  JobFields = {"pc", "found", "left", "scores", "ranked", "stamp", "target", "seen", "intact", "code",
               "delta", "accepted"}
  BY DEF JobFields, Waiting

\* A job that goes on keeps its other fields.
LEMMA GoesOn ==
  ASSUME Shape, NEW j \in DOMAIN jobs, NEW job, DOMAIN job = JobFields, Go(j, job)
  PROVE  \E new : /\ jobs' = [jobs EXCEPT ![j] = new] /\ DOMAIN new = JobFields
                  /\ new.pc = Following(plan[j], jobs[j].pc)
                  /\ \A x \in JobFields \ {"pc"} : new[x] = job[x]
<1> DEFINE new == [job EXCEPT !.pc = Following(plan[j], jobs[j].pc)]
<1>1. jobs' = [jobs EXCEPT ![j] = new] /\ DOMAIN new = JobFields
  BY DEF Go
<1>2. new.pc = Following(plan[j], jobs[j].pc) /\ \A x \in JobFields \ {"pc"} : new[x] = job[x]
  BY FieldNames
<1> QED BY <1>1, <1>2

\* A job that exits ends with its code and keeps its other fields.
LEMMA Ends ==
  ASSUME Shape, NEW j \in DOMAIN jobs, NEW job, DOMAIN job = JobFields, NEW code, Exit(j, job, code)
  PROVE  \E new : /\ jobs' = [jobs EXCEPT ![j] = new] /\ DOMAIN new = JobFields
                  /\ new.pc = "ended" /\ new.code = code
                  /\ \A x \in JobFields \ {"pc", "code"} : new[x] = job[x]
<1> DEFINE new == [job EXCEPT !.pc = "ended", !.code = code]
<1>1. jobs' = [jobs EXCEPT ![j] = new] /\ DOMAIN new = JobFields
  BY DEF Exit
<1>2. new.pc = "ended" /\ new.code = code /\ \A x \in JobFields \ {"pc", "code"} : new[x] = job[x]
  BY FieldNames
<1> QED BY <1>1, <1>2

\* A step of a job that neither asks for a comment nor sees the comments anew.
LEMMA QuietStep ==
  ASSUME Shape, StickyInv, NEW j \in DOMAIN jobs, NEW new, Staged(plan[j], new),
         jobs' = [jobs EXCEPT ![j] = new], UNCHANGED <<plan, comments, flight, posted>>,
         new.pc = "send" => Fits(new.target, new.seen),
         jobs[j].pc \in Over => new.pc \in Over /\ new.seen = jobs[j].seen
  PROVE  Shape' /\ StickyInv'
<1>1. Shape'
  BY DEF Shape
<1>2. DOMAIN jobs' = DOMAIN jobs /\ jobs'[j] = new /\ \A i \in DOMAIN jobs \ {j} : jobs'[i] = jobs[i]
  OBVIOUS
<1>3. \A i \in DOMAIN jobs' : jobs'[i].pc = "send" => Fits(jobs[i].target, jobs[i].seen)'
  BY <1>2 DEF StickyInv, Fits
<1>4. \A request \in flight' :
       /\ request.job \in DOMAIN jobs' /\ request.job \in Nat /\ jobs'[request.job].pc \in Over
       /\ Fits(request.target, jobs[request.job].seen)'
  BY <1>2 DEF StickyInv, Fits
<1> QED BY <1>1, <1>3, <1>4 DEF StickyInv, Marked

\* Every step keeps what is said of the comments.
LEMMA StickyStep == Shape /\ StickyInv /\ [Next]_vars => Shape' /\ StickyInv'
<1> SUFFICES ASSUME Shape, StickyInv, [Next]_vars PROVE Shape' /\ StickyInv'
  OBVIOUS
<1> USE FieldNames, StageOrder DEF At
<1>0. \A j \in DOMAIN jobs : Possible(plan[j]) /\ Staged(plan[j], jobs[j]) /\ DOMAIN jobs[j] = JobFields
  BY DEF Shape, Staged
<1>1. ASSUME NEW j \in DOMAIN jobs, Start(j) PROVE Shape' /\ StickyInv'
  <2>0. /\ jobs[j].pc = "waiting" /\ DOMAIN jobs[j] = JobFields /\ Possible(plan[j])
        /\ UNCHANGED <<plan, comments, flight, posted>>
    BY <1>0, <1>1 DEF Start
  <2>1. CASE plan[j].kind # "scan" /\ jobs' = [jobs EXCEPT ![j].pc = plan[j].kind]
    <3> DEFINE new == [jobs[j] EXCEPT !.pc = plan[j].kind]
    <3>1. jobs' = [jobs EXCEPT ![j] = new] /\ DOMAIN new = JobFields /\ new.pc = plan[j].kind
      BY <2>0, <2>1
    <3> HIDE DEF new
    <3>2. new.pc \in {"import", "show"}
      BY <2>0, <2>1, <3>1 DEF Possible
    <3>3. Staged(plan[j], new)
      BY <3>1, <3>2 DEF Staged, Scanning, Writing, Late
    <3> QED BY <2>0, <3>1, <3>2, <3>3, QuietStep DEF Over
  <2>2. CASE Exit(j, jobs[j], 3)
    <3>1. PICK new : /\ jobs' = [jobs EXCEPT ![j] = new] /\ DOMAIN new = JobFields /\ new.pc = "ended"
      BY <2>0, <2>2, Ends
    <3>2. Staged(plan[j], new)
      BY <3>1 DEF Staged, Scanning, Writing, Late
    <3> QED BY <2>0, <3>1, <3>2, QuietStep DEF Over
  <2>3. CASE plan[j].kind = "scan" /\ Go(j, [jobs[j] EXCEPT !.found = Checkout(plan[j], plan[j].tree)])
    <3>1. DOMAIN [jobs[j] EXCEPT !.found = Checkout(plan[j], plan[j].tree)] = JobFields
      BY <2>0
    <3>2. PICK new : /\ jobs' = [jobs EXCEPT ![j] = new] /\ DOMAIN new = JobFields
                     /\ new.pc = Following(plan[j], jobs[j].pc)
      BY <2>3, <3>1, GoesOn
    <3>3. new.pc \in {"truncate", "ids", "rescore"} /\ (new.pc \in {"truncate", "ids"} => plan[j].write)
      BY <2>0, <3>2
    <3>4. Staged(plan[j], new)
      BY <2>3, <3>2, <3>3 DEF Staged, Scanning, Writing, Late
    <3> QED BY <2>0, <3>2, <3>3, <3>4, QuietStep DEF Over
  <2> QED BY <1>1, <2>1, <2>2, <2>3 DEF Start
\* The stages that go on with nothing seen of the comments.
<1>2. ASSUME NEW j \in DOMAIN jobs, NEW job, DOMAIN job = JobFields, Go(j, job),
             jobs[j].pc \in Scanning \ {"list", "send", "gate"},
             UNCHANGED <<plan, comments, flight, posted>>
      PROVE  Shape' /\ StickyInv'
  <2>1. PICK new : /\ jobs' = [jobs EXCEPT ![j] = new] /\ DOMAIN new = JobFields
                   /\ new.pc = Following(plan[j], jobs[j].pc)
    BY <1>2, GoesOn
  <2>2. plan[j].kind = "scan" /\ (jobs[j].pc \in Writing => plan[j].write)
    BY <1>0, <1>2 DEF Staged
  <2>3. jobs[j].pc \in {"truncate", "ids", "rescore", "delta", "stamp", "append", "html"}
    BY <1>2 DEF Scanning, Writing, Late
  <2>4. new.pc # "send" /\ (new.pc \in Writing => plan[j].write)
    BY <2>1, <2>2, <2>3 DEF Writing, Late
  <2>5. Staged(plan[j], new)
    BY <2>1, <2>2, <2>4 DEF Staged
  <2> QED BY <1>2, <2>1, <2>3, <2>4, <2>5, QuietStep DEF Over
\* The stages that end the job.
<1>3. ASSUME NEW j \in DOMAIN jobs, NEW job, DOMAIN job = JobFields, NEW code, Exit(j, job, code),
             jobs[j].pc \in Over => job.seen = jobs[j].seen,
             UNCHANGED <<plan, comments, flight, posted>>
      PROVE  Shape' /\ StickyInv'
  <2>1. PICK new : /\ jobs' = [jobs EXCEPT ![j] = new] /\ DOMAIN new = JobFields /\ new.pc = "ended"
                   /\ new.seen = job.seen
    BY <1>3, Ends
  <2>2. Staged(plan[j], new)
    BY <2>1 DEF Staged, Scanning, Writing, Late
  <2> QED BY <1>3, <2>1, <2>2, QuietStep DEF Over
<1>4. ASSUME NEW j \in DOMAIN jobs, Truncate(j) \/ WriteIds(j) PROVE Shape' /\ StickyInv'
  <2>1. Go(j, jobs[j]) /\ jobs[j].pc \in Scanning \ {"list", "send", "gate"}
        /\ UNCHANGED <<plan, comments, flight, posted>>
    BY <1>4 DEF Truncate, WriteIds, Scanning, Writing
  <2> QED BY <1>0, <1>2, <2>1
<1>5. ASSUME NEW j \in DOMAIN jobs, Rescore(j) PROVE Shape' /\ StickyInv'
  <2>1. PICK left, scores, ranked, accepted :
          LET job == [jobs[j] EXCEPT !.left = left, !.scores = scores, !.ranked = ranked, !.accepted = accepted]
          IN Exit(j, job, 0) \/ Go(j, job)
    BY <1>5 DEF Rescore
  <2> DEFINE job == [jobs[j] EXCEPT !.left = left, !.scores = scores, !.ranked = ranked, !.accepted = accepted]
  <2>2. DOMAIN job = JobFields /\ job.seen = jobs[j].seen
    BY <1>0
  <2>3. Exit(j, job, 0) \/ Go(j, job)
    BY <2>1
  <2>4. jobs[j].pc \in Scanning \ {"list", "send", "gate"} /\ UNCHANGED <<plan, comments, flight, posted>>
    BY <1>5 DEF Rescore, Scanning
  <2> HIDE DEF job
  <2> QED BY <1>2, <1>3, <2>2, <2>3, <2>4
<1>6. ASSUME NEW j \in DOMAIN jobs, ScanBaseRef(j) PROVE Shape' /\ StickyInv'
  <2>1. PICK delta : Go(j, [jobs[j] EXCEPT !.delta = delta]) \/ Exit(j, jobs[j], 3)
    BY <1>6 DEF ScanBaseRef
  <2>2. DOMAIN [jobs[j] EXCEPT !.delta = delta] = JobFields
    BY <1>0
  <2>3. jobs[j].pc \in Scanning \ {"list", "send", "gate"} /\ UNCHANGED <<plan, comments, flight, posted>>
    BY <1>6 DEF ScanBaseRef, Scanning, Late
  <2> QED BY <1>0, <1>2, <1>3, <2>1, <2>2, <2>3
<1>7. ASSUME NEW j \in DOMAIN jobs, Stamp(j) PROVE Shape' /\ StickyInv'
  <2>1. PICK stamp : Go(j, [jobs[j] EXCEPT !.stamp = stamp])
    BY <1>7 DEF Stamp
  <2>2. DOMAIN [jobs[j] EXCEPT !.stamp = stamp] = JobFields
    BY <1>0
  <2>3. jobs[j].pc \in Scanning \ {"list", "send", "gate"} /\ UNCHANGED <<plan, comments, flight, posted>>
    BY <1>7 DEF Stamp, Scanning, Late
  <2> QED BY <1>2, <2>1, <2>2, <2>3
<1>8. ASSUME NEW j \in DOMAIN jobs, AppendHistory(j) \/ WriteHtml(j) PROVE Shape' /\ StickyInv'
  <2>1. Go(j, jobs[j]) \/ Exit(j, jobs[j], 3)
    BY <1>8 DEF AppendHistory, WriteHtml
  <2>2. jobs[j].pc \in Scanning \ {"list", "send", "gate"} /\ UNCHANGED <<plan, comments, flight, posted>>
    BY <1>8 DEF AppendHistory, WriteHtml, Scanning, Late
  <2> QED BY <1>0, <1>2, <1>3, <2>1, <2>2
<1>9. ASSUME NEW j \in DOMAIN jobs, Import(j) \/ Gate(j) PROVE Shape' /\ StickyInv'
  <2>1. PICK code : Exit(j, jobs[j], code)
    BY <1>9 DEF Import, Gate
  <2>2. UNCHANGED <<plan, comments, flight, posted>>
    BY <1>9 DEF Import, Gate
  <2> QED BY <1>0, <1>3, <2>1, <2>2
<1>10. ASSUME NEW j \in DOMAIN jobs, Show(j) PROVE Shape' /\ StickyInv'
  <2>1. PICK seen, intact, code : Exit(j, [jobs[j] EXCEPT !.seen = seen, !.intact = intact], code)
    BY <1>10 DEF Show
  <2>2. DOMAIN [jobs[j] EXCEPT !.seen = seen, !.intact = intact] = JobFields
    BY <1>0
  <2>3. jobs[j].pc \notin Over /\ UNCHANGED <<plan, comments, flight, posted>>
    BY <1>10 DEF Show, Over
  <2> QED BY <1>3, <2>1, <2>2, <2>3
<1>11. ASSUME NEW j \in DOMAIN jobs, ListComments(j) PROVE Shape' /\ StickyInv'
  <2>1. jobs[j].pc = "list" /\ plan[j].kind = "scan" /\ UNCHANGED <<plan, comments, flight, posted>>
    BY <1>0, <1>11 DEF ListComments, Staged, Scanning, Late
  <2>2. CASE jobs' = [jobs EXCEPT ![j].pc = "gate"]
    <3> DEFINE new == [jobs[j] EXCEPT !.pc = "gate"]
    <3>1. jobs' = [jobs EXCEPT ![j] = new] /\ DOMAIN new = JobFields /\ new.pc = "gate"
      BY <1>0, <2>2
    <3> HIDE DEF new
    <3>2. Staged(plan[j], new)
      BY <2>1, <3>1 DEF Staged, Writing
    <3> QED BY <2>1, <3>1, <3>2, QuietStep DEF Over
  <2>3. CASE Go(j, [jobs[j] EXCEPT !.target = ChooseCommentAction(comments), !.seen = posted.landed])
    <3> DEFINE job == [jobs[j] EXCEPT !.target = ChooseCommentAction(comments), !.seen = posted.landed]
    <3>1. DOMAIN job = JobFields /\ job.target = ChooseCommentAction(comments) /\ job.seen = posted.landed
      BY <1>0
    <3>5. Go(j, job)
      BY <2>3
    <3> HIDE DEF job
    <3>2. PICK new : /\ jobs' = [jobs EXCEPT ![j] = new] /\ DOMAIN new = JobFields
                     /\ new.pc = Following(plan[j], "list")
                     /\ new.target = ChooseCommentAction(comments) /\ new.seen = posted.landed
      BY <2>1, <3>1, <3>5, GoesOn
    <3>3. Staged(plan[j], new)
      BY <2>1, <3>2 DEF Staged, Writing, Late
    <3>4. Fits(new.target, new.seen)
      <4>1. ChooseCommentAction(comments) \in 0..Len(comments)
        <5>1. comments \in Seq(Comment) /\ \A i \in Marked(comments) : i \in 0..Len(comments)
          BY DEF StickyInv, Marked
        <5> QED BY <5>1, ChosenIsFirst
      <4> QED BY <3>2, <4>1 DEF Fits, StickyInv
    <3> QED BY <2>1, <3>2, <3>3, <3>4, QuietStep DEF Over
  <2> QED BY <1>11, <2>2, <2>3 DEF ListComments
<1>12. ASSUME NEW j \in DOMAIN jobs, SendComment(j) PROVE Shape' /\ StickyInv'
  <2>1. /\ jobs[j].pc = "send" /\ plan[j].kind = "scan" /\ Go(j, jobs[j])
        /\ flight' = flight \cup {[job |-> j, target |-> jobs[j].target]}
        /\ UNCHANGED <<plan, comments, posted>>
    BY <1>0, <1>12 DEF SendComment, Staged, Scanning, Late
  <2>2. PICK new : /\ jobs' = [jobs EXCEPT ![j] = new] /\ DOMAIN new = JobFields /\ new.pc = "gate"
                   /\ new.seen = jobs[j].seen
    BY <1>0, <2>1, GoesOn
  <2>3. Staged(plan[j], new)
    BY <2>1, <2>2 DEF Staged, Writing
  <2>4. Shape'
    BY <2>1, <2>2, <2>3 DEF Shape
  <2>5. DOMAIN jobs' = DOMAIN jobs /\ jobs'[j] = new /\ \A i \in DOMAIN jobs \ {j} : jobs'[i] = jobs[i]
    BY <2>2
  <2>6. Fits(jobs[j].target, jobs[j].seen) /\ j \in Nat
    BY <1>0, <2>1 DEF StickyInv, Shape
  <2>7. \A i \in DOMAIN jobs' : jobs'[i].pc = "send" => Fits(jobs[i].target, jobs[i].seen)'
    BY <2>1, <2>2, <2>5 DEF StickyInv, Fits
  <2>8. \A request \in flight' :
          /\ request.job \in DOMAIN jobs' /\ request.job \in Nat /\ jobs'[request.job].pc \in Over
          /\ Fits(request.target, jobs[request.job].seen)'
    <3> SUFFICES ASSUME NEW request \in flight'
                 PROVE  /\ request.job \in DOMAIN jobs' /\ request.job \in Nat /\ jobs'[request.job].pc \in Over
                        /\ Fits(request.target, jobs[request.job].seen)'
      OBVIOUS
    <3>1. CASE request \in flight
      BY <2>1, <2>2, <2>5, <3>1 DEF StickyInv, Fits, Over
    <3>2. CASE request = [job |-> j, target |-> jobs[j].target]
      BY <2>1, <2>2, <2>5, <2>6, <3>2 DEF Fits, Over
    <3> QED BY <2>1, <3>1, <3>2
  <2> QED BY <2>1, <2>4, <2>7, <2>8 DEF StickyInv, Marked
<1>13. ASSUME NEW request \in flight, Land(request) PROVE Shape' /\ StickyInv'
  <2> DEFINE shown == [job |-> request.job, marker |-> TRUE]
             alone == jobs[request.job].seen = posted.landed
  <2>1. /\ flight' = flight \ {request} /\ comments' = Posted(comments, request.target, shown)
        /\ posted' = [by |-> request.job, alone |-> alone, landed |-> posted.landed + 1,
                      met |-> posted.met + (IF alone THEN 0 ELSE 1)]
        /\ UNCHANGED <<plan, jobs>>
    BY <1>13 DEF Land, Posted
  <2>2. /\ request.job \in DOMAIN jobs /\ request.job \in Nat /\ comments \in Seq(Comment)
        /\ request.target \in 0..Len(comments) /\ shown \in Comment /\ shown.marker
        /\ alone => request.target = ChooseCommentAction(comments)
    BY <1>13 DEF StickyInv, Fits, Comment
  <2> HIDE DEF shown, alone
  <2>3. /\ comments' \in Seq(Comment) /\ Len(comments') >= Len(comments)
        /\ IsFiniteSet(Marked(comments)') /\ Cardinality(Marked(comments)') <= Cardinality(Marked(comments)) + 1
        /\ alone => /\ Cardinality(Marked(comments)') <= 1
                       \/ Cardinality(Marked(comments)') <= Cardinality(Marked(comments))
                    /\ comments'[Min(Marked(comments)')] = shown
    BY <2>1, <2>2, PostedShows
  <2>4. posted.landed \in Nat /\ posted.met \in Nat /\ Cardinality(Marked(comments)) <= 1 + posted.met
        /\ Cardinality(Marked(comments)) \in Nat /\ Cardinality(Marked(comments)') \in Nat
    BY <2>3, FS_CardinalityType DEF StickyInv
  <2>5. posted' \in [by : Nat, alone : BOOLEAN, landed : Nat, met : Nat]
    BY <2>1, <2>2, <2>4 DEF alone
  <2>6. Cardinality(Marked(comments)') <= 1 + posted'.met
    BY <2>1, <2>3, <2>4
  <2>7. posted'.alone => comments'[Min(Marked(comments)')].job = posted'.by
    BY <2>1, <2>3 DEF shown
  <2>8. \A target, seen : Fits(target, seen) =>
          /\ seen \in Nat /\ seen <= posted'.landed /\ target \in 0..Len(comments') /\ seen # posted'.landed
    BY <2>1, <2>2, <2>3, <2>4, SMTT(30) DEF Fits
  <2>9. /\ \A j \in DOMAIN jobs' : jobs'[j].pc = "send" => Fits(jobs[j].target, jobs[j].seen)'
        /\ \A r \in flight' : /\ r.job \in DOMAIN jobs' /\ r.job \in Nat /\ jobs'[r.job].pc \in Over
                              /\ Fits(r.target, jobs[r.job].seen)'
    BY <2>1, <2>8 DEF StickyInv, Fits
  <2>10. Shape'
    BY <2>1 DEF Shape
  <2> QED BY <2>3, <2>5, <2>6, <2>7, <2>9, <2>10 DEF StickyInv
<1>14. ASSUME NEW request \in flight, Drop(request) PROVE Shape' /\ StickyInv'
  BY <1>14 DEF Drop, Shape, StickyInv, Fits, Marked
<1>15. ASSUME NEW j \in DOMAIN jobs, Kill(j) PROVE Shape' /\ StickyInv'
  <2>1. PICK pc \in {"killed", "cut"} : /\ jobs' = [jobs EXCEPT ![j].pc = pc]
                                        /\ pc = "cut" => jobs[j].pc = "append"
    BY <1>15 DEF Kill
  <2> DEFINE new == [jobs[j] EXCEPT !.pc = pc]
  <2>2. /\ jobs' = [jobs EXCEPT ![j] = new] /\ DOMAIN new = JobFields
        /\ new.pc = pc /\ new.seen = jobs[j].seen
    BY <1>0, <2>1
  <2> HIDE DEF new
  <2>3. Staged(plan[j], new)
    BY <2>2 DEF Staged, Scanning, Writing, Late
  <2>4. UNCHANGED <<plan, comments, flight, posted>>
    BY <1>15 DEF Kill
  <2>5. jobs[j].pc \in Over => new.pc \in Over
    BY <2>1, <2>2 DEF Over
  <2> QED BY <2>2, <2>3, <2>4, <2>5, QuietStep
<1>16. CASE Tick \/ UNCHANGED vars
  BY <1>16 DEF Tick, vars, Shape, StickyInv, Fits, Marked
<1> QED BY <1>1, <1>4, <1>5, <1>6, <1>7, <1>8, <1>9, <1>10, <1>11, <1>12, <1>13, <1>14, <1>15, <1>16 DEF Next

\* At the start.
LEMMA StickyInit == Init => Shape /\ StickyInv
<1> SUFFICES ASSUME NEW s \in Scenarios,
                    /\ plan = s.jobs /\ comments = s.comments /\ flight = {}
                    /\ jobs = [j \in DOMAIN s.jobs |-> Waiting]
                    /\ posted = [by |-> 0, alone |-> FALSE, landed |-> 0, met |-> 0]
             PROVE  Shape /\ StickyInv
  BY DEF Init
<1>1. Shape
  BY CiAssumption DEF Shape, Staged, JobFields, Waiting, Scanning, Writing, Late
<1>2. comments \in Seq(Comment) /\ \A i, k \in Marked(comments) : i = k
  BY CiAssumption DEF Comment, Marked
<1>3. IsFiniteSet(Marked(comments)) /\ Cardinality(Marked(comments)) <= 1
  <2>1. CASE Marked(comments) = {}
    BY <2>1, FS_EmptySet
  <2>2. CASE Marked(comments) # {}
    <3>1. PICK i : Marked(comments) = {i}
      BY <1>2, <2>2
    <3>2. IsFiniteSet({i}) /\ Cardinality({i}) = 1
      BY FS_Singleton
    <3> QED BY <3>1, <3>2
  <2> QED BY <2>1, <2>2
<1> QED BY <1>1, <1>2, <1>3 DEF StickyInv, Waiting

\* The invariant of the sticky comment, of every behaviour.
LEMMA StickyInvariant == Spec => [](Shape /\ StickyInv)
BY StickyInit, StickyStep, PTL DEF Spec

\* Whatever jobs run, are killed, and have their requests delayed or lost: after a request that met
\* no other the first comment with the marker is that job's, and there is at most one for each
\* request that did meet another.
THEOREM CommentShowsLatest == Spec => []StickyShowsLatest
<1>1. StickyInv => StickyShowsLatest
  BY DEF StickyInv, StickyShowsLatest, Marked
<1> QED BY <1>1, StickyInvariant, PTL
-----------------------------------------------------------------------------
(* The gates and the fix order *)

\* What is new of the findings of a job with these options, and the modules it scores.
NewOf(o, job) == LET b == job.accepted
                 IN {f \in job.found : \A g \in b.set : ~SameAs(f, Root(o), g, b)}

ModulesOf(o, left) == IF o.baseline THEN Modules(left) ELSE o.modules

OfModule(set, m) == {f \in set : f.module = m}

\* What a scan has found.
Found(o, job) ==
  /\ job.found \subseteq Under(Root(o)) /\ Sortable(job.found) /\ o.minScore \in 0..1000
  /\ \A f \in job.found : f.module \in o.modules

\* What is left of it, and the scores.
Rescored(o, job) == job.left = NewOf(o, job) /\ job.scores = ScorePerModule(job.left, ModulesOf(o, job.left))

Ranked(job) ==
  DOMAIN job.scores # {} =>
    /\ Sortable(job.left)
    /\ \A m \in DOMAIN job.scores : /\ job.scores[m] = Overall(OfModule(job.left, m), FALSE)
                                    /\ job.ranked[m] = RankFixes(OfModule(job.left, m))

CodeFits(o, job) ==
  LET new   == NewOf(o, job)
      gates == \E f \in new : f.confidence = "high" /\ f.tier \in {"P0", "P1"}
                              /\ SeverityRank[f.severity] >= SeverityRank[o.failOn]
      poor  == \E m \in Modules(new) : Overall({f \in new : f.module = m}, FALSE) < o.minScore
  IN job.code = IF gates THEN 1 ELSE IF poor THEN 2 ELSE 0

GateJob(o, job) ==
  /\ job.pc \in {"import", "show"} => o.kind = job.pc
  /\ job.pc \in Scanning => Found(o, job)
  /\ job.pc \in Late => Rescored(o, job)
  /\ Ranked(job)
  /\ job.pc = "ended" /\ o.kind = "scan" /\ ~o.write /\ job.code # 3 => CodeFits(o, job)

GateInv == WrittenFrom(baseline, origin) /\ \A j \in DOMAIN plan : GateJob(plan[j], jobs[j])

\* What follows a beginning of a sequence is what is left after its length; and it is what follows
\* when more is put before.
Continues(path, root, i) == path = root \o SubSeq(path, i, Len(path))

\* What continues the root begins right behind it, also when seen from a folder above.
LEMMA RestOf ==
  ASSUME NEW S, NEW root \in Seq(S), NEW path \in Seq(S), NEW i \in 1..Len(path),
         Continues(path, root, i), NEW at \in Seq(S)
  PROVE  /\ i = Len(root) + 1
         /\ Continues(at \o path, at \o root, Len(at) + i)
         /\ Len(at) + i \in 1..Len(at \o path)
<1> DEFINE rest == SubSeq(path, i, Len(path))
<1>1. Len(path) \in Nat /\ Len(root) \in Nat /\ Len(at) \in Nat
  OBVIOUS
<1>2. rest \in Seq(S) /\ Len(rest) = Len(path) - i + 1
  <2>1. \A k \in i..Len(path) : path[k] \in S
    BY ElementOfSeq
  <2> QED BY <1>1, <2>1, SubSeqProperties
<1>3. Len(at \o path) = Len(at) + Len(path) /\ at \o path \in Seq(S)
  BY ConcatProperties
<1>4. i = Len(root) + 1
  <2>1. path = root \o rest
    BY DEF Continues
  <2> HIDE DEF rest
  <2>2. Len(root \o rest) = Len(root) + Len(rest)
    BY <1>2, ConcatProperties
  <2> QED BY <1>1, <1>2, <2>1, <2>2
<1>5. at \o path = (at \o root) \o rest
  <2>1. path = root \o rest
    BY DEF Continues
  <2> HIDE DEF rest
  <2>2. at \in Seq(S) /\ root \in Seq(S) /\ rest \in Seq(S)
    BY <1>2
  <2>3. (at \o root) \o rest = at \o (root \o rest)
    BY <2>2
  <2> QED BY <2>1, <2>3
<1>6. SubSeq(at \o path, Len(at) + i, Len(at) + Len(path)) = rest
  <2> DEFINE m == Len(at) + i
             n == Len(at) + Len(path)
  <2>1. m \in Len(at) + 1..Len(at) + Len(path) /\ n \in Len(at) + 1..Len(at) + Len(path)
        /\ m - Len(at) = i /\ n - Len(at) = Len(path)
    BY <1>1
  <2> HIDE DEF m, n
  <2>2. SubSeq(at \o path, m, n) = SubSeq(path, m - Len(at), n - Len(at))
    BY <2>1, SubSeqOfConcat2
  <2> QED BY <2>1, <2>2 DEF m, n
<1>7. Continues(at \o path, at \o root, Len(at) + i)
  <2> DEFINE all == at \o path
             from == Len(at) + i
  <2>1. all = (at \o root) \o SubSeq(all, from, Len(all))
    BY <1>3, <1>5, <1>6
  <2> HIDE DEF all, from
  <2>2. Continues(all, at \o root, from)
    BY <2>1 DEF Continues
  <2> QED BY <2>2 DEF all, from
<1> HIDE DEF rest
<1> QED BY <1>1, <1>3, <1>4, <1>7

\* The root of a job is a path: where it is called, and its addons folder.
LEMMA RootIsPath ==
  ASSUME NEW o, Possible(o)
  PROVE  /\ o.at \in Seq(STRING) /\ Root(o) \in Seq(STRING)
         /\ (IF o.sub THEN <<"addons">> ELSE <<>>) \in Seq(STRING)
         /\ Root(o) = o.at \o (IF o.sub THEN <<"addons">> ELSE <<>>)
<1> DEFINE S == STRING
<1>1. o.at \in Seq(STRING) /\ Root(o) \in Seq(STRING)
  BY DEF Possible
<1>2. CASE o.sub
  <2>1. PICK e : e = "addons"
    OBVIOUS
  <2>2. Append(o.at, e) \in Seq(S)
    BY <1>1, <1>2, <2>1 DEF Root
  <2>3. o.at \in Seq(S)
    BY <1>1
  <2> HIDE DEF S
  <2>4. e \in S
    <3>1. Append(o.at, e)[Len(o.at) + 1] = e /\ Len(o.at) + 1 \in 1..Len(Append(o.at, e))
      BY <2>3
    <3> QED BY <2>2, <3>1, ElementOfSeq
  <2>5. Append(o.at, e) = o.at \o <<e>> /\ <<e>> \in Seq(S)
    BY <2>3, <2>4, AppendIsConcat
  <2> QED BY <1>1, <1>2, <2>1, <2>5 DEF Root, S
<1>3. CASE ~o.sub
  <2>1. o.at \in Seq(S)
    BY <1>1
  <2> HIDE DEF S
  <2>2. <<>> \in Seq(S) /\ o.at = o.at \o <<>>
    BY <2>1, ConcatEmptySeq
  <2> QED BY <1>1, <1>3, <2>2 DEF Root, S
<1> QED BY <1>2, <1>3

\* What lies under a root has one path from there.
LEMMA OnePath ==
  ASSUME NEW root \in Seq(STRING), NEW f \in Under(root)
  PROVE  Suffix(f.path, root) = RelPath(f.path, root)
<1> DEFINE path == f.path
           rests == {SubSeq(path, i, Len(path)) : i \in 1..Len(path)}
<1>1. path \in Seq(STRING) /\ \E rest \in rests : path = root \o rest
  BY DEF Under, Diagnostic
<1>2. ASSUME NEW rest \in rests, path = root \o rest PROVE rest = RelPath(path, root)
  <2>1. PICK i \in 1..Len(path) : rest = SubSeq(path, i, Len(path))
    OBVIOUS
  <2> DEFINE S == STRING
  <2>2. path \in Seq(S) /\ root \in Seq(S)
    BY <1>1
  <2> HIDE DEF path, S, rests
  <2>3. i = Len(root) + 1
    BY <1>2, <2>1, <2>2, RestOf DEF Continues
  <2> QED BY <2>1, <2>3 DEF RelPath
<1> HIDE DEF path, rests
<1>3. \E rest \in rests : path = root \o rest /\ rest = RelPath(path, root)
  BY <1>1, <1>2
<1>4. Suffix(path, root) = RelPath(path, root)
  <2>1. Suffix(path, root) = CHOOSE rest \in rests : path = root \o rest
    BY DEF Suffix, rests
  <2> QED BY <1>2, <1>3, <2>1
<1> QED BY <1>4 DEF path

\* A finding is left out exactly when it is one of those that the file was written from.
LEMMA AcceptsSame ==
  ASSUME NEW file, NEW from, WrittenFrom(file, from),
         NEW root \in Seq(STRING), NEW set \in SUBSET Under(root)
  PROVE  FilterAgainstBaseline(set, LoadBaseline(file), root)
           = {f \in set : \A g \in from.set : ~SameAs(f, root, g, from)}
<1> DEFINE loaded == LoadBaseline(file)
           in(f)  == FindingIdentity(f, loaded.version, root) \in loaded.ids
           old(f) == loaded.version = 1 /\ LegacyIdentity(f) \in loaded.ids
           same(f, g) == SameAs(f, root, g, from)
<1>1. CASE file.state # "whole"
  <2>1. loaded.version = 2 /\ loaded.ids = {} /\ from.set = {}
    BY <1>1 DEF LoadBaseline, NoFile, WrittenFrom
  <2> QED BY <2>1 DEF FilterAgainstBaseline
<1>2. CASE file.state = "whole"
  <2>1. /\ loaded = file /\ file.version \in 1..3 /\ from.version = file.version
        /\ from.root \in Seq(STRING) /\ from.set \subseteq Under(from.root)
        /\ file.ids = {IF file.version = 1 THEN LegacyIdentity(f) ELSE FindingIdentity(f, file.version, from.root) :
                       f \in from.set}
    BY <1>2 DEF LoadBaseline, WrittenFrom
  <2>2. ASSUME NEW f \in set PROVE in(f) \/ old(f) <=> \E g \in from.set : same(f, g)
    <3>1. CASE file.version = 1
      <4>1. loaded.ids = {LegacyIdentity(g) : g \in from.set} /\ loaded.version = 1
        BY <2>1, <3>1
      <4>2. ASSUME NEW g \in from.set
            PROVE  LegacyIdentity(f) = LegacyIdentity(g) <=> same(f, g)
        <5>1. from.version = 1
          BY <2>1, <3>1
        <5>2. LegacyIdentity(f) = LegacyIdentity(g) <=>
                f.rule = g.rule /\ f.module = g.module /\ f.text = g.text /\ f.path = g.path
          BY DEF LegacyIdentity, Identity
        <5>3. SameAs(f, root, g, from) <=>
                f.rule = g.rule /\ f.module = g.module /\ f.text = g.text /\ f.path = g.path
          BY <5>1 DEF SameAs
        <5> QED BY <5>2, <5>3
      <4>3. in(f) => old(f)
        <5> SUFFICES ASSUME in(f) PROVE old(f)
          OBVIOUS
        <5>0. FindingIdentity(f, 1, root) \in {LegacyIdentity(g) : g \in from.set}
          BY <4>1
        <5>1. PICK g \in from.set : Identity(f, f.path, f.title) = Identity(g, g.path, "")
          <6>1. FindingIdentity(f, 1, root) = Identity(f, f.path, f.title)
            BY DEF FindingIdentity
          <6>2. PICK g \in from.set : FindingIdentity(f, 1, root) = LegacyIdentity(g)
            BY <5>0
          <6> QED BY <6>1, <6>2 DEF LegacyIdentity
        <5>2. f.title = ""
          BY <5>1 DEF Identity
        <5>3. LegacyIdentity(f) = LegacyIdentity(g)
          BY <5>1, <5>2 DEF Identity, LegacyIdentity
        <5>4. LegacyIdentity(g) \in loaded.ids
          BY <4>1
        <5> QED BY <4>1, <5>3, <5>4
      <4>4. old(f) <=> \E g \in from.set : LegacyIdentity(f) = LegacyIdentity(g)
        BY <4>1
      <4> QED BY <4>2, <4>3, <4>4
    <3>2. CASE file.version = 2
      <4>1. loaded.ids = {FindingIdentity(g, 2, from.root) : g \in from.set} /\ loaded.version = 2
        BY <2>1, <3>2
      <4>2. ASSUME NEW g \in from.set
            PROVE  FindingIdentity(f, 2, root) = FindingIdentity(g, 2, from.root) <=> same(f, g)
        BY <2>1, <3>2 DEF FindingIdentity, Identity, SameAs
      <4>3. in(f) <=> \E g \in from.set : FindingIdentity(f, 2, root) = FindingIdentity(g, 2, from.root)
        BY <4>1
      <4>4. ~old(f)
        BY <4>1
      <4> QED BY <4>2, <4>3, <4>4
    <3>3. CASE file.version = 3
      <4>1. loaded.ids = {FindingIdentity(g, 3, from.root) : g \in from.set} /\ loaded.version = 3
        BY <2>1, <3>3
      <4>2. ASSUME NEW g \in from.set
            PROVE  FindingIdentity(f, 3, root) = FindingIdentity(g, 3, from.root) <=> same(f, g)
        <5>1. Suffix(f.path, root) = RelPath(f.path, root)
          BY OnePath
        <5>2. Suffix(g.path, from.root) = RelPath(g.path, from.root)
          BY <2>1, OnePath
        <5> QED BY <2>1, <3>3, <5>1, <5>2 DEF FindingIdentity, Identity, SameAs
      <4>3. in(f) <=> \E g \in from.set : FindingIdentity(f, 3, root) = FindingIdentity(g, 3, from.root)
        BY <4>1
      <4>4. ~old(f)
        BY <4>1
      <4> QED BY <4>2, <4>3, <4>4
    <3> QED BY <2>1, <3>1, <3>2, <3>3
  <2> HIDE DEF in, old, same
  <2>3. {f \in set : ~in(f) /\ ~old(f)} = {f \in set : \A g \in from.set : ~same(f, g)}
    BY <2>2
  <2> QED BY <2>3 DEF FilterAgainstBaseline, in, old, same
<1> QED BY <1>1, <1>2

\* A scan finds what is under its root.
LEMMA CheckoutFound ==
  ASSUME NEW o, Possible(o), o.kind = "scan"
  PROVE  /\ Checkout(o, o.tree) \subseteq Under(Root(o)) /\ Sortable(Checkout(o, o.tree))
         /\ \A f \in Checkout(o, o.tree) : f.module \in o.modules
<1> DEFINE at == o.at
           move(f) == [f EXCEPT !.path = at \o @]
           sub == IF o.sub THEN <<"addons">> ELSE <<>>
<1>1. /\ at \in Seq(STRING) /\ sub \in Seq(STRING) /\ o.tree \subseteq Under(sub)
      /\ IsFiniteSet(o.tree) /\ Root(o) = at \o sub
  <2>1. o.tree \subseteq Under(sub) /\ IsFiniteSet(o.tree)
    BY DEF Possible
  <2> QED BY <2>1, RootIsPath
<1>2. \A f \in Diagnostic : move(f) \in Diagnostic /\ move(f).path = at \o f.path
  <2> SUFFICES ASSUME NEW f \in Diagnostic PROVE move(f) \in Diagnostic /\ move(f).path = at \o f.path
    OBVIOUS
  <2> DEFINE S == STRING
             path == at \o f.path
  <2>1. f.path \in Seq(S) /\ at \in Seq(S)
    BY <1>1 DEF Diagnostic
  <2>2. path \in Seq(S)
    <3> HIDE DEF S
    <3> QED BY <2>1, ConcatProperties
  <2>3. path \in Seq(STRING)
    BY <2>2
  <2> HIDE DEF path
  <2>4. [f EXCEPT !.path = path] \in Diagnostic /\ [f EXCEPT !.path = path].path = path
    BY <2>3 DEF Diagnostic
  <2> QED BY <2>4 DEF path
<1>3. ASSUME NEW f \in o.tree
      PROVE  /\ move(f) \in Under(Root(o)) /\ move(f).tier \in ToSet(Tiers) /\ move(f).file \in ToSet(Names)
             /\ move(f).rule \in ToSet(Names) /\ move(f).line \in Nat
             /\ move(f).fixable \/ move(f).rule \in DOMAIN Effort
             /\ move(f).module \in o.modules
  <2>1. f \in Diagnostic /\ f \in Under(sub)
    BY <1>1 DEF Under
  <2>2. move(f) \in Under(Root(o))
    <3>1. PICK i \in 1..Len(f.path) : f.path = sub \o SubSeq(f.path, i, Len(f.path))
      BY <2>1 DEF Under
    <3> DEFINE path == at \o f.path
               k    == Len(at) + i
               S    == STRING
    <3>2. f.path \in Seq(S) /\ at \in Seq(S) /\ sub \in Seq(S)
      BY <1>1, <2>1 DEF Diagnostic
    <3>3. k \in 1..Len(path) /\ path = (at \o sub) \o SubSeq(path, k, Len(path))
      <4>1. PICK p : p = f.path
        OBVIOUS
      <4>2. Continues(p, sub, i)
        BY <3>1, <4>1 DEF Continues
      <4>3. at \in Seq(S) /\ sub \in Seq(S) /\ p \in Seq(S) /\ i \in 1..Len(p)
        BY <3>2, <4>1
      <4> HIDE DEF S, at, sub
      <4>4. Continues(at \o p, at \o sub, Len(at) + i) /\ Len(at) + i \in 1..Len(at \o p)
        BY <4>2, <4>3, RestOf
      <4> QED BY <4>1, <4>4 DEF Continues
    <3>4. move(f) \in Diagnostic /\ move(f).path = path
      BY <1>2, <2>1
    <3> HIDE DEF path, k, move
    <3>5. \E r \in {SubSeq(path, x, Len(path)) : x \in 1..Len(path)} : path = Root(o) \o r
      BY <1>1, <3>3
    <3> QED BY <3>4, <3>5 DEF Under
  <2>3. /\ move(f).tier = f.tier /\ move(f).file = f.file /\ move(f).rule = f.rule
        /\ move(f).line = f.line /\ move(f).fixable = f.fixable /\ move(f).module = f.module
    BY <2>1 DEF Diagnostic
  <2>4. f.tier \in ToSet(Tiers) /\ f.line \in Nat
    BY <2>1 DEF Diagnostic
  <2> QED BY <2>2, <2>3, <2>4 DEF Possible
<1>4. Checkout(o, o.tree) = {move(f) : f \in o.tree}
  BY DEF Checkout
<1> HIDE DEF move
<1>5. IsFiniteSet({move(f) : f \in o.tree})
  <2> DEFINE all == {move(f) : f \in o.tree}
  <2>1. [f \in o.tree |-> move(f)] \in Surjection(o.tree, all)
    BY DEF Surjection
  <2> HIDE DEF all
  <2>2. IsFiniteSet(all)
    BY <1>1, <2>1, FS_Surjection
  <2> QED BY <2>2 DEF all
<1> QED BY <1>3, <1>4, <1>5 DEF Sortable

\* What is left of what was found can be scored, module by module.
Parted(T) ==
  /\ Sortable(T) /\ \A m : Sortable(OfModule(T, m))
  /\ \A m : OfModule(T, m) = {} => Overall(OfModule(T, m), FALSE) = 1000

\* A part of a sortable set is sortable, and so is the share of each module in it.
LEMMA PartsSortable ==
  ASSUME NEW set, Sortable(set), NEW T \in SUBSET set
  PROVE  Parted(T)
<1>1. \A U \in SUBSET set : Sortable(U)
  BY FS_Subset DEF Sortable
<1>2. \A m : OfModule(T, m) \in SUBSET set
  BY DEF OfModule
<1> DEFINE score(U) == Overall(U, FALSE)
<1>3. score({}) = 1000
  BY CleanScore
<1>4. ASSUME NEW m
      PROVE  Sortable(OfModule(T, m)) /\ (OfModule(T, m) = {} => Overall(OfModule(T, m), FALSE) = 1000)
  <2> DEFINE U == OfModule(T, m)
  <2>1. U \in SUBSET set
    BY <1>2
  <2> HIDE DEF U, score
  <2>2. Sortable(U) /\ (U = {} => score(U) = 1000)
    BY <1>1, <1>3, <2>1
  <2> QED BY <2>2, ZenonT(60) DEF U, score
<1>5. Sortable(T)
  BY <1>1
<1>6. \A m : Sortable(OfModule(T, m))
  BY <1>4
<1>7. \A m : OfModule(T, m) = {} => Overall(OfModule(T, m), FALSE) = 1000
  BY <1>4, ZenonT(60)
<1> HIDE DEF score
<1> QED BY <1>5, <1>6, <1>7, Zenon DEF Parted

\* The gates tell what is new.
LEMMA GatesTell ==
  ASSUME NEW o, NEW job, Found(o, job), Rescored(o, job)
  PROVE  /\ ModulesOf(o, job.left) = {} =>
              /\ ~\E f \in NewOf(o, job) : TRUE
              /\ Modules(NewOf(o, job)) = {}
         /\ (\E m \in DOMAIN job.scores : job.scores[m] < o.minScore) <=>
              \E m \in Modules(NewOf(o, job)) : Overall({f \in NewOf(o, job) : f.module = m}, FALSE) < o.minScore
         /\ HasSeverityAtOrAbove(FilterForSurface(job.left, CISurface), o.failOn) <=>
              \E f \in NewOf(o, job) : f.confidence = "high" /\ f.tier \in {"P0", "P1"}
                                       /\ SeverityRank[f.severity] >= SeverityRank[o.failOn]
<1> DEFINE left == job.left
           modules == ModulesOf(o, left)
<1>1. left = NewOf(o, job) /\ left \in SUBSET job.found /\ job.scores = ScorePerModule(left, modules)
  BY DEF Rescored, NewOf
<1>2. Modules(left) \subseteq modules
  BY <1>1 DEF ModulesOf, Found, Modules
<1>3. \A m \in modules \ Modules(left) : Overall(OfModule(left, m), FALSE) = 1000
  <2>1. \A m : m \notin Modules(left) => OfModule(left, m) = {}
    BY DEF Modules, OfModule
  <2>2. Sortable(job.found)
    BY DEF Found
  <2>3. Parted(left)
    BY <1>1, <2>2, PartsSortable
  <2> HIDE DEF left
  <2>4. \A m : OfModule(left, m) = {} => Overall(OfModule(left, m), FALSE) = 1000
    BY <2>3, Zenon DEF Parted
  <2> QED BY <2>1, <2>4, ZenonT(30)
<1>4. DOMAIN job.scores = modules /\ \A m \in modules : job.scores[m] = Overall(OfModule(left, m), FALSE)
  BY <1>1 DEF ScorePerModule, OfModule
<1>5. o.minScore \in 0..1000
  BY DEF Found
<1>6. (\E m \in DOMAIN job.scores : job.scores[m] < o.minScore) <=>
        \E m \in Modules(left) : Overall(OfModule(left, m), FALSE) < o.minScore
  <2> DEFINE score(m) == Overall(OfModule(left, m), FALSE)
             min == o.minScore
             scores == job.scores
  <2>1. ~(1000 < min)
    BY <1>5
  <2>2. \A m \in modules \ Modules(left) : score(m) = 1000
    BY <1>3
  <2>3. DOMAIN scores = modules /\ \A m \in modules : scores[m] = score(m)
    BY <1>4
  <2> HIDE DEF left, modules, score, min, scores
  <2>4. (\E m \in DOMAIN scores : scores[m] < min) <=> \E m \in Modules(left) : score(m) < min
    BY <1>2, <2>1, <2>2, <2>3
  <2> QED BY <2>4 DEF score, min, scores
<1>7. HasSeverityAtOrAbove(FilterForSurface(left, CISurface), o.failOn) <=>
        \E f \in left : f.confidence = "high" /\ f.tier \in {"P0", "P1"}
                        /\ SeverityRank[f.severity] >= SeverityRank[o.failOn]
  <2>1. \A f \in left : f.confidence \in {"high", "medium", "low"}
    BY <1>1 DEF Found, Under, Diagnostic
  <2>2. \A f \in left : ConfidenceRank(f.confidence) >= ConfidenceRank("high") <=> f.confidence = "high"
    BY <2>1 DEF ConfidenceRank
  <2>3. FilterForSurface(left, CISurface) = {f \in left : f.confidence = "high" /\ f.tier \in {"P0", "P1"}}
    BY <2>2, CiAssumption DEF FilterForSurface
  <2> QED BY <2>3 DEF HasSeverityAtOrAbove
<1>8. modules = {} => left = {} /\ Modules(left) = {}
  BY <1>2 DEF Modules
<1> QED BY <1>1, <1>6, <1>7, <1>8 DEF OfModule

\* A step of a job that leaves its findings and scores alone.
Same(job, new) ==
  /\ new.found = job.found /\ new.left = job.left /\ new.scores = job.scores
  /\ new.ranked = job.ranked /\ new.accepted = job.accepted

\* A job that moves without touching what the gate reads keeps what is true of it.
LEMMA GateKeeps ==
  ASSUME NEW o, NEW job, NEW new, GateJob(o, job), Same(job, new)
  PROVE  /\ Ranked(new) /\ (Found(o, job) => Found(o, new)) /\ (Rescored(o, job) => Rescored(o, new))
         /\ new.pc \in {"killed", "cut"} \/ (new.pc = "ended" /\ (new.code = 3 \/ o.kind # "scan" \/ o.write)) =>
              GateJob(o, new)
         /\ job.pc \in Late /\ new.pc \in Late => GateJob(o, new)
<1>1. Ranked(new) /\ (Found(o, job) => Found(o, new)) /\ (Rescored(o, job) => Rescored(o, new))
  <2>1. Ranked(new)
    BY DEF GateJob, Same, Ranked
  <2>2. Found(o, job) => Found(o, new)
    BY DEF Same, Found
  <2>3. Rescored(o, job) => Rescored(o, new)
    BY DEF Same, Rescored, NewOf
  <2> QED BY <2>1, <2>2, <2>3
<1>2. ASSUME new.pc \in {"killed", "cut"} \/ (new.pc = "ended" /\ (new.code = 3 \/ o.kind # "scan" \/ o.write))
      PROVE  GateJob(o, new)
  <2>1. new.pc \notin {"import", "show"} /\ new.pc \notin Scanning /\ new.pc \notin Late
    BY <1>2 DEF Scanning, Writing, Late
  <2>2. ~(new.pc = "ended" /\ o.kind = "scan" /\ ~o.write /\ new.code # 3)
    BY <1>2
  <2> QED BY <1>1, <2>1, <2>2 DEF GateJob
<1>3. ASSUME job.pc \in Late, new.pc \in Late PROVE GateJob(o, new)
  <2>1. new.pc \notin {"import", "show", "ended"} /\ job.pc \in Scanning
    BY <1>3 DEF Scanning, Late
  <2> QED BY <1>1, <1>3, <2>1 DEF GateJob
<1> QED BY <1>1, <1>2, <1>3

\* So does the whole invariant, when the baseline is untouched.
LEMMA GateQuiet ==
  ASSUME Shape, GateInv, NEW j \in DOMAIN jobs, NEW new, GateJob(plan[j], new),
         jobs' = [jobs EXCEPT ![j] = new], plan' = plan, WrittenFrom(baseline', origin')
  PROVE  GateInv'
<1>1. DOMAIN jobs = DOMAIN plan /\ jobs'[j] = new /\ \A i \in DOMAIN jobs \ {j} : jobs'[i] = jobs[i]
  BY DEF Shape
<1>2. \A i \in DOMAIN plan' : GateJob(plan'[i], jobs'[i])
  BY <1>1 DEF GateInv
<1> QED BY <1>2 DEF GateInv

\* The fields of a job that a stage changes are none of these.
LEMMA SameFields ==
  ASSUME NEW job, DOMAIN job = JobFields, NEW new, \A x \in JobFields \ {"pc", "code"} : new[x] = job[x]
  PROVE  Same(job, new)
  BY FieldNames DEF Same

\* A stage after the scores.
LEMMA GateLate ==
  ASSUME Shape, GateInv, NEW j \in DOMAIN jobs, NEW job, DOMAIN job = JobFields, Same(jobs[j], job),
         jobs[j].pc \in Late \ {"gate"}, plan' = plan, UNCHANGED <<baseline, origin>>,
         Go(j, job) \/ Exit(j, job, 3)
  PROVE  GateInv'
<1>1. GateJob(plan[j], jobs[j]) /\ WrittenFrom(baseline', origin')
  BY DEF GateInv, Shape
<1>2. CASE Go(j, job)
  <2>1. PICK new : /\ jobs' = [jobs EXCEPT ![j] = new] /\ DOMAIN new = JobFields
                   /\ new.pc = Following(plan[j], jobs[j].pc)
                   /\ \A x \in JobFields \ {"pc"} : new[x] = job[x]
    BY <1>2, GoesOn
  <2>2. new.pc \in Late
    BY <2>1, StageOrder DEF Late
  <2>3. Same(job, new)
    BY <2>1, SameFields
  <2>4. Same(jobs[j], new)
    BY <2>3 DEF Same
  <2>5. GateJob(plan[j], new)
    BY <1>1, <2>2, <2>4, GateKeeps
  <2> QED BY <1>1, <2>1, <2>5, GateQuiet
<1>3. CASE Exit(j, job, 3)
  <2>1. PICK new : /\ jobs' = [jobs EXCEPT ![j] = new] /\ DOMAIN new = JobFields
                   /\ new.pc = "ended" /\ new.code = 3
                   /\ \A x \in JobFields \ {"pc", "code"} : new[x] = job[x]
    BY <1>3, Ends
  <2>3. Same(job, new)
    BY <2>1, SameFields
  <2>4. Same(jobs[j], new)
    BY <2>3 DEF Same
  <2>5. GateJob(plan[j], new)
    BY <1>1, <2>1, <2>4, GateKeeps
  <2> QED BY <1>1, <2>1, <2>5, GateQuiet
<1> QED BY <1>2, <1>3

\* What Rescore makes of what was found.
LEMMA RescoreMakes ==
  ASSUME NEW o, Possible(o), NEW job, Found(o, job), NEW file, NEW from, WrittenFrom(file, from),
         NEW new, new.found = job.found,
         new.left = IF o.baseline THEN FilterAgainstBaseline(job.found, LoadBaseline(file), Root(o)) ELSE job.found,
         new.scores = ScorePerModule(new.left, ModulesOf(o, new.left)),
         new.ranked = [m \in ModulesOf(o, new.left) |-> RankFixes(OfModule(new.left, m))],
         new.accepted = IF o.baseline THEN from ELSE Nobody
  PROVE  Found(o, new) /\ Rescored(o, new) /\ Ranked(new)
<1>1. Found(o, new)
  BY DEF Found
<1>2. new.left = NewOf(o, new)
  <2>1. CASE o.baseline
    <3>1. Root(o) \in Seq(STRING) /\ job.found \in SUBSET Under(Root(o))
      BY RootIsPath DEF Found
    <3>2. FilterAgainstBaseline(job.found, LoadBaseline(file), Root(o))
            = {f \in job.found : \A g \in from.set : ~SameAs(f, Root(o), g, from)}
      BY <3>1, AcceptsSame
    <3>3. new.accepted = from /\ new.left = FilterAgainstBaseline(job.found, LoadBaseline(file), Root(o))
      BY <2>1
    <3> QED BY <3>2, <3>3 DEF NewOf
  <2>2. CASE ~o.baseline
    <3>1. new.accepted.set = {} /\ new.left = job.found
      BY <2>2 DEF Nobody
    <3> QED BY <3>1 DEF NewOf
  <2> QED BY <2>1, <2>2
<1>3. Parted(new.left)
  <2>1. Sortable(job.found) /\ new.left \in SUBSET job.found
    BY <1>2 DEF Found, NewOf
  <2> QED BY <2>1, PartsSortable
<1>4. \A m \in DOMAIN new.scores : /\ new.scores[m] = Overall(OfModule(new.left, m), FALSE)
                                   /\ new.ranked[m] = RankFixes(OfModule(new.left, m))
  <2> DEFINE modules == ModulesOf(o, new.left)
             order(m) == RankFixes(OfModule(new.left, m))
  <2>1. new.scores = [m \in modules |-> Overall(OfModule(new.left, m), FALSE)]
    BY DEF ScorePerModule, OfModule
  <2>2. new.ranked = [m \in modules |-> order(m)]
    OBVIOUS
  <2> HIDE DEF modules, order
  <2>3. \A m \in DOMAIN new.scores : /\ new.scores[m] = Overall(OfModule(new.left, m), FALSE)
                                     /\ new.ranked[m] = order(m)
    BY <2>1, <2>2
  <2> QED BY <2>3 DEF order
<1>5. Sortable(new.left)
  BY <1>3 DEF Parted
<1> QED BY <1>1, <1>2, <1>4, <1>5 DEF Rescored, Ranked

\* The exit codes of the gates, and of a scan with no module left.
LEMMA CodesFit ==
  ASSUME NEW o, NEW job, Found(o, job), Rescored(o, job),
         \/ ModulesOf(o, job.left) = {} /\ job.code = 0
         \/ job.code = IF HasSeverityAtOrAbove(FilterForSurface(job.left, CISurface), o.failOn) THEN 1
                       ELSE IF \E m \in DOMAIN job.scores : job.scores[m] < o.minScore THEN 2 ELSE 0
  PROVE  CodeFits(o, job)
<1> DEFINE gates == \E f \in NewOf(o, job) : f.confidence = "high" /\ f.tier \in {"P0", "P1"}
                                              /\ SeverityRank[f.severity] >= SeverityRank[o.failOn]
           poor  == \E m \in Modules(NewOf(o, job)) : Overall({f \in NewOf(o, job) : f.module = m}, FALSE) < o.minScore
           shown == HasSeverityAtOrAbove(FilterForSurface(job.left, CISurface), o.failOn)
           low   == \E m \in DOMAIN job.scores : job.scores[m] < o.minScore
<1>1. /\ ModulesOf(o, job.left) = {} => (~\E f \in NewOf(o, job) : TRUE) /\ Modules(NewOf(o, job)) = {}
      /\ low <=> poor
      /\ shown <=> gates
  BY GatesTell
<1>2. ModulesOf(o, job.left) = {} => ~gates /\ ~poor
  BY <1>1
<1>3. (ModulesOf(o, job.left) = {} /\ job.code = 0) \/ job.code = IF shown THEN 1 ELSE IF low THEN 2 ELSE 0
  OBVIOUS
<1>4. CodeFits(o, job) <=> job.code = IF gates THEN 1 ELSE IF poor THEN 2 ELSE 0
  BY DEF CodeFits
<1> HIDE DEF gates, poor, shown, low
<1> QED BY <1>1, <1>2, <1>3, <1>4

\* Every step keeps what is said of the gates.
LEMMA GateStep == Shape /\ GateInv /\ [Next]_vars => GateInv'
<1> SUFFICES ASSUME Shape, GateInv, [Next]_vars PROVE GateInv'
  OBVIOUS
<1> USE DEF At
<1>0. /\ WrittenFrom(baseline, origin)
      /\ \A j \in DOMAIN jobs : /\ Possible(plan[j]) /\ Staged(plan[j], jobs[j]) /\ DOMAIN jobs[j] = JobFields
                                /\ GateJob(plan[j], jobs[j])
  BY DEF Shape, Staged, GateInv
<1>1. ASSUME NEW j \in DOMAIN jobs, Start(j) PROVE GateInv'
  <2>0. jobs[j].pc = "waiting" /\ plan' = plan /\ WrittenFrom(baseline', origin')
    BY <1>0, <1>1 DEF Start
  <2>1. CASE plan[j].kind # "scan" /\ jobs' = [jobs EXCEPT ![j].pc = plan[j].kind]
    <3> DEFINE new == [jobs[j] EXCEPT !.pc = plan[j].kind]
    <3>1. jobs' = [jobs EXCEPT ![j] = new] /\ new.pc = plan[j].kind /\ Same(jobs[j], new)
      BY <1>0, <2>1, FieldNames DEF Same
    <3> HIDE DEF new
    <3>2. new.pc \notin Scanning /\ new.pc \notin Late /\ new.pc # "ended"
      BY <1>0, <2>1, <3>1 DEF Possible, Scanning, Writing, Late
    <3>3. Ranked(new)
      BY <1>0, <3>1, GateKeeps
    <3>4. GateJob(plan[j], new)
      BY <3>1, <3>2, <3>3 DEF GateJob
    <3> QED BY <2>0, <3>1, <3>4, GateQuiet
  <2>2. CASE Exit(j, jobs[j], 3)
    <3>1. PICK new : /\ jobs' = [jobs EXCEPT ![j] = new] /\ DOMAIN new = JobFields
                     /\ new.pc = "ended" /\ new.code = 3
                     /\ \A x \in JobFields \ {"pc", "code"} : new[x] = jobs[j][x]
      BY <1>0, <2>2, Ends
    <3>2. Same(jobs[j], new)
      BY <1>0, <3>1, SameFields
    <3>3. GateJob(plan[j], new)
      BY <1>0, <3>1, <3>2, GateKeeps
    <3> QED BY <2>0, <3>1, <3>3, GateQuiet
  <2>3. CASE plan[j].kind = "scan" /\ ~Refused(plan[j])
             /\ Go(j, [jobs[j] EXCEPT !.found = Checkout(plan[j], plan[j].tree)])
    <3> DEFINE job == [jobs[j] EXCEPT !.found = Checkout(plan[j], plan[j].tree)]
    <3>1. /\ DOMAIN job = JobFields /\ job.found = Checkout(plan[j], plan[j].tree) /\ job.left = jobs[j].left
          /\ job.scores = jobs[j].scores /\ job.ranked = jobs[j].ranked
      BY <1>0, FieldNames
    <3>2. Go(j, job)
      BY <2>3
    <3> HIDE DEF job
    <3>3. PICK new : /\ jobs' = [jobs EXCEPT ![j] = new] /\ new.pc = Following(plan[j], jobs[j].pc)
                     /\ \A x \in JobFields \ {"pc"} : new[x] = job[x]
      BY <3>1, <3>2, GoesOn
    <3>4. /\ new.found = Checkout(plan[j], plan[j].tree) /\ new.left = jobs[j].left
          /\ new.scores = jobs[j].scores /\ new.ranked = jobs[j].ranked
      BY <3>1, <3>3, FieldNames
    <3>5. new.pc \in {"truncate", "ids", "rescore"}
      BY <2>0, <3>3, StageOrder
    <3>6. Found(plan[j], new)
      BY <1>0, <2>3, <3>4, CheckoutFound, ZenonT(40) DEF Found, Refused
    <3>7. Ranked(new)
      BY <1>0, <3>4 DEF GateJob, Ranked
    <3>8. GateJob(plan[j], new)
      BY <3>5, <3>6, <3>7 DEF GateJob, Late
    <3> QED BY <2>0, <3>3, <3>8, GateQuiet
  <2> QED BY <1>1, <2>1, <2>2, <2>3 DEF Start
<1>2. ASSUME NEW j \in DOMAIN jobs, Truncate(j) PROVE GateInv'
  <2>1. /\ jobs[j].pc = "truncate" /\ plan' = plan /\ plan[j].write /\ Go(j, jobs[j])
        /\ Found(plan[j], jobs[j])
    BY <1>0, <1>2 DEF Truncate, Staged, GateJob, Scanning, Writing
  <2>2. WrittenFrom(baseline', origin')
    BY <1>2 DEF Truncate, WrittenFrom, CutFile, NoFile, Nobody
  <2>3. PICK new : /\ jobs' = [jobs EXCEPT ![j] = new] /\ new.pc = Following(plan[j], jobs[j].pc)
                   /\ \A x \in JobFields \ {"pc"} : new[x] = jobs[j][x]
    BY <1>0, <2>1, GoesOn
  <2>4. new.pc = "ids" /\ Same(jobs[j], new)
    BY <1>0, <2>1, <2>3, StageOrder, SameFields
  <2>5. GateJob(plan[j], new)
    BY <1>0, <2>1, <2>4, GateKeeps DEF GateJob, Late
  <2> QED BY <2>1, <2>2, <2>3, <2>5, GateQuiet
<1>3. ASSUME NEW j \in DOMAIN jobs, WriteIds(j) PROVE GateInv'
  <2>1. /\ jobs[j].pc = "ids" /\ plan' = plan /\ plan[j].write /\ Go(j, jobs[j])
        /\ Found(plan[j], jobs[j])
    BY <1>0, <1>3 DEF WriteIds, Staged, GateJob, Scanning, Writing
  <2>2. WrittenFrom(baseline', origin')
    <3>1. Root(plan[j]) \in Seq(STRING) /\ jobs[j].found \subseteq Under(Root(plan[j]))
      BY <1>0, <2>1, RootIsPath DEF Found
    <3>2. /\ baseline' = Written(jobs[j].found, Root(plan[j]))
          /\ origin' = [set |-> jobs[j].found, root |-> Root(plan[j]), version |-> 3]
      BY <1>3 DEF WriteIds
    <3> QED BY <3>1, <3>2 DEF WrittenFrom, Written
  <2>3. PICK new : /\ jobs' = [jobs EXCEPT ![j] = new] /\ new.pc = Following(plan[j], jobs[j].pc)
                   /\ \A x \in JobFields \ {"pc"} : new[x] = jobs[j][x]
    BY <1>0, <2>1, GoesOn
  <2>4. new.pc = "ended" /\ Same(jobs[j], new)
    BY <1>0, <2>1, <2>3, StageOrder, SameFields
  <2>5. GateJob(plan[j], new)
    BY <1>0, <2>1, <2>4, GateKeeps
  <2> QED BY <2>1, <2>2, <2>3, <2>5, GateQuiet
<1>4. ASSUME NEW j \in DOMAIN jobs, Rescore(j) PROVE GateInv'
  <2> DEFINE o       == plan[j]
             found   == jobs[j].found
             left    == IF o.baseline THEN FilterAgainstBaseline(found, LoadBaseline(baseline), Root(o)) ELSE found
             modules == ModulesOf(o, left)
             job     == [jobs[j] EXCEPT !.left = left, !.scores = ScorePerModule(left, modules),
                                        !.ranked = [m \in modules |-> RankFixes(OfModule(left, m))],
                                        !.accepted = IF o.baseline THEN origin ELSE Nobody]
  <2>1. /\ jobs[j].pc = "rescore" /\ plan' = plan /\ WrittenFrom(baseline', origin') /\ Found(o, jobs[j])
        /\ o.kind = "scan"
    BY <1>0, <1>4 DEF Rescore, GateJob, Scanning, Staged
  <2>2. \/ modules = {} /\ Exit(j, job, 0)
        \/ Go(j, job)
    BY <1>4 DEF Rescore, ModulesOf, OfModule
  <2>3. /\ DOMAIN job = JobFields /\ job.found = found /\ job.left = left
        /\ job.scores = ScorePerModule(left, modules)
        /\ job.ranked = [m \in modules |-> RankFixes(OfModule(left, m))]
        /\ job.accepted = IF o.baseline THEN origin ELSE Nobody
    BY <1>0, FieldNames
  <2> HIDE DEF job
  <2>4. ASSUME NEW new, \A x \in JobFields \ {"pc", "code"} : new[x] = job[x]
        PROVE  Found(o, new) /\ Rescored(o, new) /\ Ranked(new) /\ new.left = left
    <3>1. Same(job, new)
      BY <2>3, <2>4, SameFields
    <3>2. /\ new.found = found /\ new.left = left
          /\ new.scores = ScorePerModule(new.left, ModulesOf(o, new.left))
          /\ new.ranked = [m \in ModulesOf(o, new.left) |-> RankFixes(OfModule(new.left, m))]
          /\ new.accepted = IF o.baseline THEN origin ELSE Nobody
      BY <2>3, <3>1 DEF Same
    <3>3. Possible(o) /\ Found(o, jobs[j]) /\ WrittenFrom(baseline, origin)
      BY <1>0, <2>1
    <3> HIDE DEF modules, o
    <3>4. Found(o, new) /\ Rescored(o, new) /\ Ranked(new)
      BY <3>2, <3>3, RescoreMakes
    <3> QED BY <3>2, <3>4
  <2>5. CASE Go(j, job)
    <3>1. PICK new : /\ jobs' = [jobs EXCEPT ![j] = new] /\ new.pc = Following(plan[j], jobs[j].pc)
                     /\ \A x \in JobFields \ {"pc"} : new[x] = job[x]
      BY <2>3, <2>5, GoesOn
    <3>2. new.pc \in Late
      BY <2>1, <3>1, StageOrder
    <3>3. Found(o, new) /\ Rescored(o, new) /\ Ranked(new)
      BY <2>4, <3>1
    <3>4. GateJob(plan[j], new)
      BY <3>2, <3>3 DEF GateJob, Late
    <3> QED BY <2>1, <3>1, <3>4, GateQuiet
  <2>6. CASE modules = {} /\ Exit(j, job, 0)
    <3>1. PICK new : /\ jobs' = [jobs EXCEPT ![j] = new] /\ new.pc = "ended" /\ new.code = 0
                     /\ \A x \in JobFields \ {"pc", "code"} : new[x] = job[x]
      BY <2>3, <2>6, Ends
    <3>2. Found(o, new) /\ Rescored(o, new) /\ Ranked(new) /\ new.left = left
      BY <2>4, <3>1
    <3>3. ModulesOf(o, new.left) = {}
      BY <2>6, <3>2
    <3>4. CodeFits(o, new)
      BY <3>1, <3>2, <3>3, CodesFit
    <3>5. GateJob(plan[j], new)
      BY <3>1, <3>2, <3>4 DEF GateJob, Scanning, Writing, Late
    <3> QED BY <2>1, <3>1, <3>5, GateQuiet
  <2> QED BY <2>2, <2>5, <2>6
\* The stages after the scores.
<1>5. ASSUME NEW j \in DOMAIN jobs, ScanBaseRef(j) PROVE GateInv'
  <2>1. PICK delta : Go(j, [jobs[j] EXCEPT !.delta = delta]) \/ Exit(j, jobs[j], 3)
    BY <1>5 DEF ScanBaseRef
  <2>2. /\ DOMAIN [jobs[j] EXCEPT !.delta = delta] = JobFields /\ Same(jobs[j], [jobs[j] EXCEPT !.delta = delta])
        /\ DOMAIN jobs[j] = JobFields /\ Same(jobs[j], jobs[j])
    BY <1>0 DEF Same
  <2>3. jobs[j].pc \in Late \ {"gate"} /\ plan' = plan /\ UNCHANGED <<baseline, origin>>
    BY <1>5 DEF ScanBaseRef, Late
  <2> QED BY <2>1, <2>2, <2>3, GateLate
<1>6. ASSUME NEW j \in DOMAIN jobs, Stamp(j) PROVE GateInv'
  <2>1. PICK stamp : Go(j, [jobs[j] EXCEPT !.stamp = stamp])
    BY <1>6 DEF Stamp
  <2>2. DOMAIN [jobs[j] EXCEPT !.stamp = stamp] = JobFields /\ Same(jobs[j], [jobs[j] EXCEPT !.stamp = stamp])
    BY <1>0 DEF Same
  <2>3. jobs[j].pc \in Late \ {"gate"} /\ plan' = plan /\ UNCHANGED <<baseline, origin>>
    BY <1>6 DEF Stamp, Late
  <2> QED BY <2>1, <2>2, <2>3, GateLate
<1>7. ASSUME NEW j \in DOMAIN jobs, AppendHistory(j) \/ WriteHtml(j) \/ SendComment(j) PROVE GateInv'
  <2>1. Go(j, jobs[j]) \/ Exit(j, jobs[j], 3)
    BY <1>7 DEF AppendHistory, WriteHtml, SendComment
  <2>2. jobs[j].pc \in Late \ {"gate"} /\ plan' = plan /\ UNCHANGED <<baseline, origin>>
    BY <1>7 DEF AppendHistory, WriteHtml, SendComment, Late
  <2>3. DOMAIN jobs[j] = JobFields /\ Same(jobs[j], jobs[j])
    BY <1>0 DEF Same
  <2> QED BY <2>1, <2>2, <2>3, GateLate
<1>8. ASSUME NEW j \in DOMAIN jobs, ListComments(j) PROVE GateInv'
  <2>1. jobs[j].pc = "list" /\ jobs[j].pc \in Late \ {"gate"} /\ plan' = plan /\ UNCHANGED <<baseline, origin>>
    BY <1>8 DEF ListComments, Late
  <2>2. CASE jobs' = [jobs EXCEPT ![j].pc = "gate"]
    <3> DEFINE new == [jobs[j] EXCEPT !.pc = "gate"]
    <3>1. jobs' = [jobs EXCEPT ![j] = new] /\ new.pc = "gate" /\ Same(jobs[j], new)
      BY <1>0, <2>2, FieldNames DEF Same
    <3> HIDE DEF new
    <3>2. new.pc \in Late
      BY <3>1 DEF Late
    <3>3. GateJob(plan[j], new)
      BY <1>0, <2>1, <3>1, <3>2, GateKeeps
    <3>4. WrittenFrom(baseline', origin')
      BY <1>0, <2>1
    <3> QED BY <2>1, <3>1, <3>3, <3>4, GateQuiet
  <2>3. CASE Go(j, [jobs[j] EXCEPT !.target = ChooseCommentAction(comments), !.seen = posted.landed])
    <3> DEFINE job == [jobs[j] EXCEPT !.target = ChooseCommentAction(comments), !.seen = posted.landed]
    <3>1. DOMAIN job = JobFields /\ Same(jobs[j], job)
      BY <1>0 DEF Same
    <3>2. Go(j, job)
      BY <2>3
    <3> HIDE DEF job
    <3> QED BY <2>1, <3>1, <3>2, GateLate
  <2> QED BY <1>8, <2>2, <2>3 DEF ListComments
<1>9. ASSUME NEW j \in DOMAIN jobs, Gate(j) PROVE GateInv'
  <2> DEFINE o    == plan[j]
             code == IF HasSeverityAtOrAbove(FilterForSurface(jobs[j].left, CISurface), o.failOn) THEN 1
                     ELSE IF \E m \in DOMAIN jobs[j].scores : jobs[j].scores[m] < o.minScore THEN 2 ELSE 0
  <2>1. jobs[j].pc = "gate" /\ plan' = plan /\ UNCHANGED <<baseline, origin>> /\ Exit(j, jobs[j], code)
    BY <1>9 DEF Gate
  <2>2. WrittenFrom(baseline', origin') /\ Found(o, jobs[j]) /\ Rescored(o, jobs[j])
    BY <1>0, <2>1 DEF GateJob, Scanning, Late
  <2> HIDE DEF code
  <2>3. PICK new : /\ jobs' = [jobs EXCEPT ![j] = new] /\ new.pc = "ended" /\ new.code = code
                   /\ \A x \in JobFields \ {"pc", "code"} : new[x] = jobs[j][x]
    BY <1>0, <2>1, Ends
  <2>4. Same(jobs[j], new)
    BY <1>0, <2>3, SameFields
  <2>5. Found(o, new) /\ Rescored(o, new) /\ Ranked(new)
    BY <1>0, <2>2, <2>4, GateKeeps
  <2>6. new.code = IF HasSeverityAtOrAbove(FilterForSurface(new.left, CISurface), o.failOn) THEN 1
                   ELSE IF \E m \in DOMAIN new.scores : new.scores[m] < o.minScore THEN 2 ELSE 0
    BY <2>3, <2>4 DEF Same, code
  <2>7. CodeFits(o, new)
    <3> HIDE DEF o
    <3> QED BY <2>5, <2>6, CodesFit
  <2>8. GateJob(plan[j], new)
    BY <2>3, <2>5, <2>7 DEF GateJob, Scanning, Writing, Late
  <2> QED BY <2>1, <2>2, <2>3, <2>8, GateQuiet
<1>10. ASSUME NEW j \in DOMAIN jobs, Import(j) \/ Show(j) PROVE GateInv'
  <2>1. /\ jobs[j].pc \in {"import", "show"} /\ plan' = plan /\ plan[j].kind # "scan"
        /\ WrittenFrom(baseline', origin')
    BY <1>0, <1>10 DEF Import, Show, GateJob
  <2>2. PICK seen, intact, code : \/ Exit(j, jobs[j], code)
                                  \/ Exit(j, [jobs[j] EXCEPT !.seen = seen, !.intact = intact], code)
    BY <1>10 DEF Import, Show
  <2>3. ASSUME NEW job, DOMAIN job = JobFields, Same(jobs[j], job), Exit(j, job, code) PROVE GateInv'
    <3>1. PICK new : /\ jobs' = [jobs EXCEPT ![j] = new] /\ new.pc = "ended"
                     /\ \A x \in JobFields \ {"pc", "code"} : new[x] = job[x]
      BY <2>3, Ends
    <3>2. Same(job, new)
      BY <2>3, <3>1, SameFields
    <3>3. Same(jobs[j], new)
      BY <2>3, <3>2 DEF Same
    <3>4. GateJob(plan[j], new)
      BY <1>0, <2>1, <3>1, <3>3, GateKeeps
    <3> QED BY <2>1, <3>1, <3>4, GateQuiet
  <2>4. /\ DOMAIN [jobs[j] EXCEPT !.seen = seen, !.intact = intact] = JobFields
        /\ Same(jobs[j], [jobs[j] EXCEPT !.seen = seen, !.intact = intact])
        /\ DOMAIN jobs[j] = JobFields /\ Same(jobs[j], jobs[j])
    BY <1>0 DEF Same
  <2> QED BY <2>2, <2>3, <2>4
<1>11. ASSUME NEW j \in DOMAIN jobs, Kill(j) PROVE GateInv'
  <2>1. PICK pc \in {"killed", "cut"} : jobs' = [jobs EXCEPT ![j].pc = pc]
    BY <1>11 DEF Kill
  <2>2. plan' = plan /\ WrittenFrom(baseline', origin')
    BY <1>0, <1>11 DEF Kill
  <2> DEFINE new == [jobs[j] EXCEPT !.pc = pc]
  <2>3. jobs' = [jobs EXCEPT ![j] = new] /\ new.pc = pc /\ Same(jobs[j], new)
    BY <1>0, <2>1, FieldNames DEF Same
  <2> HIDE DEF new
  <2>4. GateJob(plan[j], new)
    BY <1>0, <2>3, GateKeeps
  <2> QED BY <2>2, <2>3, <2>4, GateQuiet
<1>12. ASSUME (\E request \in flight : Land(request) \/ Drop(request)) \/ Tick \/ UNCHANGED vars
       PROVE  GateInv'
  <2>1. UNCHANGED <<plan, baseline, origin, jobs>>
    BY <1>12 DEF Land, Drop, Tick, vars
  <2> QED BY <2>1 DEF GateInv
<1> QED BY <1>1, <1>2, <1>3, <1>4, <1>5, <1>6, <1>7, <1>8, <1>9, <1>10, <1>11, <1>12 DEF Next

\* At the start nothing is found yet.
LEMMA GateInit == Init => GateInv
<1> SUFFICES ASSUME NEW s \in Scenarios,
                    plan = s.jobs, baseline = s.baseline, origin = s.origin,
                    jobs = [j \in DOMAIN s.jobs |-> Waiting]
             PROVE  GateInv
  BY DEF Init
<1>1. WrittenFrom(baseline, origin)
  BY CiAssumption
<1>2. Waiting.pc = "waiting" /\ DOMAIN Waiting.scores = {}
  BY DEF Waiting
<1>3. \A o : GateJob(o, Waiting)
  BY <1>2 DEF GateJob, Ranked, Scanning, Writing, Late
<1> QED BY <1>1, <1>3 DEF GateInv

\* The invariant of the gate, of every behaviour.
LEMMA GateInvariant == Spec => []GateInv
<1>1. Spec => []Shape
  BY StickyInvariant, PTL
<1> QED BY <1>1, GateInit, GateStep, PTL DEF Spec

\* However the jobs that write, read and gate on the baseline come between each other, and wherever
\* one of them is killed: the exit code of a scan tells exactly what is new to it.
THEOREM GateTellsNew == Spec => []GateIsExact
<1>1. Shape /\ GateInv => GateIsExact
  <2> SUFFICES ASSUME Shape, GateInv, NEW j \in DOMAIN jobs, Scanned(j)
               PROVE  CodeFits(plan[j], jobs[j])
    BY DEF GateIsExact, CodeFits, New, NewOf
  <2>1. GateJob(plan[j], jobs[j])
    BY DEF Shape, GateInv
  <2> QED BY <2>1 DEF GateJob, Scanned, At
<1>2. Spec => []Shape
  BY StickyInvariant, PTL
<1> QED BY <1>1, <1>2, GateInvariant, PTL

\* For any findings, weights and efforts, and wherever the floats lie beside what they stand for:
\* the fix order of a module is what it says, to eleven tenths where a weight is no float, and
\* exactly where every weight is.
THEOREM FixOrderHonest == Spec => []RankingIsHonest
<1>1. Shape /\ GateInv => RankingIsHonest
  <2> SUFFICES ASSUME Shape, GateInv, NEW j \in DOMAIN jobs, NEW m \in DOMAIN jobs[j].scores
               PROVE  LET of      == {f \in jobs[j].left : f.module = m}
                          counted == {f \in of : Counts(f, FALSE)}
                          ranked  == jobs[j].ranked[m]
                          fixed(k)    == {ranked[i].fix : i \in 1..k}
                          score(k)    == Overall(of \ fixed(k), FALSE)
                          promised(k) == IF k = 0 THEN jobs[j].scores[m] ELSE ranked[k].projected
                      IN /\ fixed(Len(ranked)) = counted /\ Cardinality(fixed(Len(ranked))) = Len(ranked)
                         /\ \A k \in DOMAIN ranked :
                              /\ promised(k) - score(k) \in (IF Plain(counted) THEN {0} ELSE -11..11)
                              /\ ranked[k].gain = promised(k) - promised(k - 1) /\ ranked[k].gain >= 0
                         /\ Overall(of, TRUE) <= jobs[j].scores[m]
    BY DEF RankingIsHonest, Plain
  <2> DEFINE set == OfModule(jobs[j].left, m)
  <2>1. Ranked(jobs[j])
    BY DEF Shape, GateInv, GateJob
  <2>2. /\ Sortable(jobs[j].left) /\ jobs[j].scores[m] = Overall(set, FALSE)
        /\ jobs[j].ranked[m] = RankFixes(set)
    BY <2>1 DEF Ranked
  <2>3. Sortable(set)
    <3>1. Parted(jobs[j].left)
      BY <2>2, PartsSortable
    <3> QED BY <3>1 DEF Parted
  <2>4. set = {f \in jobs[j].left : f.module = m}
    BY DEF OfModule
  <2> HIDE DEF set
  <2>5. HonestOrder(set, jobs[j].ranked[m])
    BY <2>2, <2>3, FixesRanked
  <2>6. Overall(set, TRUE) <= jobs[j].scores[m]
    <3>1. IsFiniteSet(set) /\ \A f \in set : f.tier \in ToSet(Tiers)
      BY <2>3 DEF Sortable
    <3>2. Overall(set, TRUE) <= Overall(set, FALSE)
      BY <3>1, OverallIs
    <3> QED BY <2>2, <3>2
  <2> QED BY <2>2, <2>4, <2>5, <2>6 DEF HonestOrder
<1>2. Spec => []Shape
  BY StickyInvariant, PTL
<1> QED BY <1>1, <1>2, GateInvariant, PTL
-----------------------------------------------------------------------------
(* The history *)

AnySeq(s) == \E S : s \in Seq(S)

\* A line of its own for a record.
LineOf(record) == <<Piece(record, TRUE)>>

\* The history file: what stands alone on a line has the time it was taken.
FileFits(file) ==
  /\ file.open \in BOOLEAN /\ AnySeq(file.lines) /\ (file.open => file.lines # <<>>)
  /\ \A i \in DOMAIN file.lines : LET line == file.lines[i]
                                  IN /\ AnySeq(line) /\ Len(line) >= 1
                                     /\ Len(line) = 1 => line[1].record.stamp \in Int

\* The appends that were completed.
LogFits(entries) ==
  /\ AnySeq(entries)
  /\ \A i \in DOMAIN entries : entries[i].own \in BOOLEAN /\ entries[i].record.stamp \in Int

\* Every record that had a line of its own still has it, and it is not one that is still open.
Preserved(file, entries) ==
  \A i \in DOMAIN entries : entries[i].own =>
    \E k \in DOMAIN file.lines : file.lines[k] = LineOf(entries[i].record) /\ (file.open => k # Len(file.lines))

\* While no append was interrupted the file is what was appended.
Whole(file, entries) ==
  /\ ~file.open /\ DOMAIN file.lines = DOMAIN entries
  /\ \A i \in DOMAIN entries : entries[i].own /\ file.lines[i] = LineOf(entries[i].record)

\* Of some entries this one was the last by the clocks.
Later(entries, i, k) ==
  \/ entries[i].record.stamp > entries[k].record.stamp
  \/ entries[i].record.stamp = entries[k].record.stamp /\ i >= k

Newest(entries, set, m) == m \in set /\ \A k \in set : Later(entries, m, k)

\* Of the first n entries the newest is worse than the last that can be compared with it.
Worse(entries, n, maxDrop) ==
  LET all == {i \in 1..n : entries[i].own}
      earlier(m) == {i \in all \ {m} : Comparable(entries[i].record, entries[m].record)}
  IN \E m, p \in all : /\ Newest(entries, all, m) /\ Newest(entries, earlier(m), p)
                       /\ Drops(entries[p].record, entries[m].record, maxDrop)

\* A command that ended saw as many entries as there were, and told of them.
HistJob(o, job, entries) ==
  /\ job.stamp \in Int
  /\ o.kind = "show" /\ job.pc = "ended" /\ job.intact =>
       job.seen \in 0..Len(entries) /\ job.code = IF Worse(entries, job.seen, o.maxDrop) THEN 2 ELSE 0

\* What holds between two steps: of the file, of what was appended, and of what was said of it.
HistInv ==
  /\ clock \in Int /\ FileFits(history) /\ LogFits(log) /\ Preserved(history, log)
  /\ (\A j \in DOMAIN jobs : jobs[j].pc # "cut") => Whole(history, log)
  /\ \A j \in DOMAIN jobs : HistJob(plan[j], jobs[j], log)

\* A sequence after one more item.
LEMMA Appended ==
  ASSUME NEW s, AnySeq(s), NEW e
  PROVE  /\ AnySeq(Append(s, e)) /\ Len(s) \in Nat /\ DOMAIN s = 1..Len(s)
         /\ Len(Append(s, e)) = Len(s) + 1 /\ DOMAIN Append(s, e) = 1..(Len(s) + 1)
         /\ Append(s, e)[Len(s) + 1] = e /\ \A i \in DOMAIN s : Append(s, e)[i] = s[i]
<1>1. PICK S : s \in Seq(S)
  BY DEF AnySeq
<1>2. s \in Seq(S \cup {e}) /\ e \in S \cup {e}
  BY <1>1
<1> HIDE DEF AnySeq
<1>3. Append(s, e) \in Seq(S \cup {e})
  BY <1>2
<1> QED BY <1>2, <1>3 DEF AnySeq

\* A sequence after the replacement of one item.
LEMMA Replaced ==
  ASSUME NEW s, AnySeq(s), NEW k \in DOMAIN s, NEW e
  PROVE  LET new == [s EXCEPT ![k] = e]
         IN /\ AnySeq(new) /\ Len(new) = Len(s) /\ DOMAIN new = DOMAIN s
            /\ new[k] = e /\ \A i \in DOMAIN s \ {k} : new[i] = s[i]
<1> DEFINE new == [s EXCEPT ![k] = e]
<1>1. PICK S : s \in Seq(S)
  BY DEF AnySeq
<1>2. s \in Seq(S \cup {e}) /\ e \in S \cup {e}
  BY <1>1
<1>3. new \in Seq(S \cup {e}) /\ Len(new) = Len(s)
  BY <1>2
<1>4. DOMAIN new = DOMAIN s /\ new[k] = e /\ \A i \in DOMAIN s \ {k} : new[i] = s[i]
  OBVIOUS
<1> QED BY <1>3, <1>4 DEF AnySeq

\* What is written leaves the lines of the records alone, and a record has its own line exactly if
\* the last one was finished.
LEMMA WriteKeeps ==
  ASSUME NEW file, FileFits(file), NEW entries, LogFits(entries), Preserved(file, entries),
         NEW record, record.stamp \in Int, NEW full \in BOOLEAN, NEW newline \in BOOLEAN
  PROVE  LET new  == Write(file, Piece(record, full), newline)
             more == Append(entries, [record |-> record, own |-> ~file.open])
         IN /\ FileFits(new) /\ Preserved(new, entries)
            /\ full /\ newline => /\ LogFits(more) /\ Preserved(new, more)
                                  /\ Whole(file, entries) => Whole(new, more)
<1> DEFINE piece == Piece(record, full)
           new   == Write(file, piece, newline)
           entry == [record |-> record, own |-> ~file.open]
           more  == Append(entries, entry)
           n     == Len(file.lines)
           at    == IF file.open THEN n ELSE n + 1
<1>1. /\ file.open \in BOOLEAN /\ AnySeq(file.lines) /\ n \in Nat /\ DOMAIN file.lines = 1..n
      /\ file.open => n \in DOMAIN file.lines
  <2>1. file.open \in BOOLEAN /\ AnySeq(file.lines) /\ (file.open => file.lines # <<>>)
    BY DEF FileFits
  <2>2. n \in Nat /\ DOMAIN file.lines = 1..n
    BY <2>1, Appended
  <2>3. n = 0 => file.lines = <<>>
    BY <2>1 DEF AnySeq
  <2> QED BY <2>1, <2>2, <2>3
<1>2. new.open = ~newline /\ new.lines = IF file.open THEN [file.lines EXCEPT ![n] = Append(file.lines[n], piece)]
                                         ELSE Append(file.lines, <<piece>>)
  BY DEF Write
<1>3. piece.record = record /\ piece.full = full
  BY DEF Piece
\* The line it is on.
<1>4. /\ AnySeq(new.lines) /\ Len(new.lines) = at /\ DOMAIN new.lines = 1..at
      /\ \A i \in DOMAIN file.lines : i # at => new.lines[i] = file.lines[i]
      /\ file.open => AnySeq(new.lines[at]) /\ Len(new.lines[at]) >= 2
      /\ ~file.open => new.lines[at] = <<piece>>
  <2>1. CASE file.open
    <3>1. AnySeq(file.lines[n]) /\ Len(file.lines[n]) >= 1
      BY <1>1, <2>1 DEF FileFits
    <3>2. AnySeq(Append(file.lines[n], piece)) /\ Len(Append(file.lines[n], piece)) >= 2
      <4>1. Len(file.lines[n]) \in Nat
        BY <3>1, Appended
      <4>2. Len(Append(file.lines[n], piece)) = Len(file.lines[n]) + 1 /\ AnySeq(Append(file.lines[n], piece))
        BY <3>1, Appended
      <4> QED BY <3>1, <4>1, <4>2
    <3>3. new.lines = [file.lines EXCEPT ![n] = Append(file.lines[n], piece)]
      BY <1>2, <2>1
    <3> HIDE DEF new, piece
    <3> QED BY <1>1, <2>1, <3>2, <3>3, Replaced
  <2>2. CASE ~file.open
    <3>1. new.lines = Append(file.lines, <<piece>>)
      BY <1>2, <2>2
    <3> HIDE DEF new, piece
    <3> QED BY <1>1, <2>2, <3>1, Appended
  <2> QED BY <1>1, <2>1, <2>2
<1>a. at \in Nat /\ at >= 1 /\ (file.open => at = n) /\ (~file.open => at = n + 1)
  BY <1>1
<1> HIDE DEF new, piece, at
<1>5. AnySeq(<<piece>>) /\ Len(<<piece>>) = 1 /\ <<piece>>[1] = piece
  <2>1. <<piece>> \in Seq({piece})
    OBVIOUS
  <2> QED BY <2>1 DEF AnySeq
<1>6. FileFits(new)
  <2>1. ASSUME NEW i \in DOMAIN new.lines
        PROVE  /\ AnySeq(new.lines[i]) /\ Len(new.lines[i]) >= 1
               /\ Len(new.lines[i]) = 1 => new.lines[i][1].record.stamp \in Int
    <3>1. CASE i = at /\ file.open
      <4>1. AnySeq(new.lines[i]) /\ Len(new.lines[i]) >= 2
        BY <1>4, <3>1
      <4>2. Len(new.lines[i]) \in Nat
        BY <4>1, Appended
      <4>3. \A k \in Nat : k >= 2 => k >= 1 /\ k # 1
        OBVIOUS
      <4> QED BY <4>1, <4>2, <4>3, Zenon
    <3>2. CASE i = at /\ ~file.open
      <4>1. new.lines[i] = <<piece>>
        BY <1>4, <3>2
      <4> QED BY <1>3, <1>5, <4>1
    <3>3. CASE i # at
      <4>1. i \in DOMAIN file.lines
        BY <1>1, <1>4, <1>a, <2>1, <3>3
      <4>2. new.lines[i] = file.lines[i]
        BY <1>4, <3>3, <4>1
      <4> QED BY <4>1, <4>2 DEF FileFits
    <3> QED BY <3>1, <3>2, <3>3
  <2>2. new.lines # <<>>
    <3>1. Len(<<>>) = 0
      OBVIOUS
    <3> QED BY <1>4, <1>a, <3>1
  <2> QED BY <1>2, <1>4, <2>1, <2>2 DEF FileFits
\* What had a line of its own keeps it.
<1>7. ASSUME NEW i \in DOMAIN entries, entries[i].own
      PROVE  \E k \in DOMAIN new.lines : new.lines[k] = LineOf(entries[i].record) /\ k # at
  <2>1. PICK k \in DOMAIN file.lines : file.lines[k] = LineOf(entries[i].record) /\ (file.open => k # n)
    BY <1>7 DEF Preserved
  <2>2. k # at /\ k \in 1..at
    BY <1>1, <1>a, <2>1
  <2> QED BY <1>4, <2>1, <2>2
<1>8. Preserved(new, entries)
  BY <1>4, <1>7 DEF Preserved
<1>9. ASSUME full, newline
      PROVE  LogFits(more) /\ Preserved(new, more) /\ (Whole(file, entries) => Whole(new, more))
  <2>1. piece = Piece(record, TRUE) /\ ~new.open
    BY <1>2, <1>9 DEF piece
  <2>2. entry.record = record /\ entry.own = ~file.open /\ entry.own \in BOOLEAN
    OBVIOUS
  <2> HIDE DEF entry
  <2>3. /\ AnySeq(entries) /\ Len(entries) \in Nat /\ DOMAIN entries = 1..Len(entries)
        /\ AnySeq(more) /\ DOMAIN more = 1..(Len(entries) + 1) /\ more[Len(entries) + 1] = entry
        /\ \A i \in DOMAIN entries : more[i] = entries[i]
    <3>1. AnySeq(entries)
      BY DEF LogFits
    <3> QED BY <3>1, Appended
  <2> HIDE DEF more
  <2>4. \A i \in DOMAIN more : i \in DOMAIN entries \/ i = Len(entries) + 1
    BY <2>3
  <2>5. LogFits(more)
    BY <2>2, <2>3, <2>4 DEF LogFits
  <2>6. Preserved(new, more)
    <3> SUFFICES ASSUME NEW i \in DOMAIN more, more[i].own
                 PROVE  \E k \in DOMAIN new.lines : new.lines[k] = LineOf(more[i].record)
      BY <2>1 DEF Preserved
    <3>0. more[i].own
      OBVIOUS
    <3>1. CASE i \in DOMAIN entries
      BY <1>7, <2>3, <3>1
    <3>2. CASE i = Len(entries) + 1
      <4>1. ~file.open
        BY <2>2, <2>3, <3>0, <3>2
      <4>2. at \in DOMAIN new.lines
        BY <1>4, <1>a
      <4> QED BY <1>4, <2>1, <2>2, <2>3, <3>2, <4>1, <4>2 DEF LineOf
    <3> QED BY <2>4, <3>1, <3>2
  <2>7. ASSUME Whole(file, entries) PROVE Whole(new, more)
    <3>1. ~file.open /\ 1..n = 1..Len(entries)
      BY <1>1, <2>3, <2>7 DEF Whole
    <3>2. n = Len(entries)
      BY <1>1, <2>3, <3>1
    <3>3. DOMAIN new.lines = DOMAIN more
      BY <1>4, <1>a, <2>3, <3>1, <3>2
    <3>4. ASSUME NEW i \in DOMAIN more PROVE more[i].own /\ new.lines[i] = LineOf(more[i].record)
      <4>1. CASE i \in DOMAIN entries
        <5>1. i \in 1..n /\ at = n + 1
          BY <1>a, <2>3, <3>1, <3>2, <4>1
        <5>2. i # at /\ i \in DOMAIN file.lines
          BY <1>1, <5>1
        <5> QED BY <1>4, <2>3, <2>7, <4>1, <5>2 DEF Whole
      <4>2. CASE i = Len(entries) + 1
        BY <1>4, <1>a, <2>1, <2>2, <2>3, <3>1, <3>2, <4>2 DEF LineOf
      <4> QED BY <2>4, <4>1, <4>2
    <3> QED BY <2>1, <3>3, <3>4 DEF Whole
  <2> QED BY <2>5, <2>6, <2>7
<1> QED BY <1>6, <1>8, <1>9 DEF new, piece

\* What a history command says of the first entries does not change when others follow.
LEMMA WorseStays ==
  ASSUME NEW entries, AnySeq(entries), NEW e, NEW n \in 0..Len(entries), NEW maxDrop
  PROVE  Worse(Append(entries, e), n, maxDrop) <=> Worse(entries, n, maxDrop)
<1> DEFINE more == Append(entries, e)
           all  == {i \in 1..n : entries[i].own}
<1>1. \A i \in 1..n : more[i] = entries[i]
  <2>1. Len(entries) \in Nat /\ DOMAIN entries = 1..Len(entries) /\ \A i \in DOMAIN entries : more[i] = entries[i]
    BY Appended
  <2> QED BY <2>1
<1> HIDE DEF more
<1>2. all = {i \in 1..n : more[i].own}
  BY <1>1
<1>3. \A i \in all : more[i] = entries[i]
  BY <1>1
<1> DEFINE earlier(m) == {i \in all \ {m} : Comparable(entries[i].record, entries[m].record)}
<1> HIDE DEF all
<1>4. \A m \in all : earlier(m) = {i \in all \ {m} : Comparable(more[i].record, more[m].record)}
  BY <1>3
<1>5. \A m \in all, S \in SUBSET all : Newest(more, S, m) <=> Newest(entries, S, m)
  BY <1>3 DEF Newest, Later
<1>6. \A m \in all : earlier(m) \in SUBSET all /\ all \in SUBSET all
  OBVIOUS
<1> DEFINE found(s, m, p) == /\ Newest(s, all, m) /\ Newest(s, earlier(m), p)
                             /\ Drops(s[p].record, s[m].record, maxDrop)
<1>7. \A m, p \in all : found(more, m, p) <=> found(entries, m, p)
  <2> HIDE DEF earlier
  <2> QED BY <1>3, <1>5, <1>6
<1>8. Worse(entries, n, maxDrop) <=> \E m, p \in all : found(entries, m, p)
  BY DEF Worse, all
<1>9. Worse(more, n, maxDrop) <=> \E m, p \in all : found(more, m, p)
  <2>1. Worse(more, n, maxDrop) <=>
          \E m, p \in all : /\ Newest(more, all, m)
                            /\ Newest(more, {i \in all \ {m} : Comparable(more[i].record, more[m].record)}, p)
                            /\ Drops(more[p].record, more[m].record, maxDrop)
    BY <1>2 DEF Worse
  <2> HIDE DEF earlier
  <2> QED BY <1>4, <2>1
<1> HIDE DEF found
<1> QED BY <1>7, <1>8, <1>9 DEF more

\* What is true of a job and the history stays true as the history grows.
LEMMA HistJobStays ==
  ASSUME NEW entries, AnySeq(entries), NEW e, NEW o, NEW job, HistJob(o, job, entries)
  PROVE  HistJob(o, job, Append(entries, e))
<1>1. Len(Append(entries, e)) = Len(entries) + 1 /\ Len(entries) \in Nat
  BY Appended
<1> QED BY <1>1, WorseStays DEF HistJob

\* A step of a job that leaves the history alone, or that is recorded in it.
LEMMA HistQuiet ==
  ASSUME Shape, HistInv, NEW j \in DOMAIN jobs, NEW new, jobs[j].pc # "cut",
         jobs' = [jobs EXCEPT ![j] = new], plan' = plan, clock' = clock, HistJob(plan[j], new, log),
         UNCHANGED <<history, log>>
  PROVE  HistInv'
<1>1. DOMAIN jobs' = DOMAIN jobs /\ jobs'[j] = new /\ \A i \in DOMAIN jobs \ {j} : jobs'[i] = jobs[i]
  OBVIOUS
<1>2. (\A i \in DOMAIN jobs' : jobs'[i].pc # "cut") => \A i \in DOMAIN jobs : jobs[i].pc # "cut"
  BY <1>1
<1>3. \A i \in DOMAIN jobs' : HistJob(plan'[i], jobs'[i], log')
  BY <1>1 DEF HistInv
<1> QED BY <1>2, <1>3 DEF HistInv

\* A job that appends its record keeps the invariant of the history.
LEMMA HistGrows ==
  ASSUME Shape, HistInv, NEW j \in DOMAIN jobs, NEW new, jobs[j].pc # "cut",
         jobs' = [jobs EXCEPT ![j] = new], plan' = plan, clock' = clock, HistJob(plan[j], new, log),
         NEW record, record.stamp \in Int, history' = AppendRecord(history, record), Logged(record)
  PROVE  HistInv'
<1> DEFINE entry == [record |-> record, own |-> ~history.open]
<1>1. DOMAIN jobs' = DOMAIN jobs /\ jobs'[j] = new /\ \A i \in DOMAIN jobs \ {j} : jobs'[i] = jobs[i]
  OBVIOUS
<1>2. (\A i \in DOMAIN jobs' : jobs'[i].pc # "cut") => \A i \in DOMAIN jobs : jobs[i].pc # "cut"
  BY <1>1
<1>3. FileFits(history) /\ LogFits(log) /\ Preserved(history, log) /\ AnySeq(log) /\ clock \in Int
  BY DEF HistInv, LogFits
<1>4. log' = Append(log, entry) /\ history' = Write(history, Piece(record, TRUE), TRUE)
  BY DEF Logged, AppendRecord
<1>5. /\ FileFits(history') /\ LogFits(log') /\ Preserved(history', log')
      /\ Whole(history, log) => Whole(history', log')
  BY <1>3, <1>4, WriteKeeps
<1> HIDE DEF entry
<1>6. \A i \in DOMAIN jobs' : HistJob(plan'[i], jobs'[i], log')
  <2>1. \A i \in DOMAIN jobs' : HistJob(plan[i], jobs'[i], log)
    BY <1>1 DEF HistInv
  <2> QED BY <1>3, <1>4, <2>1, HistJobStays
<1> QED BY <1>2, <1>3, <1>5, <1>6 DEF HistInv

\* Numbers with stamps, in the order of the stamps and then of the numbers.
ByStamp(stamp, S) == {p \in S \X S : stamp[p[1]] < stamp[p[2]] \/ (stamp[p[1]] = stamp[p[2]] /\ p[1] < p[2])}

\* Time and position order the records of the history.
LEMMA StampsOrder ==
  ASSUME NEW S \in SUBSET Nat, NEW stamp \in [S -> Int]
  PROVE  /\ Orders(ByStamp(stamp, S), S)
         /\ \A i, k \in S : <<i, k>> \in ByStamp(stamp, S) <=> stamp[i] < stamp[k] \/ (stamp[i] = stamp[k] /\ i < k)
<1>1. \A i, k \in S : <<i, k>> \in ByStamp(stamp, S) <=> stamp[i] < stamp[k] \/ (stamp[i] = stamp[k] /\ i < k)
  BY DEF ByStamp
<1>2. \A i \in S : i \in Nat /\ stamp[i] \in Int
  OBVIOUS
<1> QED BY <1>1, <1>2 DEF Orders

\* The maximum of a finite set of numbers belongs to it and is at least every other.
LEMMA MaxIsGreatest ==
  ASSUME NEW S \in SUBSET Nat, IsFiniteSet(S), S # {}
  PROVE  Max(S) \in S /\ \A x \in S : Max(S) >= x
<1> DEFINE none == [i \in S |-> 0]
<1>1. none \in [S -> Int]
  OBVIOUS
<1>2. \A i, k \in S : none[i] = none[k]
  OBVIOUS
<1> HIDE DEF none
<1>a. Orders(ByStamp(none, S), S)
  BY <1>1, StampsOrder
<1>3. PICK m \in S : \A x \in S \ {m} : <<x, m>> \in ByStamp(none, S)
  <2>1. S \in SUBSET S
    OBVIOUS
  <2> DEFINE R == ByStamp(none, S)
  <2>2. Orders(R, S)
    BY <1>a
  <2> HIDE DEF R
  <2>3. \A T \in SUBSET S : T # {} => \E m \in T : \A x \in T \ {m} : <<x, m>> \in R
    BY <2>2, LastExists
  <2> QED BY <2>1, <2>3 DEF R
<1>4. ASSUME NEW x \in S PROVE m >= x
  <2>1. x \in Nat /\ m \in Nat /\ none[x] \in Int /\ none[m] = none[x]
    BY <1>1, <1>2
  <2>2. x # m => <<x, m>> \in ByStamp(none, S)
    BY <1>3
  <2> QED BY <2>1, <2>2 DEF ByStamp
<1> QED BY <1>4 DEF Max

\* Some of the entries have exactly one newest.
LEMMA NewestExists ==
  ASSUME NEW entries, LogFits(entries), NEW set \in SUBSET (DOMAIN entries), set # {}
  PROVE  \E m \in set : Newest(entries, set, m)
<1> DEFINE S     == DOMAIN entries
           stamp == [i \in S |-> entries[i].record.stamp]
<1>1. S = 1..Len(entries) /\ Len(entries) \in Nat
  <2>1. AnySeq(entries)
    BY DEF LogFits
  <2> QED BY <2>1, Appended
<1>2. S \in SUBSET Nat /\ IsFiniteSet(S)
  BY <1>1, FS_Interval
<1>3. stamp \in [S -> Int]
  BY DEF LogFits
<1>4. \A i \in S : stamp[i] = entries[i].record.stamp
  OBVIOUS
<1> HIDE DEF stamp, S
<1>5. /\ Orders(ByStamp(stamp, S), S)
      /\ \A i, k \in S : <<i, k>> \in ByStamp(stamp, S) <=> stamp[i] < stamp[k] \/ (stamp[i] = stamp[k] /\ i < k)
  BY <1>2, <1>3, StampsOrder
<1>6. set \in SUBSET S
  BY DEF S
<1>7. PICK m \in set : \A x \in set \ {m} : <<x, m>> \in ByStamp(stamp, S)
  BY <1>2, <1>5, <1>6, LastExists
<1>8. ASSUME NEW x \in set PROVE Later(entries, m, x)
  <2>1. stamp[x] \in Int /\ stamp[m] \in Int /\ x \in Nat /\ m \in Nat /\ x \in S /\ m \in S
    BY <1>2, <1>3, <1>6
  <2>2. CASE x = m
    BY <2>1, <2>2 DEF Later
  <2>3. CASE x # m
    <3>1. stamp[x] < stamp[m] \/ (stamp[x] = stamp[m] /\ x < m)
      BY <1>5, <1>7, <2>1, <2>3
    <3> QED BY <1>4, <2>1, <3>1 DEF Later
  <2> QED BY <2>2, <2>3
<1> QED BY <1>8 DEF Newest

\* There is one newest record only.
LEMMA NewestIsOne ==
  ASSUME NEW entries, LogFits(entries), NEW set \in SUBSET (DOMAIN entries), NEW m, NEW p,
         Newest(entries, set, m), Newest(entries, set, p)
  PROVE  m = p
<1>1. DOMAIN entries \subseteq Nat
  <2>1. AnySeq(entries)
    BY DEF LogFits
  <2>2. DOMAIN entries = 1..Len(entries)
    BY <2>1, Appended
  <2> QED BY <2>2
<1>2. {m, p} \subseteq DOMAIN entries /\ Later(entries, m, p) /\ Later(entries, p, m)
  BY DEF Newest
<1>3. m \in Nat /\ p \in Nat /\ entries[m].record.stamp \in Int /\ entries[p].record.stamp \in Int
  BY <1>1, <1>2 DEF LogFits
<1> QED BY <1>2, <1>3 DEF Later

\* The same, said of the newest as it is chosen.
WorseByChoice(entries, n, maxDrop) ==
  LET newest(set) == CHOOSE i \in set : \A k \in set : Later(entries, i, k)
      all         == {i \in 1..n : entries[i].own}
      last        == newest(all)
      earlier     == {i \in all \ {last} : Comparable(entries[i].record, entries[last].record)}
  IN all # {} /\ earlier # {} /\ Drops(entries[newest(earlier)].record, entries[last].record, maxDrop)

\* Worse by some newest records is worse by those that are chosen: there is one of each.
LEMMA WorseIsChosen ==
  ASSUME NEW entries, LogFits(entries), NEW n \in 0..Len(entries), NEW maxDrop
  PROVE  Worse(entries, n, maxDrop) <=> WorseByChoice(entries, n, maxDrop)
<1> DEFINE newest(set) == CHOOSE i \in set : \A k \in set : Later(entries, i, k)
           all         == {i \in 1..n : entries[i].own}
           earlier(m)  == {i \in all \ {m} : Comparable(entries[i].record, entries[m].record)}
           found(m, p) == /\ Newest(entries, all, m) /\ Newest(entries, earlier(m), p)
                          /\ Drops(entries[p].record, entries[m].record, maxDrop)
<1>1. all \in SUBSET (DOMAIN entries) /\ \A m : earlier(m) \in SUBSET all
  <2>1. AnySeq(entries)
    BY DEF LogFits
  <2>2. DOMAIN entries = 1..Len(entries) /\ Len(entries) \in Nat
    BY <2>1, Appended
  <2> QED BY <2>2
<1>2. Worse(entries, n, maxDrop) <=> \E m, p \in all : found(m, p)
  BY DEF Worse
<1>3. WorseByChoice(entries, n, maxDrop) <=>
        /\ all # {} /\ earlier(newest(all)) # {}
        /\ Drops(entries[newest(earlier(newest(all)))].record, entries[newest(all)].record, maxDrop)
  BY DEF WorseByChoice
<1>4. ASSUME NEW set \in SUBSET (DOMAIN entries), set # {}
      PROVE  Newest(entries, set, newest(set)) /\ \A m : Newest(entries, set, m) => m = newest(set)
  <2>1. PICK m \in set : Newest(entries, set, m)
    BY <1>4, NewestExists
  <2>2. Newest(entries, set, newest(set))
    BY <2>1 DEF Newest
  <2> HIDE DEF newest
  <2> QED BY <2>2, NewestIsOne
<1>5. \A set, m : Newest(entries, set, m) => m \in set
  BY DEF Newest
<1> HIDE DEF newest, all, earlier
<1>6. ASSUME NEW m \in all, NEW p \in all, found(m, p)
      PROVE  /\ all # {} /\ earlier(newest(all)) # {}
             /\ Drops(entries[newest(earlier(newest(all)))].record, entries[newest(all)].record, maxDrop)
  <2>1. m = newest(all)
    BY <1>1, <1>4, <1>6
  <2>2. earlier(m) # {} /\ p = newest(earlier(m))
    BY <1>1, <1>4, <1>5, <1>6
  <2> QED BY <1>6, <2>1, <2>2
<1>7. ASSUME all # {}, earlier(newest(all)) # {},
             Drops(entries[newest(earlier(newest(all)))].record, entries[newest(all)].record, maxDrop)
      PROVE  \E m, p \in all : found(m, p)
  <2>1. Newest(entries, all, newest(all)) /\ newest(all) \in all
    BY <1>1, <1>4, <1>5, <1>7
  <2>2. /\ Newest(entries, earlier(newest(all)), newest(earlier(newest(all))))
        /\ newest(earlier(newest(all))) \in all
    BY <1>1, <1>4, <1>5, <1>7
  <2> QED BY <1>7, <2>1, <2>2
<1> QED BY <1>2, <1>3, <1>6, <1>7

\* The lines that can be read, and how they are read: s is their order.
ReadableLines(file) == {i \in DOMAIN file.lines : Readable(file.lines[i])}

ReadAs(file, n, s) ==
  /\ LoadHistory(file) = [i \in 1..n |-> file.lines[s[i]][1].record]
  /\ \A i \in 1..n : s[i] \in ReadableLines(file)
  /\ \A i, k \in 1..n : i < k =>
       LET old == file.lines[s[i]][1].record
           new == file.lines[s[k]][1].record
       IN old.stamp < new.stamp \/ (old.stamp = new.stamp /\ s[i] < s[k])
  /\ \A i, k \in 1..n : s[i] = s[k] => i = k
  /\ \A x \in ReadableLines(file) : \E i \in 1..n : s[i] = x

\* Reading the history gives its readable lines in the order of the file.
LEMMA LoadedIs ==
  ASSUME NEW file, FileFits(file)
  PROVE  /\ Cardinality(ReadableLines(file)) \in Nat
         /\ \E s : ReadAs(file, Cardinality(ReadableLines(file)), s)
<1> DEFINE S     == ReadableLines(file)
           n     == Cardinality(S)
           at(i) == file.lines[i][1].record
           stamp == [i \in S |-> at(i).stamp]
           older(i, k) == at(i).stamp < at(k).stamp \/ (at(i).stamp = at(k).stamp /\ i < k)
           right(s) == \A i, k \in DOMAIN s : i < k => older(s[i], s[k])
<1>1. S \in SUBSET Nat /\ IsFiniteSet(S) /\ n \in Nat
  <2>1. AnySeq(file.lines)
    BY DEF FileFits
  <2>2. DOMAIN file.lines = 1..Len(file.lines) /\ Len(file.lines) \in Nat
    BY <2>1, Appended
  <2>3. IsFiniteSet(1..Len(file.lines)) /\ S \subseteq 1..Len(file.lines)
    BY <2>2, FS_Interval DEF ReadableLines
  <2>4. IsFiniteSet(S)
    BY <2>3, FS_Subset
  <2> QED BY <2>2, <2>3, <2>4, FS_CardinalityType
<1>2. stamp \in [S -> Int]
  BY DEF FileFits, ReadableLines, Readable
<1>3. \A i, k \in S : stamp[i] = at(i).stamp /\ stamp[k] = at(k).stamp
  OBVIOUS
<1> HIDE DEF stamp, S
<1>4. /\ Orders(ByStamp(stamp, S), S)
      /\ \A i, k \in S : <<i, k>> \in ByStamp(stamp, S) <=> stamp[i] < stamp[k] \/ (stamp[i] = stamp[k] /\ i < k)
  BY <1>1, <1>2, StampsOrder
<1>5. ASSUME NEW i \in S, NEW k \in S PROVE <<i, k>> \in ByStamp(stamp, S) <=> older(i, k)
  <2>1. stamp[i] = at(i).stamp /\ stamp[k] = at(k).stamp
    BY <1>3
  <2>2. <<i, k>> \in ByStamp(stamp, S) <=> stamp[i] < stamp[k] \/ (stamp[i] = stamp[k] /\ i < k)
    BY <1>4
  <2> HIDE DEF at
  <2> QED BY <2>1, <2>2
<1> HIDE DEF at, older, n
<1>6. \A s \in [1..n -> S] : right(s) <=> Listing(s, ByStamp(stamp, S), S)
  <2> SUFFICES ASSUME NEW s \in [1..n -> S] PROVE right(s) <=> Listing(s, ByStamp(stamp, S), S)
    OBVIOUS
  <2>1. \A i, k \in 1..n : older(s[i], s[k]) <=> <<s[i], s[k]>> \in ByStamp(stamp, S)
    BY <1>5
  <2>2. DOMAIN s = 1..n
    OBVIOUS
  <2> QED BY <2>1, <2>2 DEF Listing, n
<1>7. \E s \in [1..n -> S] : right(s)
  <2>1. PICK s : Listing(s, ByStamp(stamp, S), S)
    BY <1>1, <1>4, ListingExists
  <2>2. s \in [1..n -> S]
    BY <2>1 DEF Listing, n
  <2> QED BY <1>6, <2>1, <2>2
<1> DEFINE order == CHOOSE s \in [1..n -> S] : right(s)
<1>8. order \in [1..n -> S] /\ right(order)
  <2> HIDE DEF right
  <2> QED BY <1>7
<1>9. LoadHistory(file) = [i \in DOMAIN order |-> at(order[i])]
  BY DEF LoadHistory, S, n, at, older, ReadableLines
<1> HIDE DEF order
<1>10. Listing(order, ByStamp(stamp, S), S)
  <2> HIDE DEF right
  <2> QED BY <1>6, <1>8
<1>11. /\ \A i, k \in 1..n : order[i] = order[k] => i = k
       /\ \A x \in S : \E i \in 1..n : order[i] = x
  BY <1>1, <1>4, <1>10, ListingIsWhole DEF n
<1>12. DOMAIN order = 1..n /\ \A i \in 1..n : order[i] \in S
  BY <1>8
<1>13. \A i, k \in 1..n : i < k => at(order[i]).stamp < at(order[k]).stamp
                                   \/ (at(order[i]).stamp = at(order[k]).stamp /\ order[i] < order[k])
  BY <1>8, <1>12 DEF older
<1>14. ReadAs(file, n, order)
  BY <1>9, <1>11, <1>12, <1>13 DEF ReadAs, at, S
<1> QED BY <1>1, <1>14 DEF n, S

\* What was completed on a line of its own is read, in the order of the clocks.
LEMMA LoadedTells ==
  ASSUME NEW file, FileFits(file), NEW entries, LogFits(entries), Preserved(file, entries)
  PROVE  /\ \A i \in DOMAIN entries : entries[i].own =>
              \E k \in DOMAIN LoadHistory(file) : LoadHistory(file)[k] = entries[i].record
         /\ \A i, k \in DOMAIN LoadHistory(file) :
              i < k => LoadHistory(file)[i].stamp <= LoadHistory(file)[k].stamp
<1> DEFINE n == Cardinality(ReadableLines(file))
<1>1. n \in Nat
  BY LoadedIs
<1>2. PICK s : ReadAs(file, n, s)
  BY LoadedIs
<1> HIDE DEF n
<1>3. DOMAIN LoadHistory(file) = 1..n /\ \A i \in 1..n : LoadHistory(file)[i] = file.lines[s[i]][1].record
  BY <1>2 DEF ReadAs
<1>4. ASSUME NEW i \in DOMAIN entries, entries[i].own
      PROVE  \E k \in DOMAIN LoadHistory(file) : LoadHistory(file)[k] = entries[i].record
  <2>1. PICK x \in DOMAIN file.lines : file.lines[x] = LineOf(entries[i].record)
    BY <1>4 DEF Preserved
  <2>2. file.lines[x][1].record = entries[i].record /\ x \in ReadableLines(file)
    BY <2>1 DEF LineOf, Piece, ReadableLines, Readable
  <2>3. PICK k \in 1..n : s[k] = x
    BY <1>2, <2>2 DEF ReadAs
  <2> QED BY <1>3, <2>2, <2>3
<1>5. ASSUME NEW i \in 1..n, NEW k \in 1..n, i < k
      PROVE  LoadHistory(file)[i].stamp <= LoadHistory(file)[k].stamp
  <2>1. s[i] \in ReadableLines(file) /\ s[k] \in ReadableLines(file)
    BY <1>2 DEF ReadAs
  <2>2. file.lines[s[i]][1].record.stamp \in Int /\ file.lines[s[k]][1].record.stamp \in Int
    BY <2>1 DEF FileFits, ReadableLines, Readable
  <2>3. file.lines[s[i]][1].record.stamp <= file.lines[s[k]][1].record.stamp
    BY <1>2, <1>5, <2>2 DEF ReadAs
  <2> QED BY <1>3, <2>3
<1> QED BY <1>3, <1>4, <1>5

\* While the file is what was appended, what a command says of it is so of the appends.
LEMMA WholeTells ==
  ASSUME NEW file, FileFits(file), NEW entries, LogFits(entries), Whole(file, entries), NEW maxDrop
  PROVE  Regressed(LoadHistory(file), maxDrop) <=> Worse(entries, Len(entries), maxDrop)
<1> DEFINE n      == Len(entries)
           all    == 1..n
           loaded == LoadHistory(file)
           earlier(m) == {i \in all \ {m} : Comparable(entries[i].record, entries[m].record)}
           I      == {i \in 1..(n - 1) : Comparable(loaded[i], loaded[n])}
<1>1. n \in Nat /\ DOMAIN entries = all
  <2>1. AnySeq(entries)
    BY DEF LogFits
  <2> QED BY <2>1, Appended
<1> HIDE DEF n
<1>2. DOMAIN file.lines = all /\ \A i \in all : entries[i].own /\ file.lines[i] = LineOf(entries[i].record)
  BY <1>1 DEF Whole
<1>3. ASSUME NEW i \in all PROVE file.lines[i][1].record = entries[i].record /\ Readable(file.lines[i])
  <2>1. file.lines[i] = LineOf(entries[i].record)
    BY <1>2
  <2> QED BY <2>1 DEF LineOf, Piece, Readable
<1>4. ReadableLines(file) = all /\ Cardinality(all) = n
  <2>1. ReadableLines(file) = all
    BY <1>2, <1>3 DEF ReadableLines
  <2>2. Cardinality(all) = n
    BY <1>1, FS_Interval
  <2> QED BY <2>1, <2>2
<1>5. PICK s : ReadAs(file, n, s)
  BY <1>4, LoadedIs
<1>6. /\ \A i \in all : s[i] \in all /\ loaded[i] = entries[s[i]].record
      /\ \A i, k \in all : s[i] = s[k] => i = k
      /\ \A x \in all : \E i \in all : s[i] = x
      /\ DOMAIN loaded = 1..n /\ loaded = [i \in 1..n |-> file.lines[s[i]][1].record]
  BY <1>3, <1>4, <1>5 DEF ReadAs
<1>7. Len(loaded) = n
  BY <1>1, <1>6
<1> HIDE DEF loaded
\* A later line of the listing is newer.
<1>8. ASSUME NEW i \in all, NEW k \in all, i <= k PROVE Later(entries, s[k], s[i])
  <2>0. s[i] \in all /\ s[k] \in all
    BY <1>6
  <2>1. /\ s[i] \in all /\ s[k] \in all /\ s[i] \in Nat
        /\ file.lines[s[i]][1].record = entries[s[i]].record /\ file.lines[s[k]][1].record = entries[s[k]].record
    BY <1>3, <2>0
  <2>2. entries[s[i]].record.stamp \in Int /\ entries[s[k]].record.stamp \in Int
    BY <1>1, <2>1 DEF LogFits
  <2>3. CASE i = k
    BY <2>1, <2>3 DEF Later
  <2>4. CASE i < k
    <3>1. LET old == entries[s[i]].record
              new == entries[s[k]].record
          IN old.stamp < new.stamp \/ (old.stamp = new.stamp /\ s[i] < s[k])
      BY <1>5, <2>1, <2>4, SMTT(30) DEF ReadAs
    <3> QED BY <2>1, <2>2, <3>1 DEF Later
  <2> QED BY <1>8, <2>3, <2>4
<1>9. Regressed(loaded, maxDrop) <=>
        n >= 2 /\ I # {} /\ Max(I) # 0 /\ Drops(loaded[Max(I)], loaded[n], maxDrop)
  <2>1. I = {} => SelectLastInSubSeq(loaded, 1, n - 1, LAMBDA r : Comparable(r, loaded[n])) = 0
    BY DEF SelectLastInSubSeq
  <2>2. I # {} => SelectLastInSubSeq(loaded, 1, n - 1, LAMBDA r : Comparable(r, loaded[n])) = Max(I)
    BY DEF SelectLastInSubSeq
  <2>3. Regressed(loaded, maxDrop) <=>
          LET previous == SelectLastInSubSeq(loaded, 1, n - 1, LAMBDA r : Comparable(r, loaded[n]))
          IN n >= 2 /\ previous # 0 /\ Drops(loaded[previous], loaded[n], maxDrop)
    BY <1>7 DEF Regressed
  <2> HIDE DEF I
  <2> QED BY <2>1, <2>2, <2>3
<1>10. I \in SUBSET Nat /\ IsFiniteSet(I) /\ I \subseteq all /\ \A i \in I : i < n
  <2>1. IsFiniteSet(1..(n - 1)) /\ I \subseteq 1..(n - 1)
    BY <1>1, FS_Interval
  <2>2. IsFiniteSet(I)
    BY <2>1, FS_Subset
  <2> QED BY <1>1, <2>1, <2>2
<1>11. I # {} => Max(I) \in I /\ \A x \in I : Max(I) >= x
  BY <1>10, MaxIsGreatest
<1>12. \A i \in all : i \in I <=> i # n /\ Comparable(loaded[i], loaded[n])
  BY <1>1
<1> HIDE DEF I
<1>13. Worse(entries, n, maxDrop) <=>
         \E m, p \in all : /\ Newest(entries, all, m) /\ Newest(entries, earlier(m), p)
                           /\ Drops(entries[p].record, entries[m].record, maxDrop)
  <2>1. {i \in 1..n : entries[i].own} = all
    BY <1>2
  <2> QED BY <2>1 DEF Worse
\* The last of the listing is the newest, the last before it that compares the newest of those.
<1>14. n >= 1 => n \in all /\ Newest(entries, all, s[n])
  <2>1. ASSUME n >= 1, NEW x \in all PROVE Later(entries, s[n], x)
    <3>1. PICK i \in all : s[i] = x
      BY <1>6
    <3>2. n \in all /\ i <= n
      BY <1>1, <2>1
    <3> QED BY <1>8, <3>1, <3>2
  <2>2. n >= 1 => n \in all
    BY <1>1
  <2> QED BY <1>6, <2>1, <2>2 DEF Newest
<1>15. ASSUME n \in all, NEW x \in earlier(s[n]) PROVE \E i \in I : s[i] = x
  <2>1. x \in all /\ x # s[n] /\ Comparable(entries[x].record, entries[s[n]].record)
    OBVIOUS
  <2>2. PICK i \in all : s[i] = x
    BY <1>6, <2>1
  <2>3. i # n /\ Comparable(loaded[i], loaded[n])
    BY <1>6, <1>15, <2>1, <2>2
  <2> QED BY <1>12, <2>2, <2>3
<1>16. ASSUME n \in all, NEW i \in I PROVE s[i] \in earlier(s[n])
  <2>1. i \in all /\ i # n /\ Comparable(loaded[i], loaded[n])
    BY <1>10, <1>12, <1>16
  <2>2. s[i] \in all /\ s[i] # s[n] /\ Comparable(entries[s[i]].record, entries[s[n]].record)
    BY <1>6, <1>16, <2>1
  <2> QED BY <2>2
<1>17. n \in all /\ I # {} => Newest(entries, earlier(s[n]), s[Max(I)])
  <2> SUFFICES ASSUME n \in all, I # {} PROVE Newest(entries, earlier(s[n]), s[Max(I)])
    OBVIOUS
  <2>1. Max(I) \in I /\ s[Max(I)] \in earlier(s[n])
    BY <1>11, <1>16
  <2>2. ASSUME NEW x \in earlier(s[n]) PROVE Later(entries, s[Max(I)], x)
    <3>1. PICK i \in I : s[i] = x
      BY <1>15, <2>2
    <3>2. i <= Max(I) /\ i \in all /\ Max(I) \in all
      BY <1>10, <1>11, <2>1, <3>1
    <3> QED BY <1>8, <3>1, <3>2
  <2> QED BY <2>1, <2>2 DEF Newest
<1>18. all \in SUBSET (DOMAIN entries) /\ \A m : earlier(m) \in SUBSET (DOMAIN entries)
  BY <1>1
<1> HIDE DEF earlier
<1>19. ASSUME Regressed(loaded, maxDrop) PROVE Worse(entries, n, maxDrop)
  <2>1. n >= 2 /\ I # {} /\ Drops(loaded[Max(I)], loaded[n], maxDrop)
    BY <1>9, <1>19
  <2>2. n \in all /\ Max(I) \in all
    <3>1. Max(I) \in I
      BY <1>11, <2>1
    <3>2. n \in all
      BY <1>1, <2>1
    <3> QED BY <1>10, <3>1, <3>2
  <2>3. Newest(entries, all, s[n]) /\ Newest(entries, earlier(s[n]), s[Max(I)])
    BY <1>14, <1>17, <2>1, <2>2
  <2>4. s[n] \in all /\ s[Max(I)] \in all /\ Drops(entries[s[Max(I)]].record, entries[s[n]].record, maxDrop)
    BY <1>6, <2>1, <2>2
  <2> QED BY <1>13, <2>3, <2>4
<1>20. ASSUME Worse(entries, n, maxDrop) PROVE Regressed(loaded, maxDrop)
  <2>1. PICK m \in all, p \in all : /\ Newest(entries, all, m) /\ Newest(entries, earlier(m), p)
                                    /\ Drops(entries[p].record, entries[m].record, maxDrop)
    BY <1>13, <1>20
  <2>2. n \in all /\ n >= 1
    BY <1>1
  <2>3. m = s[n]
    BY <1>14, <1>18, <2>1, <2>2, NewestIsOne
  <2>4. p \in earlier(s[n])
    BY <2>1, <2>3 DEF Newest
  <2>5. I # {}
    BY <1>15, <2>2, <2>4
  <2>6. p = s[Max(I)]
    BY <1>17, <1>18, <2>1, <2>2, <2>3, <2>5, NewestIsOne
  <2>7. Max(I) \in all /\ Max(I) < n
    BY <1>10, <1>11, <2>5
  <2>8. Drops(loaded[Max(I)], loaded[n], maxDrop)
    BY <1>6, <2>1, <2>2, <2>3, <2>6, <2>7
  <2>9. n >= 2 /\ Max(I) # 0
    BY <1>1, <2>7
  <2> QED BY <1>9, <2>5, <2>8, <2>9
<1> QED BY <1>19, <1>20 DEF loaded, n

\* The steps of the jobs: no scan is a history command that has its answer.
LEMMA HistGoes ==
  ASSUME Shape, HistInv, NEW j \in DOMAIN jobs, NEW new, jobs[j].pc # "cut",
         plan[j].kind = "scan" \/ new.pc # "ended" \/ plan[j].kind = "import",
         jobs' = [jobs EXCEPT ![j] = new], plan' = plan, clock' = clock, new.stamp \in Int
  PROVE  /\ UNCHANGED <<history, log>> => HistInv'
         /\ \A record : record.stamp \in Int /\ history' = AppendRecord(history, record) /\ Logged(record) => HistInv'
<1>1. HistJob(plan[j], new, log)
  BY DEF HistJob
<1> QED BY <1>1, HistQuiet, HistGrows

\* Every step keeps the invariant of the history.
LEMMA HistStep == Shape /\ GateInv /\ HistInv /\ [Next]_vars => HistInv'
<1> SUFFICES ASSUME Shape, GateInv, HistInv, [Next]_vars PROVE HistInv'
  OBVIOUS
<1> USE DEF At
<1>0. /\ clock \in Int
      /\ \A j \in DOMAIN jobs : /\ Possible(plan[j]) /\ DOMAIN jobs[j] = JobFields /\ jobs[j].stamp \in Int
                                /\ jobs[j].pc \in Scanning => plan[j].kind = "scan"
                                /\ jobs[j].pc \in {"import", "show"} => plan[j].kind = jobs[j].pc
  BY DEF Shape, Staged, GateInv, GateJob, HistInv, HistJob
\* A stage of a scan, whatever else of its job it sets.
<1>1. ASSUME NEW j \in DOMAIN jobs, NEW job, DOMAIN job = JobFields, job.stamp \in Int, NEW code,
             Go(j, job) \/ Exit(j, job, code), plan[j].kind = "scan", jobs[j].pc # "cut",
             plan' = plan, clock' = clock
      PROVE  /\ UNCHANGED <<history, log>> => HistInv'
             /\ \A record : record.stamp \in Int /\ history' = AppendRecord(history, record) /\ Logged(record) => HistInv'
  <2>1. PICK new : jobs' = [jobs EXCEPT ![j] = new] /\ \A x \in JobFields \ {"pc", "code"} : new[x] = job[x]
    BY <1>1, GoesOn, Ends
  <2>2. new.stamp \in Int
    BY <1>1, <2>1, FieldNames
  <2> QED BY <1>1, <2>1, <2>2, HistGoes
<1>2. ASSUME NEW j \in DOMAIN jobs, Start(j) PROVE HistInv'
  <2>0. jobs[j].pc = "waiting" /\ plan' = plan /\ clock' = clock /\ UNCHANGED <<history, log>>
    BY <1>2 DEF Start
  <2>1. CASE plan[j].kind # "scan" /\ jobs' = [jobs EXCEPT ![j].pc = plan[j].kind]
    <3> DEFINE new == [jobs[j] EXCEPT !.pc = plan[j].kind]
    <3>1. jobs' = [jobs EXCEPT ![j] = new] /\ new.pc = plan[j].kind /\ new.stamp = jobs[j].stamp
      BY <1>0, <2>1, FieldNames
    <3> HIDE DEF new
    <3>2. new.pc # "ended" /\ new.stamp \in Int
      BY <1>0, <3>1 DEF Possible
    <3> QED BY <2>0, <3>1, <3>2, HistGoes
  <2>2. CASE plan[j].kind = "scan" /\ Exit(j, jobs[j], 3)
    BY <1>0, <1>1, <2>0, <2>2
  <2>3. CASE plan[j].kind = "scan" /\ Go(j, [jobs[j] EXCEPT !.found = Checkout(plan[j], plan[j].tree)])
    <3> DEFINE job == [jobs[j] EXCEPT !.found = Checkout(plan[j], plan[j].tree)]
    <3>1. DOMAIN job = JobFields /\ job.stamp \in Int
      BY <1>0, FieldNames
    <3>2. Go(j, job)
      BY <2>3
    <3> HIDE DEF job
    <3> QED BY <1>1, <2>0, <2>3, <3>1, <3>2
  <2> QED BY <1>2, <2>1, <2>2, <2>3 DEF Start
<1>3. ASSUME NEW j \in DOMAIN jobs,
             \/ Truncate(j) \/ WriteIds(j) \/ Rescore(j) \/ ScanBaseRef(j)
             \/ WriteHtml(j) \/ ListComments(j) \/ SendComment(j) \/ Gate(j)
      PROVE  HistInv'
  <2>1. jobs[j].pc \in Scanning /\ plan' = plan /\ clock' = clock /\ UNCHANGED <<history, log>>
    BY <1>3 DEF Truncate, WriteIds, Rescore, ScanBaseRef, WriteHtml, ListComments, SendComment, Gate,
                Scanning, Writing, Late
  <2>2. plan[j].kind = "scan" /\ jobs[j].pc # "cut"
    BY <1>0, <2>1 DEF Scanning, Writing, Late
  <2>3. CASE \E code : Go(j, jobs[j]) \/ Exit(j, jobs[j], code)
    BY <1>0, <1>1, <2>1, <2>2, <2>3
  <2>4. CASE \E left, scores, ranked, accepted, code :
               LET job == [jobs[j] EXCEPT !.left = left, !.scores = scores, !.ranked = ranked, !.accepted = accepted]
               IN Go(j, job) \/ Exit(j, job, code)
    <3>1. PICK left, scores, ranked, accepted, code :
               LET job == [jobs[j] EXCEPT !.left = left, !.scores = scores, !.ranked = ranked, !.accepted = accepted]
               IN Go(j, job) \/ Exit(j, job, code)
      BY <2>4
    <3> DEFINE job == [jobs[j] EXCEPT !.left = left, !.scores = scores, !.ranked = ranked, !.accepted = accepted]
    <3>2. DOMAIN job = JobFields /\ job.stamp \in Int
      BY <1>0, FieldNames
    <3>3. Go(j, job) \/ Exit(j, job, code)
      BY <3>1
    <3> HIDE DEF job
    <3> QED BY <1>1, <2>1, <2>2, <3>2, <3>3
  <2>5. CASE \E delta : Go(j, [jobs[j] EXCEPT !.delta = delta])
    <3>1. PICK delta : Go(j, [jobs[j] EXCEPT !.delta = delta])
      BY <2>5
    <3> DEFINE job == [jobs[j] EXCEPT !.delta = delta]
    <3>2. DOMAIN job = JobFields /\ job.stamp \in Int
      BY <1>0, FieldNames
    <3>3. Go(j, job)
      BY <3>1
    <3> HIDE DEF job
    <3> QED BY <1>1, <2>1, <2>2, <3>2, <3>3
  <2>6. CASE \E target, seen : Go(j, [jobs[j] EXCEPT !.target = target, !.seen = seen])
    <3>1. PICK target, seen : Go(j, [jobs[j] EXCEPT !.target = target, !.seen = seen])
      BY <2>6
    <3> DEFINE job == [jobs[j] EXCEPT !.target = target, !.seen = seen]
    <3>2. DOMAIN job = JobFields /\ job.stamp \in Int
      BY <1>0, FieldNames
    <3>3. Go(j, job)
      BY <3>1
    <3> HIDE DEF job
    <3> QED BY <1>1, <2>1, <2>2, <3>2, <3>3
  <2>7. CASE jobs' = [jobs EXCEPT ![j].pc = "gate"]
    <3> DEFINE new == [jobs[j] EXCEPT !.pc = "gate"]
    <3>1. jobs' = [jobs EXCEPT ![j] = new] /\ new.stamp = jobs[j].stamp
      BY <1>0, <2>7, FieldNames
    <3> HIDE DEF new
    <3> QED BY <1>0, <2>1, <2>2, <3>1, HistGoes
  <2>8. CASE Truncate(j) \/ WriteIds(j) \/ WriteHtml(j) \/ SendComment(j) \/ Gate(j)
    BY <2>3, <2>8 DEF Truncate, WriteIds, WriteHtml, SendComment, Gate
  <2>9. CASE Rescore(j)
    BY <2>4, <2>9 DEF Rescore
  <2>10. CASE ScanBaseRef(j)
    BY <2>3, <2>5, <2>10 DEF ScanBaseRef
  <2>11. CASE ListComments(j)
    BY <2>6, <2>7, <2>11 DEF ListComments
  <2> QED BY <1>3, <2>8, <2>9, <2>10, <2>11
<1>4. ASSUME NEW j \in DOMAIN jobs, Stamp(j) PROVE HistInv'
  <2>1. PICK late \in {0, 1} : Go(j, [jobs[j] EXCEPT !.stamp = clock - late])
    BY <1>4 DEF Stamp
  <2>2. jobs[j].pc = "stamp" /\ plan' = plan /\ clock' = clock /\ UNCHANGED <<history, log>>
    BY <1>4 DEF Stamp
  <2>3. plan[j].kind = "scan"
    BY <1>0, <2>2 DEF Scanning, Late
  <2> DEFINE job == [jobs[j] EXCEPT !.stamp = clock - late]
  <2>4. DOMAIN job = JobFields /\ job.stamp \in Int /\ Go(j, job)
    BY <1>0, <2>1, FieldNames
  <2> HIDE DEF job
  <2> QED BY <1>1, <2>2, <2>3, <2>4
<1>5. ASSUME NEW j \in DOMAIN jobs, AppendHistory(j) PROVE HistInv'
  <2>1. /\ jobs[j].pc = "append" /\ plan' = plan /\ clock' = clock /\ Go(j, jobs[j])
        /\ history' = AppendRecord(history, Record(j)) /\ Logged(Record(j))
    BY <1>5 DEF AppendHistory
  <2>2. plan[j].kind = "scan" /\ Record(j).stamp \in Int
    BY <1>0, <2>1 DEF Scanning, Late, Record
  <2> QED BY <1>0, <1>1, <2>1, <2>2
<1>6. ASSUME NEW j \in DOMAIN jobs, Import(j) PROVE HistInv'
  <2> DEFINE report == plan[j].report
             record == NormalizeReport(report, ProjectScore(report.modules))
  <2>1. jobs[j].pc = "import" /\ plan' = plan /\ clock' = clock /\ plan[j].kind = "import"
    BY <1>0, <1>6 DEF Import
  <2>2. PICK code : Exit(j, jobs[j], code)
    BY <1>6 DEF Import
  <2>3. PICK new : jobs' = [jobs EXCEPT ![j] = new] /\ \A x \in JobFields \ {"pc", "code"} : new[x] = jobs[j][x]
    BY <1>0, <2>2, Ends
  <2>4. new.stamp \in Int
    BY <1>0, <2>3, FieldNames
  <2>5. record.stamp \in Int
    BY <1>0 DEF Possible, NormalizeReport
  <2>6. UNCHANGED <<history, log>> \/ (history' = AppendRecord(history, record) /\ Logged(record))
    BY <1>6 DEF Import
  <2> HIDE DEF record
  <2>7. /\ UNCHANGED <<history, log>> => HistInv'
        /\ \A r : r.stamp \in Int /\ history' = AppendRecord(history, r) /\ Logged(r) => HistInv'
    BY <2>1, <2>3, <2>4, HistGoes
  <2> QED BY <2>5, <2>6, <2>7
<1>7. ASSUME NEW j \in DOMAIN jobs, Show(j) PROVE HistInv'
  <2> DEFINE o      == plan[j]
             intact == \A i \in DOMAIN jobs : jobs[i].pc # "cut"
             told   == Regressed(LoadHistory(history), o.maxDrop)
             job    == [jobs[j] EXCEPT !.seen = Len(log), !.intact = intact]
  <2>1. /\ jobs[j].pc = "show" /\ plan' = plan /\ clock' = clock /\ UNCHANGED <<history, log>>
        /\ Exit(j, job, IF told THEN 2 ELSE 0)
    BY <1>7 DEF Show
  <2>2. /\ DOMAIN job = JobFields /\ job.stamp = jobs[j].stamp /\ job.seen = Len(log) /\ job.intact = intact
    BY <1>0, FieldNames
  <2> HIDE DEF job
  <2>3. PICK new : /\ jobs' = [jobs EXCEPT ![j] = new] /\ new.code = IF told THEN 2 ELSE 0
                   /\ \A x \in JobFields \ {"pc", "code"} : new[x] = job[x]
    BY <2>1, <2>2, Ends
  <2>4. new.stamp = jobs[j].stamp /\ new.seen = Len(log) /\ new.intact = intact
    BY <2>2, <2>3, FieldNames
  <2>5. FileFits(history) /\ LogFits(log) /\ (intact => Whole(history, log))
    BY DEF HistInv
  <2>6. intact => (told <=> Worse(log, Len(log), o.maxDrop))
    BY <2>5, WholeTells
  <2>7. Len(log) \in 0..Len(log)
    <3>1. AnySeq(log)
      BY <2>5 DEF LogFits
    <3>2. Len(log) \in Nat
      BY <3>1, Appended
    <3> QED BY <3>2
  <2> HIDE DEF told, intact, o
  <2>8. HistJob(o, new, log)
    BY <1>0, <2>3, <2>4, <2>6, <2>7 DEF HistJob
  <2> QED BY <2>1, <2>3, <2>8, HistQuiet DEF o
<1>8. ASSUME NEW j \in DOMAIN jobs, Kill(j) PROVE HistInv'
  <2>0. jobs[j].pc \notin {"ended", "cut"} /\ plan' = plan /\ clock' = clock /\ log' = log
    BY <1>8 DEF Kill
  <2>1. PICK pc \in {"killed", "cut"} :
          /\ jobs' = [jobs EXCEPT ![j].pc = pc]
          /\ \/ pc = "killed" /\ history' = history
             \/ /\ pc = "cut" /\ jobs[j].pc = "append"
                /\ \E full \in BOOLEAN : history' = CutRecord(history, Record(j), full)
    BY <1>8 DEF Kill
  <2> DEFINE new == [jobs[j] EXCEPT !.pc = pc]
  <2>2. jobs' = [jobs EXCEPT ![j] = new] /\ new.pc = pc /\ new.stamp = jobs[j].stamp
    BY <1>0, <2>1, FieldNames
  <2> HIDE DEF new
  <2>3. HistJob(plan[j], new, log)
    BY <1>0, <2>1, <2>2 DEF HistJob
  <2>4. CASE pc = "killed"
    <3>1. UNCHANGED <<history, log>>
      BY <2>0, <2>1, <2>4
    <3> QED BY <2>0, <2>2, <2>3, <2>4, <3>1, HistQuiet
  <2>5. CASE pc = "cut"
    <3>1. PICK full \in BOOLEAN : history' = Write(history, Piece(Record(j), full), FALSE)
      BY <2>1, <2>5 DEF CutRecord
    <3>2. Record(j).stamp \in Int
      BY <1>0 DEF Record
    <3>3. FileFits(history) /\ LogFits(log) /\ Preserved(history, log)
      BY DEF HistInv
    <3>4. FileFits(history') /\ Preserved(history', log)
      BY <3>1, <3>2, <3>3, WriteKeeps
    <3>5. jobs'[j].pc = "cut" /\ DOMAIN jobs' = DOMAIN jobs
      BY <2>2, <2>5
    <3>6. \A i \in DOMAIN jobs' : HistJob(plan'[i], jobs'[i], log')
      BY <2>0, <2>2, <2>3 DEF HistInv
    <3> QED BY <1>0, <2>0, <3>3, <3>4, <3>5, <3>6 DEF HistInv
  <2> QED BY <2>4, <2>5
<1>9. ASSUME \/ \E request \in flight : Land(request) \/ Drop(request)
             \/ Tick \/ UNCHANGED vars
      PROVE  HistInv'
  <2>1. UNCHANGED <<plan, history, log, jobs>> /\ clock' \in {clock, clock + 1}
    BY <1>9 DEF Land, Drop, Tick, vars
  <2>2. clock' \in Int
    BY <1>0, <2>1
  <2> QED BY <2>1, <2>2 DEF HistInv
<1> QED BY <1>2, <1>3, <1>4, <1>5, <1>6, <1>7, <1>8, <1>9 DEF Next

\* It holds at first.
LEMMA HistInit == Init => HistInv
<1> SUFFICES ASSUME NEW s \in Scenarios, history = NoHistory, clock = 1, log = <<>>,
                    jobs = [j \in DOMAIN s.jobs |-> Waiting]
             PROVE  HistInv
  BY DEF Init
<1>1. AnySeq(<<>>) /\ DOMAIN <<>> = {}
  <2>1. <<>> \in Seq({})
    OBVIOUS
  <2> QED BY <2>1 DEF AnySeq
<1>2. FileFits(history) /\ LogFits(log) /\ Preserved(history, log) /\ Whole(history, log)
  BY <1>1 DEF FileFits, LogFits, Preserved, Whole, NoHistory
<1>3. Waiting.stamp \in Int /\ Waiting.pc = "waiting"
  BY DEF Waiting
<1>4. \A o : HistJob(o, Waiting, log)
  BY <1>3 DEF HistJob
<1> QED BY <1>2, <1>4 DEF HistInv

\* So it holds of every behaviour.
LEMMA HistInvariant == Spec => []HistInv
<1>1. Spec => [](Shape /\ GateInv)
  BY StickyInvariant, GateInvariant, PTL
<1> QED BY <1>1, HistInit, HistStep, PTL DEF Spec

\* However the appends come between each other, and wherever one is interrupted: what was completed
\* on a line of its own is read, in the order of the clocks; and what a command says of the history
\* was so.
THEOREM HistoryIsTold == Spec => []HistoryTells
<1>1. Shape /\ HistInv => HistoryTells
  <2> SUFFICES ASSUME Shape, HistInv PROVE HistoryTells
    OBVIOUS
  <2>1. FileFits(history) /\ LogFits(log) /\ Preserved(history, log)
    BY DEF HistInv
  <2>2. /\ \A i \in DOMAIN log : log[i].own =>
             \E k \in DOMAIN LoadHistory(history) : LoadHistory(history)[k] = log[i].record
        /\ \A i, k \in DOMAIN LoadHistory(history) :
             i < k => LoadHistory(history)[i].stamp <= LoadHistory(history)[k].stamp
    BY <2>1, LoadedTells
  <2>3. \A i \in Kept(Len(log)) : i \in DOMAIN log /\ log[i].own
    <3>1. AnySeq(log)
      BY <2>1 DEF LogFits
    <3>2. DOMAIN log = 1..Len(log)
      BY <3>1, Appended
    <3> QED BY <3>2 DEF Kept
  <2> DEFINE newest(set) == CHOOSE i \in set : \A k \in set : Later(log, i, k)
  <2>4. ASSUME NEW j \in DOMAIN jobs, jobs[j].pc = "ended", plan[j].kind = "show", jobs[j].intact
        PROVE  LET all     == Kept(jobs[j].seen)
                   last    == newest(all)
                   earlier == {i \in all \ {last} : Comparable(log[i].record, log[last].record)}
               IN jobs[j].code = IF /\ all # {} /\ earlier # {}
                                    /\ Drops(log[newest(earlier)].record, log[last].record, plan[j].maxDrop)
                                 THEN 2 ELSE 0
    <3> DEFINE n == jobs[j].seen
               d == plan[j].maxDrop
    <3>1. n \in 0..Len(log) /\ jobs[j].code = IF Worse(log, n, d) THEN 2 ELSE 0
      BY <2>4 DEF HistInv, HistJob
    <3> HIDE DEF n, d
    <3>2. Worse(log, n, d) <=> WorseByChoice(log, n, d)
      BY <2>1, <3>1, WorseIsChosen
    <3> QED BY <3>1, <3>2 DEF WorseByChoice, Kept, n, d
  <2> HIDE DEF newest
  <2> QED BY <2>2, <2>3, <2>4 DEF HistoryTells, At, Later, newest
<1>2. Spec => []Shape
  BY StickyInvariant, PTL
<1> QED BY <1>1, <1>2, HistInvariant, PTL
=============================================================================
