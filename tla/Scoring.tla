------------------------------- MODULE Scoring -------------------------------
(***************************************************************************)
(* The score of a module and the order its findings are best fixed in      *)
(* (core/scoring.py, core/roi.py), and the findings a reader or a gate is  *)
(* shown (core/surfaces.py).                                               *)
(*                                                                         *)
(* Numbers are counted in tenths of a point.  The code adds and subtracts  *)
(* floats, which may lie a hair beside the number they stand for, cuts     *)
(* them to whole points and rounds them to tenths.  Where a hair decides,  *)
(* Above and Low say how.  Two gains that are the same are taken in the    *)
(* order of places, where in the code a hair may come first; a mean over   *)
(* modules that ties is rounded up.                                        *)
(***************************************************************************)
EXTENDS Integers, Sequences, FiniteSets, FiniteSetsExt, SequencesExt

CONSTANTS Categories, \* the categories, in their order
          Weight,     \* category -> its weight, in tenths
          Scope,      \* the categories with an active rule
          Effort,     \* rule -> EFFORT_BY_RULE: 1, 2 or 3
          Above(_, _), \* findings added up in a category, and those of them taken off again:
                      \* whether the float lies above what is left
          Low,        \* the least score and the sum of the scores whose blend lies below its tie
          Names       \* the rules and files in alphabetical order

Tiers      == <<"P0", "P1", "P2", "P3">>
TierPoints == [P0 |-> 25, P1 |-> 10, P2 |-> 4, P3 |-> 1]

ASSUME ScoringAssumption ==
  /\ Categories \in Seq(STRING) /\ Names \in Seq(STRING)
  /\ Weight \in [ToSet(Categories) -> Nat]
  /\ Scope \subseteq ToSet(Categories)
  /\ \A r \in DOMAIN Effort : Effort[r] \in 1..3

\* What scoring deducts for a finding.
Points(f) == TierPoints[f.tier] * Weight[f.category]

Counts(f, withMedium) ==
  /\ f.confidence = "high" \/ (withMedium /\ f.confidence = "medium")
  /\ f.category \in ToSet(Categories)

Impact(set) == [c \in ToSet(Categories) |-> MapThenSumSet(Points, {f \in set : f.category = c})]

\* Halves are floats of their own, and so is what is added up of nothing.
Inexact(c) == Weight[c] % 5 # 0

\* The categories whose float lies above their impact.
Drifted(from, gone) ==
  LET of(set, c) == {f \in set : f.category = c}
  IN {c \in ToSet(Categories) : Inexact(c) /\ of(from, c) # {} /\ Above(of(from, c), of(gone, c))}

\* A number that lies a hair below a / b is cut to the whole one below it.
Cut(a, b, below) == (IF below THEN a - 1 ELSE a) \div b

CategoryScores(impact, above) ==
  [c \in DOMAIN impact |-> IF impact[c] >= 1000 THEN 0 ELSE Cut(1000 - impact[c], 10, c \in above)]

SumOver(scores) == MapThenSumSet(LAMBDA c : scores[c], Scope)
LeastOf(scores) == Min({scores[c] : c \in Scope})

Rounded(a, b, low) == Cut(2 * a + b, 2 * b, low)

\* 0.4 of the weakest category and 0.6 of the mean over those in scope.
BlendOverall(scores) ==
  LET n     == Cardinality(Scope)
      least == LeastOf(scores)
      sum   == SumOver(scores)
  IN IF n = 0 THEN 1000 ELSE Rounded(4 * least * n + 6 * sum, n, <<least, sum>> \in Low)

\* The score of some findings, of which others have been taken off one by one.
Running(from, gone, impact) == BlendOverall(CategoryScores(impact, Drifted(from, gone)))

Overall(set, withMedium) ==
  LET counted == {f \in set : Counts(f, withMedium)} IN Running(counted, {}, Impact(counted))

\* The mean over the modules.
ProjectScore(overall) ==
  LET n == Cardinality(DOMAIN overall)
  IN IF n = 0 THEN 1000 ELSE Rounded(MapThenSumSet(LAMBDA m : overall[m], DOMAIN overall), n, FALSE)
-----------------------------------------------------------------------------
(* roi.py *)

EffortOf(f) == IF f.fixable THEN 1 ELSE Effort[f.rule]

Rank(name) == CHOOSE i \in DOMAIN Names : Names[i] = name
TierRank(f) == CHOOSE i \in 1..4 : Tiers[i] = f.tier

\* The points for each sixth of effort: 6 is divisible by every effort.
PerEffort(points, f) == points * (6 \div EffortOf(f))

\* The static order: return on effort, tier, place, rule.
Order(f) == <<-PerEffort(Points(f), f), TierRank(f), Rank(f.file), f.line, Rank(f.rule)>>

Precedes(s, t) == \E i \in DOMAIN s : s[i] < t[i] /\ \A j \in 1..(i - 1) : s[j] = t[j]

First(set, key(_)) == CHOOSE f \in set : \A g \in set \ {f} : ~Precedes(key(g), key(f))

\* The blend without floor and rounding, times the number of categories in scope.
VirtualOverall(raw) == 4 * LeastOf(raw) * Cardinality(Scope) + 6 * SumOver(raw)

Gain(raw, f) == VirtualOverall([raw EXCEPT ![f.category] = @ + Points(f)]) - VirtualOverall(raw)

\* The next finding of each category, and of those the one that gains most for its effort.
NextFix(left, raw) ==
  LET of(c)   == {f \in left : f.category = c}
      head(c) == First(of(c), Order)
      inScope == {head(c) : c \in {d \in Scope : of(d) # {}}}
      key(f)  == <<-PerEffort(Gain(raw, f), f)>> \o Order(f)
      outside == {i \in DOMAIN Categories : of(Categories[i]) # {}}
  IN IF inScope # {} THEN First(inScope, key) ELSE head(Categories[Min(outside)])

\* Mutant: the score after a fix is taken before the fix.
TakeLate(s, f) ==
  LET projected == Running(s.from, s.from \ s.left, s.impact)
  IN [from |-> s.from, left |-> s.left \ {f}, previous |-> projected,
      raw |-> [s.raw EXCEPT ![f.category] = @ + Points(f)],
      impact |-> [s.impact EXCEPT ![f.category] = @ - Points(f)],
      ranked |-> Append(s.ranked, [fix |-> f, projected |-> projected, gain |-> projected - s.previous])]

Take(s, f) ==
  LET impact    == [s.impact EXCEPT ![f.category] = @ - Points(f)]
      left      == s.left \ {f}
      projected == Running(s.from, s.from \ left, impact)
  IN [from |-> s.from, left |-> left, previous |-> projected, impact |-> impact,
      raw |-> [s.raw EXCEPT ![f.category] = @ + Points(f)],
      ranked |-> Append(s.ranked, [fix |-> f, projected |-> projected, gain |-> projected - s.previous])]

\* Best-first fix suggestions.
RankFixes(set) ==
  LET counted == {f \in set : Counts(f, FALSE)}
      impact  == Impact(counted)
      start   == [from |-> counted, left |-> counted, impact |-> impact, ranked |-> <<>>,
                  raw |-> [c \in DOMAIN impact |-> 1000 - impact[c]],
                  previous |-> Running(counted, {}, impact)]
      after[k \in 0..Cardinality(counted)] ==
        IF k = 0 THEN start ELSE LET s == after[k - 1] IN Take(s, NextFix(s.left, s.raw))
  IN after[Cardinality(counted)].ranked
-----------------------------------------------------------------------------
(* surfaces.py *)

ConfidenceRank(confidence) ==
  CASE confidence = "high" -> 3 [] confidence = "medium" -> 2 [] confidence = "low" -> 1 [] OTHER -> 0

FilterForSurface(set, surface) ==
  {f \in set : /\ ConfidenceRank(f.confidence) >= ConfidenceRank(surface.confidence)
               /\ surface.categories # {} => f.category \in surface.categories
               /\ surface.tiers # {} => f.tier \in surface.tiers}
=============================================================================
