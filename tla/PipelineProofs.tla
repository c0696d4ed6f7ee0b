--------------------------- MODULE PipelineProofs ---------------------------
(***************************************************************************)
(* For every registry, configuration and list of findings: the stages      *)
(* compute what StagesExact says, so no finding is in two of the lists the *)
(* suppression counts are made of, and no comment is counted against a     *)
(* rule the configuration has already silenced.  And for every text and    *)
(* whatever is typed: a quick fix that writes a comment takes away its     *)
(* finding and nothing else.                                               *)
(***************************************************************************)
EXTENDS Pipeline, EditorActions, SetInduction, SequenceTheorems, FunctionTheorems, TLAPS

Stages == {"normalize", "deduplicate", "severity", "ignore", "inline", "gate", "stats", "score", "done"}

\* The invariant: the shape of the state and StagesExact.
IInv ==
  /\ stage \in Stages
  /\ diags \subseteq Position
  /\ dropped \in [Channel -> SUBSET Position]
  /\ StagesExact

USE DEF Channel, Stages

\* The lists depend on the input and the resolved files alone.
LEMMA ListsStay ==
  ASSUME UNCHANGED <<input, file>>
  PROVE  /\ Different' = Different /\ SwitchedOn' = SwitchedOn /\ NotIgnored' = NotIgnored
         /\ Visible' = Visible /\ OffCount' = OffCount /\ IgnoreCount' = IgnoreCount
         /\ InlineCount' = InlineCount
         /\ Gate(Visible)' = Gate(Visible) /\ Gate(OffCount)' = Gate(OffCount)
         /\ Gate(IgnoreCount)' = Gate(IgnoreCount) /\ Gate(InlineCount)' = Gate(InlineCount)
<1>1. Different' = Different
  BY DEF input, Different, Best, SameFinding, Better, ConfidenceRank, SourceRank, Position
<1>2. \A i : /\ SwitchedOff(i)' = SwitchedOff(i) /\ IgnoredRule(i)' = IgnoredRule(i)
             /\ OutOfScope(i)' = OutOfScope(i) /\ Suppressed(i)' = Suppressed(i)
             /\ Runs(i)' = Runs(i)
  BY DEF input, SwitchedOff, IgnoredRule, OutOfScope, Suppressed, Suppressions, Runs, RuleIsEnabled, Capabilities, AtLeast
<1> QED BY <1>1, <1>2 DEF SwitchedOn, NotIgnored, Visible, OffCount, IgnoreCount, InlineCount, Gate

\* Every step keeps the invariant.
LEMMA Step == IInv /\ [Next]_vars => IInv'
<1> SUFFICES ASSUME IInv, [Next]_vars PROVE IInv'
  OBVIOUS
<1> USE DEF IInv, StagesExact, Lists
<1>1. CASE Normalize
  BY <1>1 DEF Normalize, At, Position
<1>2. CASE Deduplicate
  <2>1. diags' = Different /\ diags' \subseteq Position
    BY <1>2 DEF Deduplicate, At, Different, Best
  <2> QED BY <1>2, <2>1, ListsStay DEF Deduplicate, At, Position
<1>3. CASE ApplySeverity
  <2>1. /\ diags = Different /\ stage = "severity" /\ stage' = "ignore"
        /\ dropped' = [dropped EXCEPT !["severity_off"] = InScope({i \in diags : SwitchedOff(i)})]
        /\ diags' = {i \in diags : ~SwitchedOff(i)} /\ UNCHANGED <<input, file>>
    BY <1>3 DEF ApplySeverity, At
  <2>2. diags' = SwitchedOn /\ InScope({i \in diags : SwitchedOff(i)}) = OffCount
    BY <2>1 DEF SwitchedOn, OffCount, InScope
  <2> QED BY <2>1, <2>2, ListsStay DEF OffCount, Position
<1>4. CASE ApplyIgnore
  <2>1. /\ diags = SwitchedOn
        /\ stage = "ignore" /\ stage' = "inline"
        /\ dropped' = [dropped EXCEPT !["ignore_rule"] = InScope({i \in diags : IgnoredRule(i)})]
        /\ diags' = InScope({i \in diags : ~IgnoredRule(i)}) /\ UNCHANGED <<input, file>>
    BY <1>4 DEF ApplyIgnore, At
  <2>2. diags' = NotIgnored /\ InScope({i \in diags : IgnoredRule(i)}) = IgnoreCount
    BY <2>1 DEF NotIgnored, IgnoreCount, InScope
  <2> QED BY <2>1, <2>2, ListsStay DEF NotIgnored, IgnoreCount, Position
<1>5. CASE ApplyInline
  <2>1. /\ diags = NotIgnored /\ stage = "inline" /\ stage' = "gate"
        /\ dropped' = [dropped EXCEPT !["inline"] = {i \in diags : Suppressed(i)}]
        /\ diags' = {i \in diags : ~Suppressed(i)} /\ UNCHANGED <<input, file>>
    BY <1>5 DEF ApplyInline, At
  <2>2. diags' = Visible /\ {i \in diags : Suppressed(i)} = InlineCount
    BY <2>1 DEF Visible, InlineCount
  <2> QED BY <2>1, <2>2, ListsStay DEF Visible, InlineCount, Position
<1>6. CASE ApplyGates
  <2>1. /\ diags = Visible /\ Lists(OffCount, IgnoreCount, InlineCount) /\ stage' = "stats"
        /\ diags' = Gate(diags) /\ dropped' = [c \in Channel |-> Gate(dropped[c])]
        /\ UNCHANGED <<input, file>>
    BY <1>6 DEF ApplyGates, At
  <2>2. diags' = Gate(Visible) /\ Lists(Gate(OffCount), Gate(IgnoreCount), Gate(InlineCount))'
    BY <2>1, ListsStay
  <2>3. \A set \in SUBSET Position : Gate(set) \in SUBSET Position
    BY DEF Gate
  <2>4. diags' \subseteq Position /\ dropped' \in [Channel -> SUBSET Position]
    BY <2>1, <2>3
  <2> QED BY <2>1, <2>2, <2>4, ListsStay DEF Position
<1>7. CASE BuildStats
  BY <1>7, ListsStay DEF BuildStats, At, Position
<1>8. CASE MarkScoreEligibility
  BY <1>8, ListsStay DEF MarkScoreEligibility, At, Position
<1>9. CASE UNCHANGED vars
  BY <1>9, ListsStay DEF vars, input, Position
<1> QED BY <1>1, <1>2, <1>3, <1>4, <1>5, <1>6, <1>7, <1>8, <1>9 DEF Next

\* The invariant holds throughout.
LEMMA Invariant == Spec => []IInv
<1>1. Init => IInv
  BY DEF Init, Start, Nothing, IInv, StagesExact, Lists
<1> QED BY <1>1, Step, PTL DEF Spec

\* The lists hold exactly what the filters up to the present stage leave and take.
THEOREM StagesAreExact == Spec => []StagesExact
<1>1. IInv => StagesExact
  BY DEF IInv
<1> QED BY <1>1, Invariant, PTL

\* A finding that is shown is in no channel, and none is in two.
THEOREM CountedOnce == Spec => []ChannelsDisjoint
<1>1. IInv => ChannelsDisjoint
  <2> SUFFICES ASSUME IInv PROVE ChannelsDisjoint
    OBVIOUS
  <2>1. /\ OffCount \cap SwitchedOn = {} /\ IgnoreCount \cap NotIgnored = {} /\ InlineCount \cap Visible = {}
        /\ IgnoreCount \subseteq SwitchedOn /\ NotIgnored \subseteq SwitchedOn
        /\ InlineCount \subseteq NotIgnored /\ Visible \subseteq NotIgnored
    BY DEF OffCount, SwitchedOn, IgnoreCount, NotIgnored, InlineCount, Visible
  <2>2. \A set : Gate(set) \subseteq set
    BY DEF Gate
  <2>3. /\ diags \cap dropped["severity_off"] = {} /\ diags \cap dropped["ignore_rule"] = {}
        /\ diags \cap dropped["inline"] = {}
        /\ dropped["severity_off"] \cap dropped["ignore_rule"] = {}
        /\ dropped["severity_off"] \cap dropped["inline"] = {}
        /\ dropped["ignore_rule"] \cap dropped["inline"] = {}
    <3>1. CASE stage \in {"stats", "score", "done"}
      BY <3>1, <2>1, <2>2 DEF IInv, StagesExact, Lists
    <3>2. CASE stage \notin {"stats", "score", "done"}
      BY <3>2, <2>1 DEF IInv, StagesExact, Lists
    <3> QED BY <3>1, <3>2
  <2> QED BY <2>3 DEF ChannelsDisjoint
<1> QED BY <1>1, Invariant, PTL

\* A comment is never counted against a rule that the configuration switches off or ignores.
THEOREM ConfigFirst ==
  Spec => [](\A i \in dropped["inline"] : ~SwitchedOff(i) /\ ~IgnoredRule(i))
<1>1. IInv => \A i \in dropped["inline"] : ~SwitchedOff(i) /\ ~IgnoredRule(i)
  <2>1. IInv => dropped["inline"] \subseteq InlineCount
    BY DEF IInv, StagesExact, Lists, Gate
  <2> QED BY <2>1 DEF InlineCount, NotIgnored, SwitchedOn
<1> QED BY <1>1, Invariant, PTL
-----------------------------------------------------------------------------
(* Types *)

\* Counting positions gives a number.
LEMMA PositionsFinite ==
  \A S \in SUBSET Position : IsFiniteSet(S) /\ Cardinality(S) \in Nat
<1>1. IsFiniteSet(Position)
  BY PipelineAssumption, FS_Interval DEF Position
<1> QED BY <1>1, FS_Subset, FS_CardinalityType

\* What the last two stages compute from the lists.
Sure(set) == {i \in set : finding[i].confidence = "high" /\ finding[i].category # "other"}

Counted ==
  /\ eligible = IF stage = "done" THEN Sure(diags) ELSE {}
  /\ Built => \A m \in Module, r \in Rule :
       /\ stats[m][r].surfaced = Of(diags, m, r)
       /\ stats[m][r].severity_off = Of(dropped["severity_off"], m, r)
       /\ stats[m][r].ignore_rule = Of(dropped["ignore_rule"], m, r)
       /\ stats[m][r].inline = Of(dropped["inline"], m, r)

\* The counts depend on the findings and the lists alone.
LEMMA CountsStay ==
  ASSUME UNCHANGED <<finding, diags, dropped>>
  PROVE  /\ \A m, r : Of(diags, m, r)' = Of(diags, m, r)
         /\ \A m, r : Of(dropped["severity_off"], m, r)' = Of(dropped["severity_off"], m, r)
         /\ \A m, r : Of(dropped["ignore_rule"], m, r)' = Of(dropped["ignore_rule"], m, r)
         /\ \A m, r : Of(dropped["inline"], m, r)' = Of(dropped["inline"], m, r)
         /\ Sure(diags)' = Sure(diags)
<1>1. ASSUME NEW m, NEW r PROVE Of(diags, m, r)' = Of(diags, m, r)
  <2>1. {i \in diags' : finding'[i].module = m /\ finding'[i].rule = r}
          = {i \in diags : finding[i].module = m /\ finding[i].rule = r}
    OBVIOUS
  <2> QED BY <2>1, Zenon DEF Of
<1>2. ASSUME NEW m, NEW r PROVE Of(dropped["severity_off"], m, r)' = Of(dropped["severity_off"], m, r)
  <2>1. {i \in dropped'["severity_off"] : finding'[i].module = m /\ finding'[i].rule = r}
          = {i \in dropped["severity_off"] : finding[i].module = m /\ finding[i].rule = r}
    OBVIOUS
  <2> QED BY <2>1, Zenon DEF Of
<1>3. ASSUME NEW m, NEW r PROVE Of(dropped["ignore_rule"], m, r)' = Of(dropped["ignore_rule"], m, r)
  <2>1. {i \in dropped'["ignore_rule"] : finding'[i].module = m /\ finding'[i].rule = r}
          = {i \in dropped["ignore_rule"] : finding[i].module = m /\ finding[i].rule = r}
    OBVIOUS
  <2> QED BY <2>1, Zenon DEF Of
<1>4. ASSUME NEW m, NEW r PROVE Of(dropped["inline"], m, r)' = Of(dropped["inline"], m, r)
  <2>1. {i \in dropped'["inline"] : finding'[i].module = m /\ finding'[i].rule = r}
          = {i \in dropped["inline"] : finding[i].module = m /\ finding[i].rule = r}
    OBVIOUS
  <2> QED BY <2>1, Zenon DEF Of
<1>5. Sure(diags)' = Sure(diags)
  BY DEF Sure
<1> QED BY <1>1, <1>2, <1>3, <1>4, <1>5

\* A row of counts has its type.
LEMMA RowType ==
  ASSUME NEW a \in Nat, NEW b \in Nat, NEW c \in Nat, NEW d \in Nat
  PROVE  [surfaced |-> a, severity_off |-> b, ignore_rule |-> c, inline |-> d]
           \in [Channel \cup {"surfaced"} -> Nat]
<1> DEFINE row == [surfaced |-> a, severity_off |-> b, ignore_rule |-> c, inline |-> d]
<1>1. DOMAIN row = Channel \cup {"surfaced"}
  OBVIOUS
<1>2. \A x \in Channel \cup {"surfaced"} : row[x] \in Nat
  OBVIOUS
<1>3. row = [x \in Channel \cup {"surfaced"} |-> row[x]]
  BY <1>1
<1> HIDE DEF row
<1>4. row \in [Channel \cup {"surfaced"} -> Nat]
  BY <1>2, <1>3
<1> QED BY <1>4 DEF row

\* Every step keeps the types.
LEMMA TypeStep == TypeOK /\ Counted /\ [Next]_vars => TypeOK' /\ Counted'
<1> SUFFICES ASSUME TypeOK, Counted, [Next]_vars PROVE TypeOK' /\ Counted'
  OBVIOUS
<1> USE DEF TypeOK, Counted, Built
<1>1. finding \in [Position -> Diagnostics] /\ config \in Config
  BY PipelineAssumption
<1>2. CASE Normalize
  <2>1. \A i \in Position : Norm[finding[i].path] \in File
    BY <1>1, PipelineAssumption
  <2> QED BY <1>2, <2>1 DEF Normalize, At, input
<1>3. CASE Deduplicate
  <2>1. diags' \subseteq diags /\ stage = "deduplicate" /\ stage' = "severity"
        /\ UNCHANGED <<input, file, severity, dropped, stats, eligible>>
    BY <1>3 DEF Deduplicate, At, Best
  <2> QED BY <2>1 DEF input
<1>4. CASE ApplySeverity
  <2>1. /\ diags' \subseteq diags /\ stage' = "ignore" /\ stage = "severity"
        /\ dropped' = [dropped EXCEPT !["severity_off"] = InScope({i \in diags : SwitchedOff(i)})]
        /\ diags' = {i \in diags : ~SwitchedOff(i)}
        /\ severity' = [i \in Position |->
             IF i \in diags' /\ config.overrides[finding[i].rule] # None
             THEN config.overrides[finding[i].rule] ELSE severity[i]]
        /\ UNCHANGED <<input, file, stats, eligible>>
    BY <1>4 DEF ApplySeverity, At
  <2>2. \A i \in Position : i \in diags' /\ config.overrides[finding[i].rule] # None
                              => config.overrides[finding[i].rule] \in Severity
    <3> SUFFICES ASSUME NEW i \in Position, i \in diags', config.overrides[finding[i].rule] # None
                 PROVE  config.overrides[finding[i].rule] \in Severity
      OBVIOUS
    <3>1. finding[i].rule \in Rule
      BY <1>1, PipelineAssumption
    <3>2. config.overrides[finding[i].rule] \in Override
      BY <1>1, <3>1 DEF Config
    <3>3. config.overrides[finding[i].rule] # "off"
      BY <2>1 DEF SwitchedOff
    <3> QED BY <3>2, <3>3 DEF Override
  <2>3. severity' \in [Position -> Severity]
    BY <2>1, <2>2
  <2>4. InScope({i \in diags : SwitchedOff(i)}) \in SUBSET Position
    BY DEF InScope
  <2>5. dropped' \in [Channel -> SUBSET Position]
    BY <2>1, <2>4
  <2> QED BY <2>1, <2>3, <2>5 DEF input
<1>5. CASE ApplyIgnore
  <2>1. /\ diags' \subseteq diags /\ stage' = "inline" /\ stage = "ignore"
        /\ dropped' = [dropped EXCEPT !["ignore_rule"] = InScope({i \in diags : IgnoredRule(i)})]
        /\ UNCHANGED <<input, file, severity, stats, eligible>>
    BY <1>5 DEF ApplyIgnore, At, InScope
  <2>2. InScope({i \in diags : IgnoredRule(i)}) \in SUBSET Position
    BY DEF InScope
  <2>3. dropped' \in [Channel -> SUBSET Position]
    BY <2>1, <2>2
  <2> QED BY <2>1, <2>3 DEF input
<1>6. CASE ApplyInline
  <2>1. /\ diags' \subseteq diags /\ stage' = "gate" /\ stage = "inline"
        /\ dropped' = [dropped EXCEPT !["inline"] = {i \in diags : Suppressed(i)}]
        /\ UNCHANGED <<input, file, severity, stats, eligible>>
    BY <1>6 DEF ApplyInline, At
  <2>2. dropped' \in [Channel -> SUBSET Position]
    BY <2>1
  <2> QED BY <2>1, <2>2 DEF input
<1>7. CASE ApplyGates
  <2>1. /\ diags' \subseteq diags /\ stage' = "stats" /\ stage = "gate"
        /\ dropped' = [c \in Channel |-> Gate(dropped[c])]
        /\ UNCHANGED <<input, file, severity, stats, eligible>>
    BY <1>7 DEF ApplyGates, At, Gate
  <2>2. \A S \in SUBSET Position : Gate(S) \in SUBSET Position
    BY DEF Gate
  <2>3. dropped' \in [Channel -> SUBSET Position]
    BY <2>1, <2>2
  <2> QED BY <2>1, <2>3 DEF input
<1>8. CASE BuildStats
  <2>1. /\ stage' = "score" /\ stage = "stats"
        /\ stats' = [m \in Module |-> [r \in Rule |->
             [surfaced |-> Of(diags, m, r), severity_off |-> Of(dropped["severity_off"], m, r),
              ignore_rule |-> Of(dropped["ignore_rule"], m, r), inline |-> Of(dropped["inline"], m, r)]]]
        /\ UNCHANGED <<input, file, severity, diags, dropped, eligible>>
    BY <1>8 DEF BuildStats, At
  <2>2. \A S \in SUBSET Position : \A m, r : Of(S, m, r) \in Nat
    BY PositionsFinite DEF Of
  <2>3. \A m, r : [surfaced |-> Of(diags, m, r), severity_off |-> Of(dropped["severity_off"], m, r),
                   ignore_rule |-> Of(dropped["ignore_rule"], m, r), inline |-> Of(dropped["inline"], m, r)]
                     \in [Channel \cup {"surfaced"} -> Nat]
    BY <2>2, RowType
  <2>4. stats' \in [Module -> [Rule -> [Channel \cup {"surfaced"} -> Nat]]]
    BY <2>1, <2>3
  <2>5. finding' = finding
    BY <2>1 DEF input
  <2>6. Counted'
    <3>1. UNCHANGED <<finding, diags, dropped>>
      BY <2>1, <2>5
    <3>2. ASSUME NEW m \in Module, NEW r \in Rule
          PROVE  /\ stats'[m][r].surfaced = Of(diags, m, r)'
                 /\ stats'[m][r].severity_off = Of(dropped["severity_off"], m, r)'
                 /\ stats'[m][r].ignore_rule = Of(dropped["ignore_rule"], m, r)'
                 /\ stats'[m][r].inline = Of(dropped["inline"], m, r)'
      <4>1. /\ stats'[m][r].surfaced = Of(diags, m, r)
            /\ stats'[m][r].severity_off = Of(dropped["severity_off"], m, r)
            /\ stats'[m][r].ignore_rule = Of(dropped["ignore_rule"], m, r)
            /\ stats'[m][r].inline = Of(dropped["inline"], m, r)
        BY <2>1
      <4> QED BY <3>1, <4>1, CountsStay
    <3> QED BY <2>1, <3>2
  <2>7. TypeOK'
    BY <2>1, <2>4 DEF input
  <2> QED BY <2>6, <2>7
<1>9. CASE MarkScoreEligibility
  <2>1. /\ stage' = "done" /\ stage = "score" /\ eligible' = Sure(diags)
        /\ UNCHANGED <<input, file, severity, diags, dropped, stats>>
    BY <1>9 DEF MarkScoreEligibility, At, Sure
  <2>2. finding' = finding /\ Sure(diags) \subseteq diags
    BY <2>1 DEF input, Sure
  <2>3. Counted'
    <3>1. UNCHANGED <<stage, stats>> \/ Built'
      BY <2>1
    <3> QED BY <2>1, <2>2, CountsStay
  <2>4. TypeOK'
    BY <2>1, <2>2 DEF input
  <2> QED BY <2>3, <2>4
<1>10. CASE UNCHANGED vars
  BY <1>10, CountsStay DEF vars, input
<1> QED BY <1>2, <1>3, <1>4, <1>5, <1>6, <1>7, <1>8, <1>9, <1>10 DEF Next

\* The state keeps its types.
THEOREM TypeCorrect == Spec => [](TypeOK /\ Counted)
<1>1. Init => TypeOK /\ Counted
  <2> SUFFICES ASSUME Init PROVE TypeOK /\ Counted
    OBVIOUS
  <2>1. severity \in [Position -> Severity]
    BY PipelineAssumption DEF Init, Start
  <2>2. [surfaced |-> 0, severity_off |-> 0, ignore_rule |-> 0, inline |-> 0] \in [Channel \cup {"surfaced"} -> Nat]
    BY RowType
  <2>3. stats \in [Module -> [Rule -> [Channel \cup {"surfaced"} -> Nat]]]
    BY <2>2 DEF Init, Start, NoCount
  <2> QED BY <2>1, <2>3 DEF Init, Start, Nothing, TypeOK, Counted, Built
<1> QED BY <1>1, TypeStep, PTL DEF Spec
-----------------------------------------------------------------------------
(* The best of a group *)

\* Findings that say the same form groups.
LEMMA SameGroups ==
  /\ \A i : SameFinding(i, i)
  /\ \A i, j : SameFinding(i, j) => SameFinding(j, i)
  /\ \A i, j, k : SameFinding(i, j) /\ SameFinding(j, k) => SameFinding(i, k)
  BY DEF SameFinding

\* Better puts the findings in an order.
LEMMA BetterOrders ==
  ASSUME TypeOK, NEW i \in Position, NEW j \in Position, NEW k \in Position
  PROVE  /\ i # j => Better(i, j) \/ Better(j, i)
         /\ ~(Better(i, j) /\ Better(j, i))
         /\ Better(i, j) /\ Better(j, k) => Better(i, k)
<1>1. \A p \in Position : /\ ConfidenceRank(p) \in Nat /\ SourceRank(p) \in Nat
                          /\ finding[p].length \in Nat /\ p \in Nat
  <2> SUFFICES ASSUME NEW p \in Position
               PROVE  /\ ConfidenceRank(p) \in Nat /\ SourceRank(p) \in Nat
                      /\ finding[p].length \in Nat /\ p \in Nat
    OBVIOUS
  <2>1. finding[p] \in Diagnostics
    BY DEF TypeOK
  <2>2. finding[p].length \in Nat
    BY <2>1, PipelineAssumption
  <2> QED BY <2>2, PipelineAssumption DEF ConfidenceRank, SourceRank, Position
<1> HIDE DEF Position
<1> QED BY <1>1 DEF Better

\* Every group has a best finding, and it is at least as sure as any other.
LEMMA BestOfGroup ==
  ASSUME TypeOK, NEW i \in Position
  PROVE  \E b \in Different : SameFinding(i, b) /\ (b = i \/ Better(b, i))
<1> DEFINE Best1(n) == \E b \in 1..n : /\ SameFinding(i, b)
                                       /\ \A j \in 1..n : SameFinding(i, j) /\ j # b => Better(b, j)
           S == {n \in Nat : n <= N => (\A j \in 1..n : ~SameFinding(i, j)) \/ Best1(n)}
<1>0. N \in Nat /\ Position = 1..N
  BY PipelineAssumption DEF Position
<1>1. 0 \in S
  OBVIOUS
<1>2. ASSUME NEW n \in Nat, n \in S PROVE n + 1 \in S
  <2> SUFFICES ASSUME n + 1 <= N, \E j \in 1..(n + 1) : SameFinding(i, j) PROVE Best1(n + 1)
    OBVIOUS
  <2>1. n <= N /\ 1..(n + 1) = 1..n \cup {n + 1} /\ 1..(n + 1) \subseteq Position /\ n + 1 \notin 1..n
    BY <1>0
  <2>2. CASE \A j \in 1..n : ~SameFinding(i, j)
    BY <2>1, <2>2
  <2>3. CASE Best1(n)
    <3>1. PICK b \in 1..n : /\ SameFinding(i, b)
                            /\ \A j \in 1..n : SameFinding(i, j) /\ j # b => Better(b, j)
      BY <2>3
    <3>2. CASE SameFinding(i, n + 1) /\ Better(n + 1, b)
      <4>1. \A j \in 1..n : SameFinding(i, j) => Better(n + 1, j)
        <5> SUFFICES ASSUME NEW j \in 1..n, SameFinding(i, j) PROVE Better(n + 1, j)
          OBVIOUS
        <5>1. b \in Position /\ n + 1 \in Position /\ j \in Position
          BY <2>1
        <5>2. j = b \/ Better(b, j)
          BY <3>1
        <5> QED BY <3>2, <5>1, <5>2, BetterOrders
      <4> QED BY <2>1, <3>2, <4>1
    <3>3. CASE ~(SameFinding(i, n + 1) /\ Better(n + 1, b))
      <4>1. SameFinding(i, n + 1) => Better(b, n + 1)
        <5>1. b \in Position /\ n + 1 \in Position /\ b # n + 1
          BY <2>1
        <5> QED BY <3>3, <5>1, BetterOrders
      <4> QED BY <2>1, <3>1, <4>1
    <3> QED BY <3>2, <3>3
  <2> QED BY <1>2, <2>1, <2>2, <2>3
<1> HIDE DEF S
<1>3. N \in S
  BY <1>0, <1>1, <1>2, NatSetInduction
<1>4. PICK b \in Position : /\ SameFinding(i, b)
                            /\ \A j \in Position : SameFinding(i, j) /\ j # b => Better(b, j)
  <2>1. (\A j \in Position : ~SameFinding(i, j)) \/ Best1(N)
    BY <1>0, <1>3 DEF S
  <2>2. SameFinding(i, i)
    BY SameGroups
  <2> QED BY <1>0, <2>1, <2>2
<1>5. b \in Different
  <2>1. \A j \in Position : SameFinding(b, j) => SameFinding(i, j)
    BY <1>4, SameGroups
  <2> QED BY <1>4, <2>1 DEF Different, Best
<1>6. SameFinding(i, i)
  BY SameGroups
<1> QED BY <1>4, <1>5, <1>6

\* No other finding of the list the stages work on says the same.
LEMMA OneOfGroup ==
  ASSUME TypeOK, NEW i \in Different, NEW j \in Different, SameFinding(i, j)
  PROVE  i = j
  BY BetterOrders, SameGroups DEF Different, Best

\* The filters do not tell findings apart that say the same.
LEMMA JudgedAlike ==
  ASSUME NEW i, NEW j, SameFinding(i, j)
  PROVE  /\ finding[i].rule = finding[j].rule /\ finding[i].module = finding[j].module
         /\ finding[i].category = finding[j].category
         /\ SwitchedOff(i) <=> SwitchedOff(j)
         /\ IgnoredRule(i) <=> IgnoredRule(j)
         /\ OutOfScope(i) <=> OutOfScope(j)
         /\ Suppressed(i) <=> Suppressed(j)
         /\ Runs(i) <=> Runs(j)
<1>1. /\ finding[i].rule = finding[j].rule /\ finding[i].module = finding[j].module
      /\ finding[i].line = finding[j].line /\ file[i] = file[j]
      /\ finding[i].category = finding[j].category
  BY DEF SameFinding
<1> QED BY <1>1 DEF SwitchedOff, IgnoredRule, OutOfScope, Suppressed, Runs

\* The score counts every finding once that the user lets through and that a rule or linter is sure of.
THEOREM ScoredOnce == Spec => []ScoreCountsOnce
<1>1. IInv /\ TypeOK /\ Counted => ScoreCountsOnce
  <2> SUFFICES ASSUME IInv, TypeOK, Counted, stage = "done" PROVE ScoreCountsOnce
    BY DEF ScoreCountsOnce
  <2>1. eligible = Sure(Gate(Visible))
    BY DEF IInv, StagesExact, Counted
  <2>2. eligible \subseteq Different
    BY <2>1 DEF Sure, Gate, Visible, NotIgnored, SwitchedOn
  <2>3. ASSUME NEW i \in Position,
               finding[i].confidence = "high", finding[i].category # "other",
               ~SwitchedOff(i), ~OutOfScope(i), ~IgnoredRule(i), ~Suppressed(i), Runs(i)
        PROVE  \E j \in eligible : SameFinding(i, j)
    <3>1. PICK b \in Different : SameFinding(i, b) /\ (b = i \/ Better(b, i))
      BY BestOfGroup
    <3>2. b \in Gate(Visible) /\ finding[b].category # "other"
      BY <2>3, <3>1, JudgedAlike DEF Gate, Visible, NotIgnored, SwitchedOn
    <3>3. finding[b].confidence = "high"
      <4>1. b = i \/ ConfidenceRank(b) >= 3
        BY <2>3, <3>1 DEF Better, ConfidenceRank
      <4> QED BY <2>3, <4>1 DEF ConfidenceRank
    <3> QED BY <2>1, <3>1, <3>2, <3>3 DEF Sure
  <2>4. \A i, j \in eligible : SameFinding(i, j) => i = j
    BY <2>2, OneOfGroup
  <2> QED BY <2>3, <2>4 DEF ScoreCountsOnce
<1> QED BY <1>1, Invariant, TypeCorrect, PTL
-----------------------------------------------------------------------------
(* The counts *)

\* The findings of a list that are of module m and rule r.
Named(set, m, r) == {i \in set : finding[i].module = m /\ finding[i].rule = r}

\* The findings of module m and rule r that are made in scope, and the best of them.
Made(m, r) == {i \in Position : finding[i].module = m /\ finding[i].rule = r /\ ~OutOfScope(i) /\ Runs(i)}
BestMade(m, r) == {i \in Different : finding[i].module = m /\ finding[i].rule = r /\ ~OutOfScope(i) /\ Runs(i)}

\* The four lists hold, together and apart, the best finding of every group in scope.
LEMMA ListsPartition ==
  ASSUME NEW m, NEW r
  PROVE  LET a == Named(Gate(Visible), m, r)
             b == Named(Gate(OffCount), m, r)
             c == Named(Gate(IgnoreCount), m, r)
             d == Named(Gate(InlineCount), m, r)
         IN /\ BestMade(m, r) = ((a \cup b) \cup c) \cup d
            /\ a \cap b = {} /\ (a \cup b) \cap c = {} /\ ((a \cup b) \cup c) \cap d = {}
  BY DEF BestMade, Named, Gate, Visible, OffCount, IgnoreCount, InlineCount, NotIgnored, SwitchedOn

\* The sizes of two sets apart add up.
LEMMA ApartAddUp ==
  ASSUME NEW x, NEW y, IsFiniteSet(x), IsFiniteSet(y), x \cap y = {}
  PROVE  Cardinality(x \cup y) = Cardinality(x) + Cardinality(y)
<1>1. Cardinality(x \cup y) = Cardinality(x) + Cardinality(y) - Cardinality(x \cap y)
  BY FS_Union
<1>2. Cardinality(x \cap y) = 0
  BY FS_EmptySet
<1>3. Cardinality(x) \in Nat /\ Cardinality(y) \in Nat
  BY FS_CardinalityType
<1> QED BY <1>1, <1>2, <1>3

\* There are as many best findings as groups.
LEMMA OnePerGroup ==
  ASSUME TypeOK, NEW m, NEW r
  PROVE  Cardinality(BestMade(m, r)) = Cardinality({Group(i) : i \in Made(m, r)})
<1> DEFINE made == Made(m, r)
           kept == BestMade(m, r)
           groups == {Group(i) : i \in made}
           group == [i \in kept |-> Group(i)]
<1>1. Different \subseteq Position /\ kept \subseteq made /\ made \subseteq Position
  BY DEF Made, BestMade, Different, Best
<1>2. IsFiniteSet(kept)
  <2>1. kept \in SUBSET Position
    BY <1>1
  <2> HIDE DEF kept, Position
  <2> QED BY <2>1, PositionsFinite
<1>3. \A i, j \in Position : Group(i) = Group(j) <=> SameFinding(i, j)
  <2> SUFFICES ASSUME NEW i \in Position, NEW j \in Position
               PROVE  Group(i) = Group(j) <=> SameFinding(i, j)
    OBVIOUS
  <2>1. Group(i) = Group(j) => SameFinding(i, j)
    <3>1. j \in Group(j)
      BY SameGroups DEF Group
    <3> QED BY <3>1 DEF Group
  <2>2. SameFinding(i, j) => Group(i) = Group(j)
    <3> SUFFICES ASSUME SameFinding(i, j) PROVE \A k \in Position : SameFinding(i, k) <=> SameFinding(j, k)
      BY DEF Group
    <3> QED BY SameGroups
  <2> QED BY <2>1, <2>2
<1>4. group \in [kept -> groups]
  BY <1>1
<1>5. \A i, j \in kept : group[i] = group[j] => i = j
  <2>1. kept \subseteq Different
    BY DEF BestMade
  <2> QED BY <1>1, <1>3, <2>1, OneOfGroup
<1>6. \A g \in groups : \E i \in kept : group[i] = g
  <2> SUFFICES ASSUME NEW i \in made PROVE \E b \in kept : Group(b) = Group(i)
    OBVIOUS
  <2>0. i \in Position
    BY DEF Made
  <2>1. PICK b \in Different : SameFinding(i, b)
    BY <2>0, BestOfGroup
  <2>2. b \in kept
    BY <2>1, JudgedAlike DEF Made, BestMade
  <2>3. Group(b) = Group(i)
    BY <1>1, <1>3, <2>0, <2>1
  <2> QED BY <2>2, <2>3
<1> HIDE DEF group, kept, groups
<1>7. group \in Bijection(kept, groups)
  BY <1>4, <1>5, <1>6 DEF Bijection, Injection, Surjection, IsInjective
<1>8. ExistsBijection(kept, groups)
  BY <1>7 DEF ExistsBijection
<1>9. Cardinality(groups) = Cardinality(kept)
  BY <1>2, <1>8, FS_Bijection
<1> QED BY <1>9 DEF kept, groups

\* So what the user asked of a module and rule is counted, each group once.
LEMMA CountsAddUp ==
  ASSUME IInv, TypeOK, Counted, Built, NEW m \in Module, NEW r \in Rule
  PROVE  stats[m][r].surfaced + stats[m][r].severity_off + stats[m][r].ignore_rule + stats[m][r].inline
           = Cardinality({Group(i) : i \in Made(m, r)})
<1> DEFINE a == Named(Gate(Visible), m, r)
           b == Named(Gate(OffCount), m, r)
           c == Named(Gate(IgnoreCount), m, r)
           d == Named(Gate(InlineCount), m, r)
<1>1. /\ a \in SUBSET Position /\ b \in SUBSET Position /\ c \in SUBSET Position /\ d \in SUBSET Position
  BY DEF Named, Gate, Visible, OffCount, IgnoreCount, InlineCount, NotIgnored, SwitchedOn, Different, Best
<1>2. /\ stats[m][r].surfaced = Cardinality(a) /\ stats[m][r].severity_off = Cardinality(b)
      /\ stats[m][r].ignore_rule = Cardinality(c) /\ stats[m][r].inline = Cardinality(d)
  <2>1. /\ diags = Gate(Visible) /\ dropped["severity_off"] = Gate(OffCount)
        /\ dropped["ignore_rule"] = Gate(IgnoreCount) /\ dropped["inline"] = Gate(InlineCount)
    BY DEF IInv, StagesExact, Lists, Built
  <2>2. /\ stats[m][r].surfaced = Of(diags, m, r)
        /\ stats[m][r].severity_off = Of(dropped["severity_off"], m, r)
        /\ stats[m][r].ignore_rule = Of(dropped["ignore_rule"], m, r)
        /\ stats[m][r].inline = Of(dropped["inline"], m, r)
    BY DEF Counted
  <2>3. \A set : Of(set, m, r) = Cardinality(Named(set, m, r))
    BY DEF Of, Named
  <2> QED BY <2>1, <2>2, <2>3
<1> HIDE DEF a, b, c, d
<1>3. /\ a \cap b = {} /\ (a \cup b) \cap c = {} /\ ((a \cup b) \cup c) \cap d = {}
      /\ BestMade(m, r) = ((a \cup b) \cup c) \cup d
  BY ListsPartition DEF a, b, c, d
<1>4. Cardinality(((a \cup b) \cup c) \cup d) = Cardinality(a) + Cardinality(b) + Cardinality(c) + Cardinality(d)
  <2> HIDE DEF Position
  <2>1. /\ IsFiniteSet(a) /\ IsFiniteSet(b) /\ IsFiniteSet(c) /\ IsFiniteSet(d)
        /\ IsFiniteSet(a \cup b) /\ IsFiniteSet((a \cup b) \cup c)
        /\ Cardinality(a) \in Nat /\ Cardinality(b) \in Nat /\ Cardinality(c) \in Nat /\ Cardinality(d) \in Nat
    <3>1. a \cup b \in SUBSET Position /\ (a \cup b) \cup c \in SUBSET Position
        BY <1>1
    <3> QED BY <1>1, <3>1, PositionsFinite
  <2>2. Cardinality(a \cup b) = Cardinality(a) + Cardinality(b)
    BY <1>3, <2>1, ApartAddUp
  <2>3. Cardinality((a \cup b) \cup c) = Cardinality(a \cup b) + Cardinality(c)
    BY <1>3, <2>1, ApartAddUp
  <2>4. Cardinality(((a \cup b) \cup c) \cup d) = Cardinality((a \cup b) \cup c) + Cardinality(d)
    BY <1>3, <2>1, ApartAddUp
  <2> QED BY <2>1, <2>2, <2>3, <2>4
<1>5. Cardinality(BestMade(m, r)) = Cardinality({Group(i) : i \in Made(m, r)})
  BY OnePerGroup
<1>6. /\ Cardinality(a) \in Nat /\ Cardinality(b) \in Nat
      /\ Cardinality(c) \in Nat /\ Cardinality(d) \in Nat
  BY <1>1, PositionsFinite
<1> DEFINE total == Cardinality({Group(i) : i \in Made(m, r)})
<1>7. total = Cardinality(a) + Cardinality(b) + Cardinality(c) + Cardinality(d)
  BY <1>3, <1>4, <1>5
<1> HIDE DEF total
<1>8. stats[m][r].surfaced + stats[m][r].severity_off + stats[m][r].ignore_rule + stats[m][r].inline = total
  BY <1>2, <1>6, <1>7
<1> QED BY <1>8 DEF total

\* A total over the modules is a number, and 0 when every module's count is.
LEMMA TotalSums ==
  ASSUME TypeOK, NEW r \in Rule, NEW f \in Channel \cup {"surfaced"}
  PROVE  /\ Total(r, f) \in Nat
         /\ (\A m \in Module : stats[m][r][f] = 0) => Total(r, f) = 0
<1> DEFINE of(m) == stats[m][r][f]
           some(T) == CHOOSE x \in T : TRUE
           pick == [T \in (SUBSET Module) \ {{}} |-> some(T)]
           step == [p \in Nat \X Module |-> of(p[2]) + p[1]]
           Sum(g, T) == IF T = {} THEN 0 ELSE of(some(T)) + g[T \ {some(T)}]
           Count == CHOOSE count : count = [T \in SUBSET Module |-> Sum(count, T)]
<1>1. IsFiniteSet(Module)
  BY PipelineAssumption
<1>2. \A m \in Module : of(m) \in Nat
  BY DEF TypeOK
<1>3. \A T \in (SUBSET Module) \ {{}} : some(T) \in T
  OBVIOUS
<1> HIDE DEF of, some
<1>4. pick \in [(SUBSET Module) \ {{}} -> Module] /\ \A T \in (SUBSET Module) \ {{}} : pick[T] = some(T)
  BY <1>3
<1>5. step \in [Nat \X Module -> Nat] /\ \A n \in Nat, m \in Module : step[<<n, m>>] = of(m) + n
  BY <1>2
<1> HIDE DEF pick, step
<1>6. PICK g \in [SUBSET Module -> Nat] : RecursiveOnSubsets(g, Module, 0, step, pick)
  <2>1. 0 \in Nat /\ \A T \in (SUBSET Module) \ {{}} : pick[T] \in T
    BY <1>3, <1>4
  <2> QED BY <1>1, <1>4, <1>5, <2>1, SubsetRecursion
<1>7. \A T \in SUBSET Module : g[T] = Sum(g, T)
  <2> SUFFICES ASSUME NEW T \in SUBSET Module, T # {} PROVE g[T] = Sum(g, T)
    BY <1>6 DEF RecursiveOnSubsets
  <2>1. pick[T] = some(T) /\ some(T) \in Module /\ T \ {some(T)} \in SUBSET Module
    BY <1>3, <1>4
  <2>2. g[T \ {some(T)}] \in Nat
    BY <2>1
  <2>3. g[T] = step[<<g[T \ {some(T)}], some(T)>>]
    BY <1>6, <2>1 DEF RecursiveOnSubsets
  <2> QED BY <1>5, <2>1, <2>2, <2>3
<1>8. g = [T \in SUBSET Module |-> Sum(g, T)]
  <2> HIDE DEF Sum
  <2>1. g = [T \in SUBSET Module |-> g[T]]
    OBVIOUS
  <2> QED BY <1>7, <2>1
<1>9. Count = [T \in SUBSET Module |-> Sum(Count, T)]
  <2> HIDE DEF Sum
  <2> QED BY <1>8
<1> HIDE DEF Count
<1>10. \A T \in SUBSET Module : Count[T] = Sum(Count, T)
  <2> HIDE DEF Sum
  <2> QED BY <1>9
<1> DEFINE Zeros == \A m \in Module : of(m) = 0
           P == {T \in SUBSET Module : Count[T] \in Nat /\ (Zeros => Count[T] = 0)}
<1>11. \A T \in SUBSET Module : (\A x \in T : T \ {x} \in P) => T \in P
  <2> SUFFICES ASSUME NEW T \in SUBSET Module, \A x \in T : T \ {x} \in P
               PROVE  Count[T] \in Nat /\ (Zeros => Count[T] = 0)
    OBVIOUS
  <2>1. CASE T = {}
    <3>1. Count[T] = Sum(Count, T)
      BY <1>10
    <3> QED BY <2>1, <3>1
  <2>2. CASE T # {}
    <3>1. some(T) \in T /\ some(T) \in Module
      BY <1>3, <2>2
    <3>2. T \ {some(T)} \in P
      BY <3>1
    <3>3. Count[T] = of(some(T)) + Count[T \ {some(T)}]
      BY <1>10, <2>2
    <3> QED BY <1>2, <3>1, <3>2, <3>3
  <2> QED BY <2>1, <2>2
<1> HIDE DEF P
<1>12. Module \in P
  <2>1. SUBSET Module \subseteq P
    <3> DEFINE Inductive(Q) == \A T \in SUBSET Module : (\A x \in T : T \ {x} \in Q) => T \in Q
    <3>1. \A Q : Inductive(Q) => SUBSET Module \subseteq Q
      BY <1>1, SubsetInduction
    <3> QED BY <1>11, <3>1
  <2> QED BY <2>1
<1>13. Total(r, f) = Count[Module]
  BY DEF Total, Count, Sum, some, of
<1> QED BY <1>12, <1>13 DEF P, of

\* The report gives no advice about a rule the configuration disables.
LEMMA NoAdvice ==
  ASSUME IInv, TypeOK, Counted, Built, NEW r \in Rule,
         config.overrides[r] = "off" \/ r \in config.ignore_rules
  PROVE  ~Suggested(r)
<1>1. ASSUME NEW m \in Module PROVE stats[m][r].inline = 0
  <2>1. stats[m][r].inline = Of(dropped["inline"], m, r)
    BY DEF Counted
  <2>2. dropped["inline"] \subseteq InlineCount
    BY DEF IInv, StagesExact, Lists, Gate, Built
  <2>3. \A i \in InlineCount : finding[i].rule # r
    BY DEF InlineCount, NotIgnored, SwitchedOn, SwitchedOff, IgnoredRule
  <2>4. {i \in dropped["inline"] : finding[i].module = m /\ finding[i].rule = r} = {}
    BY <2>2, <2>3
  <2>5. Cardinality({}) = 0
    BY FS_EmptySet
  <2> QED BY <2>1, <2>4, <2>5 DEF Of
<1>2. Total(r, "inline") = 0
  BY <1>1, TotalSums
<1>3. Total(r, "ignore_rule") \in Nat /\ Total(r, "severity_off") \in Nat
  BY TotalSums
<1> QED BY <1>2, <1>3 DEF Suggested

\* For every module and rule, the counts are the number of different findings made in scope; and
\* a rule the user has disabled gets no advice from them.
THEOREM AllCounted == Spec => []EveryFindingCounted
<1>1. IInv /\ TypeOK /\ Counted => EveryFindingCounted
  <2> SUFFICES ASSUME IInv, TypeOK, Counted, Built, NEW m \in Module, NEW r \in Rule
               PROVE  /\ stats[m][r].surfaced + stats[m][r].severity_off + stats[m][r].ignore_rule
                           + stats[m][r].inline = Cardinality({Group(i) : i \in Made(m, r)})
                      /\ config.overrides[r] = "off" \/ r \in config.ignore_rules => ~Suggested(r)
    BY DEF EveryFindingCounted, Made
  <2> QED BY CountsAddUp, NoAdvice
<1> QED BY <1>1, Invariant, TypeCorrect, PTL
-----------------------------------------------------------------------------
(* The quick fixes: texts as they are in an editor *)

\* A text in which each rule flags lines or files, and each line that is flagged has an identity of its own.
\* n: the changes made so far.
TextFine(t, n) ==
  /\ t \in Text /\ t.mends \subseteq t.pinned /\ t.pinned \subseteq FileRules
  /\ \A i \in Lines(t) : IsLine(Says(t, i)) /\ (Says(t, i).hits # {} => t.lines[i].id < FirstTyped + n)
  /\ \A i, k \in Lines(t) :
       Says(t, i).hits # {} /\ Says(t, k).hits # {} /\ t.lines[i].id = t.lines[k].id => i = k

\* The invariant.
EditorInv ==
  /\ changes \in Nat
  /\ TextFine(page, changes) /\ TextFine(shownFrom, changes) /\ TextFine(draft, changes)

\* q is p with x put in at d.
Put(q, p, d, x) ==
  \A i \in 1..(Len(p) + 1) : q[i] = IF i < d THEN p[i] ELSE IF i = d THEN x ELSE p[i - 1]

\* InsertAt makes such a sequence.
LEMMA InsertedAt ==
  ASSUME NEW S, NEW q \in Seq(S), NEW d \in 1..(Len(q) + 1), NEW x \in S
  PROVE  /\ InsertAt(q, d, x) \in Seq(S) /\ Len(InsertAt(q, d, x)) = Len(q) + 1
         /\ Put(InsertAt(q, d, x), q, d, x)
<1> DEFINE n == Len(q)
           a == SubSeq(q, 1, d - 1)
           b == SubSeq(q, d, n)
<1>1. n \in Nat /\ d \in 1..(n + 1)
  OBVIOUS
<1>2. a \in Seq(S) /\ Len(a) = d - 1 /\ \A i \in 1..(d - 1) : a[i] = q[i]
  OBVIOUS
<1>3. b \in Seq(S) /\ Len(b) = n - d + 1 /\ \A i \in 1..(n - d + 1) : b[i] = q[d + i - 1]
  OBVIOUS
<1>4. InsertAt(q, d, x) = (a \o <<x>>) \o b
  BY DEF InsertAt
<1> HIDE DEF a, b
<1> DEFINE c == a \o <<x>>
<1>5. c \in Seq(S) /\ Len(c) = d /\ \A i \in 1..d : c[i] = IF i < d THEN q[i] ELSE x
  BY <1>1, <1>2
<1> HIDE DEF c
<1>6. c \o b \in Seq(S) /\ Len(c \o b) = n + 1
  <2>1. c \o b \in Seq(S) /\ Len(c \o b) = Len(c) + Len(b)
    BY <1>3, <1>5, ConcatProperties
  <2>2. d + (n - d + 1) = n + 1
    BY <1>1
  <2> QED BY <1>3, <1>5, <2>1, <2>2
<1>7. ASSUME NEW i \in 1..(n + 1) PROVE (c \o b)[i] = IF i < d THEN q[i] ELSE IF i = d THEN x ELSE q[i - 1]
  <2>1. CASE i <= d
    BY <1>1, <1>3, <1>5, <2>1
  <2>2. CASE ~(i <= d)
    <3>1. (c \o b)[i] = b[i - d] /\ i - d \in 1..(n - d + 1)
      BY <1>1, <1>3, <1>5, <2>2
    <3>2. b[i - d] = q[d + (i - d) - 1]
      BY <1>3, <3>1
    <3>3. d + (i - d) - 1 = i - 1
      BY <1>1
    <3> QED BY <1>1, <2>2, <3>1, <3>2, <3>3
  <2> QED BY <2>1, <2>2
<1> QED BY <1>4, <1>6, <1>7 DEF c, Put

\* A sequence without its d-th element.
LEMMA RemovedAt ==
  ASSUME NEW S, NEW q \in Seq(S), NEW d \in 1..Len(q)
  PROVE  /\ RemoveAt(q, d) \in Seq(S) /\ Len(RemoveAt(q, d)) = Len(q) - 1
         /\ \A i \in 1..(Len(q) - 1) : RemoveAt(q, d)[i] = q[IF i < d THEN i ELSE i + 1]
<1> DEFINE n == Len(q)
           a == SubSeq(q, 1, d - 1)
           b == SubSeq(q, d + 1, n)
<1>1. n \in Nat /\ d \in 1..n
  OBVIOUS
<1>2. a \in Seq(S) /\ Len(a) = d - 1 /\ \A i \in 1..(d - 1) : a[i] = q[i]
  OBVIOUS
<1>3. b \in Seq(S) /\ Len(b) = n - d /\ \A i \in 1..(n - d) : b[i] = q[d + i]
  OBVIOUS
<1>4. RemoveAt(q, d) = a \o b
  BY DEF RemoveAt
<1> HIDE DEF a, b
<1>5. a \o b \in Seq(S) /\ Len(a \o b) = n - 1
  <2>1. a \o b \in Seq(S) /\ Len(a \o b) = Len(a) + Len(b)
    BY <1>2, <1>3, ConcatProperties
  <2>2. (d - 1) + (n - d) = n - 1
    BY <1>1
  <2> QED BY <1>2, <1>3, <2>1, <2>2
<1>6. ASSUME NEW i \in 1..(n - 1) PROVE (a \o b)[i] = q[IF i < d THEN i ELSE i + 1]
  <2>1. CASE i < d
    BY <1>1, <1>2, <1>3, <2>1
  <2>2. CASE ~(i < d)
    <3>1. (a \o b)[i] = b[i - (d - 1)] /\ i - (d - 1) \in 1..(n - d)
      BY <1>1, <1>2, <1>3, <2>2
    <3>2. d + (i - (d - 1)) = i + 1
      BY <1>1
    <3> QED BY <1>3, <2>2, <3>1, <3>2
  <2> QED BY <2>1, <2>2
<1> QED BY <1>4, <1>5, <1>6

\* B has the places of A, those from the i-th on moved up by one.
Shifted(A, B, i, n) == \A k \in 1..(n + 1) : k \in B <=> (k < i /\ k \in A) \/ (k > i /\ k - 1 \in A)

\* They are as many as before.
LEMMA ShiftedCount ==
  ASSUME NEW n \in Nat, NEW i \in 1..(n + 1), NEW A \in SUBSET (1..n), NEW B \in SUBSET (1..(n + 1)),
         Shifted(A, B, i, n)
  PROVE  Cardinality(B) = Cardinality(A)
<1> USE DEF Shifted
<1> DEFINE F == [k \in A |-> IF k < i THEN k ELSE k + 1]
<1>1. IsFiniteSet(A)
  <2>1. IsFiniteSet(1..n)
    BY FS_Interval
  <2> QED BY <2>1, FS_Subset
<1>2. F \in [A -> B]
  <2> SUFFICES ASSUME NEW k \in A PROVE (IF k < i THEN k ELSE k + 1) \in B
    OBVIOUS
  <2>1. k \in 1..n /\ i \in 1..(n + 1)
    OBVIOUS
  <2>2. CASE k < i
    BY <2>1, <2>2
  <2>3. CASE ~(k < i)
    <3>1. k + 1 \in 1..(n + 1) /\ k + 1 > i /\ (k + 1) - 1 = k
      BY <2>1, <2>3
    <3> QED BY <2>3, <3>1
  <2> QED BY <2>2, <2>3
<1>3. \A a, b \in A : F[a] = F[b] => a = b
  OBVIOUS
<1>4. \A b \in B : \E a \in A : F[a] = b
  <2> SUFFICES ASSUME NEW b \in B PROVE \E a \in A : F[a] = b
    OBVIOUS
  <2>1. CASE b < i
    BY <2>1
  <2>2. CASE ~(b < i)
    <3>1. b - 1 \in A /\ ~(b - 1 < i) /\ (b - 1) + 1 = b
      BY <2>2
    <3> QED BY <3>1
  <2> QED BY <2>1, <2>2
<1>5. F \in Bijection(A, B)
  BY <1>2, <1>3, <1>4, Fun_IsBij
<1> QED BY <1>1, <1>5, FS_Bijection DEF ExistsBijection
-----------------------------------------------------------------------------
(* What a scan makes of a text *)

\* The lines of a text.
LEMMA TextFields ==
  ASSUME NEW t, NEW n, TextFine(t, n)
  PROVE  /\ Len(t.lines) \in Nat /\ Lines(t) = 1..Len(t.lines)
         /\ \A i \in Lines(t) : Says(t, i) \in LineSays /\ t.lines[i].id \in Nat
<1> DEFINE Line == [id : Nat, says : LineSays]
<1>1. t.lines \in Seq(Line)
  BY DEF TextFine, Text
<1>2. \A l \in Line : l.says \in LineSays /\ l.id \in Nat
  OBVIOUS
<1> HIDE DEF Line
<1>3. Len(t.lines) \in Nat /\ DOMAIN t.lines = 1..Len(t.lines) /\ \A i \in DOMAIN t.lines : t.lines[i] \in Line
  BY <1>1
<1> QED BY <1>2, <1>3 DEF Lines, Says

\* A rule is disabled by a comment on a line that begins outside of strings and tags.
LEMMA Disabled ==
  ASSUME NEW t, Parses(t), NEW k, NEW r
  PROVE  <<k, r>> \in DisabledAt(t) <=>
           \E j \in Lines(t) :
             /\ ~Held(t, j)
             /\ \/ Says(t, j).wide # {} /\ k = 0 /\ r \in Says(t, j).wide
                \/ Says(t, j).wide = {} /\ k = j + 1 /\ r \in Says(t, j).mute
<1> DEFINE D(j) == IF Held(t, j) THEN {}
                   ELSE IF Says(t, j).wide # {} THEN {0} \X Says(t, j).wide ELSE {j + 1} \X Says(t, j).mute
<1>1. DisabledAt(t) = UNION {D(j) : j \in Lines(t)}
  BY DEF DisabledAt
<1>2. \A j : <<k, r>> \in D(j) <=>
          /\ ~Held(t, j)
          /\ \/ Says(t, j).wide # {} /\ k = 0 /\ r \in Says(t, j).wide
             \/ Says(t, j).wide = {} /\ k = j + 1 /\ r \in Says(t, j).mute
  OBVIOUS
<1>3. <<k, r>> \in DisabledAt(t) <=> \E j \in Lines(t) : <<k, r>> \in D(j)
  BY <1>1
<1> HIDE DEF D
<1> QED BY <1>2, <1>3

\* Comments act on the whole file or on a line after the first.
LEMMA FirstEnabled ==
  ASSUME NEW t, NEW n, TextFine(t, n), Parses(t), NEW r
  PROVE  <<1, r>> \notin DisabledAt(t)
BY Disabled, TextFields

\* A finding of a line.
OnLine(t, k, r) ==
  k \in Lines(t) /\ r \in Says(t, k).hits /\ <<k, r>> \notin DisabledAt(t) /\ <<0, r>> \notin DisabledAt(t)

\* A finding is of a line, or of the file as a whole.
LEMMA IsFound ==
  ASSUME NEW t, NEW f \in FindingsOf(t)
  PROVE  /\ f = <<f[1], f[2]>> /\ Parses(t)
         /\ \/ OnLine(t, f[1], f[2])
            \/ f[1] = 1 /\ f[2] \in t.pinned /\ <<0, f[2]>> \notin DisabledAt(t)
<1> DEFINE flagged == (UNION {{i} \X Says(t, i).hits : i \in Lines(t)}) \cup ({1} \X t.pinned)
<1>1. Parses(t) /\ f \in flagged /\ f \notin DisabledAt(t) /\ <<0, f[2]>> \notin DisabledAt(t)
  BY DEF FindingsOf
<1>2. CASE f \in {1} \X t.pinned
  BY <1>1, <1>2
<1>3. ASSUME NEW i \in Lines(t), f \in {i} \X Says(t, i).hits PROVE f = <<f[1], f[2]>> /\ OnLine(t, f[1], f[2])
  BY <1>1, <1>3 DEF OnLine
<1>4. f \in {1} \X t.pinned \/ \E i \in Lines(t) : f \in {i} \X Says(t, i).hits
  BY <1>1
<1> HIDE DEF flagged
<1> QED BY <1>1, <1>2, <1>3, <1>4

\* What a rule flags and no comment disables is a finding.
LEMMA FlaggedIsFound ==
  ASSUME NEW t, Parses(t), NEW k, NEW r, <<k, r>> \notin DisabledAt(t), <<0, r>> \notin DisabledAt(t),
         (k \in Lines(t) /\ r \in Says(t, k).hits) \/ (k = 1 /\ r \in t.pinned)
  PROVE  <<k, r>> \in FindingsOf(t)
<1> DEFINE flagged == (UNION {{i} \X Says(t, i).hits : i \in Lines(t)}) \cup ({1} \X t.pinned)
           f == <<k, r>>
<1>1. f \in flagged
  OBVIOUS
<1>2. f[2] = r /\ {f, <<0, f[2]>>} \cap DisabledAt(t) = {}
  OBVIOUS
<1>3. FindingsOf(t) = {x \in flagged : {x, <<0, x[2]>>} \cap DisabledAt(t) = {}}
  BY DEF FindingsOf
<1> HIDE DEF flagged
<1> QED BY <1>1, <1>2, <1>3

\* What is reported: the rules that flag the file, and those that flag lines.
LEMMA ReportedIs ==
  ASSUME NEW t, NEW n, TextFine(t, n), NEW x
  PROVE  x \in Reported(t) <=>
           /\ Parses(t)
           /\ \/ \E r \in t.pinned : x = <<0, r>> /\ <<0, r>> \notin DisabledAt(t)
              \/ \E k \in Lines(t) : \E r \in Says(t, k).hits : x = <<t.lines[k].id, r>> /\ OnLine(t, k, r)
<1> DEFINE Name(f) == IF f[2] \in t.pinned THEN <<0, f[2]>> ELSE <<t.lines[f[1]].id, f[2]>>
<1>1. x \in Reported(t) <=> \E f \in FindingsOf(t) : x = Name(f)
  BY DEF Reported
<1>2. \A k \in Lines(t) : \A r \in Says(t, k).hits : r \notin t.pinned
  BY DEF TextFine, IsLine
<1>3. ASSUME NEW f \in FindingsOf(t), x = Name(f)
      PROVE  /\ Parses(t)
             /\ \/ \E r \in t.pinned : x = <<0, r>> /\ <<0, r>> \notin DisabledAt(t)
                \/ \E k \in Lines(t) : \E r \in Says(t, k).hits : x = <<t.lines[k].id, r>> /\ OnLine(t, k, r)
  BY <1>2, <1>3, IsFound DEF OnLine
<1>4. ASSUME Parses(t), NEW r \in t.pinned, x = <<0, r>>, <<0, r>> \notin DisabledAt(t)
      PROVE  \E f \in FindingsOf(t) : x = Name(f)
  <2>1. <<1, r>> \notin DisabledAt(t)
    BY <1>4, FirstEnabled
  <2>2. <<1, r>> \in FindingsOf(t)
    BY <1>4, <2>1, FlaggedIsFound
  <2> QED BY <1>4, <2>2
<1>5. ASSUME Parses(t), NEW k \in Lines(t), NEW r \in Says(t, k).hits, x = <<t.lines[k].id, r>>, OnLine(t, k, r)
      PROVE  \E f \in FindingsOf(t) : x = Name(f)
  <2>1. <<k, r>> \in FindingsOf(t)
    BY <1>5, FlaggedIsFound DEF OnLine
  <2> QED BY <1>2, <1>5, <2>1
<1> HIDE DEF Name
<1> QED BY <1>1, <1>3, <1>4, <1>5
-----------------------------------------------------------------------------
(* A comment put in as a line *)

\* u is t with a comment as its i-th line.
Marked(t, u, i, mute, wide) ==
  /\ i \in 1..(Len(t.lines) + 1)
  /\ mute \in SUBSET STRING /\ wide \in SUBSET STRING /\ (mute = {} \/ wide = {})
  /\ u = [t EXCEPT !.lines = InsertAt(@, i, Marker(t, mute, wide))]

\* The comment that a quick fix writes.
LEMMA MarkerSays ==
  ASSUME NEW t, NEW mute \in SUBSET STRING, NEW wide \in SUBSET STRING, mute = {} \/ wide = {}
  PROVE  LET m == Marker(t, mute, wide)
         IN /\ m \in [id : Nat, says : LineSays] /\ IsLine(m.says) /\ m.id = 0 /\ m.says.code = ""
            /\ m.says.hits = {} /\ m.says.mute = mute /\ m.says.wide = wide /\ ~m.says.leaves
            /\ (m.says.begins <=> t.lang = "xml")
BY DEF Marker, Blank, IsLine, LineSays

\* The lines of u are those of t and one more at i.
Grown(t, u, i) ==
  /\ Len(t.lines) \in Nat /\ Lines(t) = 1..Len(t.lines) /\ i \in 1..(Len(t.lines) + 1)
  /\ Len(u.lines) = Len(t.lines) + 1 /\ Lines(u) = 1..(Len(t.lines) + 1)
  /\ \A k \in Lines(t) : (k < i => u.lines[k] = t.lines[k]) /\ (k >= i => u.lines[k + 1] = t.lines[k])

IsComment(t, s, mute, wide) ==
  /\ s.code = "" /\ s.hits = {} /\ s.mute = mute /\ s.wide = wide
  /\ ~s.leaves /\ (s.begins <=> t.lang = "xml")

\* The new text is one, and what is new in it.
LEMMA MarkedLines ==
  ASSUME NEW t, NEW u, NEW n \in Nat, NEW i, NEW mute, NEW wide, TextFine(t, n), Marked(t, u, i, mute, wide)
  PROVE  /\ TextFine(u, n) /\ Grown(t, u, i)
         /\ u.pinned = t.pinned /\ u.mends = t.mends /\ u.lang = t.lang
         /\ IsComment(t, Says(u, i), mute, wide)
<1> DEFINE Line == [id : Nat, says : LineSays]
           m == Marker(t, mute, wide)
           q == t.lines
           p == InsertAt(q, i, m)
<1>1. t \in Text /\ q \in Seq(Line) /\ Len(q) \in Nat /\ Lines(t) = 1..Len(q) /\ i \in 1..(Len(q) + 1)
  BY TextFields DEF TextFine, Text, Marked
<1>2. /\ m \in Line /\ IsLine(m.says) /\ m.id = 0 /\ m.says.code = ""
      /\ m.says.hits = {} /\ m.says.mute = mute /\ m.says.wide = wide /\ ~m.says.leaves
      /\ (m.says.begins <=> t.lang = "xml")
  BY MarkerSays DEF Marked
<1> HIDE DEF Line, m
<1>3. p \in Seq(Line) /\ Len(p) = Len(q) + 1 /\ Put(p, q, i, m)
  BY <1>1, <1>2, InsertedAt
<1> HIDE DEF p
<1>4. u = [t EXCEPT !.lines = p]
  BY DEF Marked, p, m
<1>5. u \in Text /\ u.lines = p /\ u.pinned = t.pinned /\ u.mends = t.mends /\ u.lang = t.lang
  BY <1>1, <1>3, <1>4 DEF Text, Line
<1>6. Lines(u) = 1..(Len(q) + 1)
  BY <1>3, <1>5 DEF Lines
<1>7. \A k \in Lines(t) : (k < i => u.lines[k] = q[k]) /\ (k >= i => u.lines[k + 1] = q[k])
  <2> SUFFICES ASSUME NEW k \in Lines(t) PROVE (k < i => p[k] = q[k]) /\ (k >= i => p[k + 1] = q[k])
    BY <1>5
  <2>1. k \in 1..(Len(q) + 1) /\ k + 1 \in 1..(Len(q) + 1) /\ (k + 1) - 1 = k
    BY <1>1
  <2>2. p[k + 1] = IF k + 1 < i THEN q[k + 1] ELSE IF k + 1 = i THEN m ELSE q[(k + 1) - 1]
    BY <1>3, <2>1 DEF Put
  <2> QED BY <1>1, <1>3, <2>1, <2>2 DEF Put
<1>8. u.lines[i] = m
  BY <1>1, <1>3, <1>5 DEF Put
<1>9. \A k \in Lines(u) : k = i \/ \E j \in Lines(t) : u.lines[k] = q[j] /\ k = IF j < i THEN j ELSE j + 1
  <2> SUFFICES ASSUME NEW k \in Lines(u), k # i
               PROVE  \E j \in Lines(t) : u.lines[k] = q[j] /\ k = IF j < i THEN j ELSE j + 1
    OBVIOUS
  <2>1. CASE k < i
    BY <1>1, <1>6, <1>7, <2>1
  <2>2. CASE k > i
    <3>1. k - 1 \in Lines(t) /\ k - 1 >= i /\ (k - 1) + 1 = k
      BY <1>1, <1>6, <2>2
    <3> QED BY <1>1, <1>7, <3>1
  <2> QED BY <1>1, <1>6, <2>1, <2>2
<1>10. TextFine(u, n)
  <2>1. u.mends \subseteq u.pinned /\ u.pinned \subseteq FileRules
    BY <1>5 DEF TextFine
  <2>2. \A k \in Lines(u) : IsLine(Says(u, k)) /\ (Says(u, k).hits # {} => u.lines[k].id < FirstTyped + n)
    BY <1>2, <1>8, <1>9 DEF TextFine, Says
  <2>3. ASSUME NEW k \in Lines(u), NEW l \in Lines(u), Says(u, k).hits # {}, Says(u, l).hits # {},
               u.lines[k].id = u.lines[l].id
        PROVE  k = l
    <3>1. k # i /\ l # i
      BY <1>2, <1>8, <2>3 DEF Says
    <3>2. PICK a \in Lines(t) : u.lines[k] = q[a] /\ k = IF a < i THEN a ELSE a + 1
      BY <1>9, <3>1
    <3>3. PICK b \in Lines(t) : u.lines[l] = q[b] /\ l = IF b < i THEN b ELSE b + 1
      BY <1>9, <3>1
    <3>4. a = b
      BY <2>3, <3>2, <3>3 DEF TextFine, Says
    <3> QED BY <3>2, <3>3, <3>4
  <2> QED BY <1>5, <2>1, <2>2, <2>3 DEF TextFine
<1>11. Grown(t, u, i)
  BY <1>1, <1>3, <1>5, <1>6, <1>7 DEF Grown
<1>12. IsComment(t, Says(u, i), mute, wide)
  BY <1>2, <1>8 DEF IsComment, Says
<1> QED BY <1>5, <1>10, <1>11, <1>12

\* Where a line of t is in u.
Moved(k, i) == IF k < i THEN k ELSE k + 1

\* Each line of u is the new one or one of t.
LEMMA MarkedPlaces ==
  ASSUME NEW t, NEW u, NEW n \in Nat, NEW i, NEW mute, NEW wide, TextFine(t, n), Marked(t, u, i, mute, wide)
  PROVE  /\ \A k \in Lines(t) : Moved(k, i) \in Lines(u) /\ u.lines[Moved(k, i)] = t.lines[k] /\ Moved(k, i) # i
         /\ \A k \in Lines(u) : k = i \/ \E j \in Lines(t) : k = Moved(j, i)
         /\ \A j, k \in Lines(t) : Moved(j, i) = Moved(k, i) => j = k
         /\ i \in Lines(u) /\ \A k \in Lines(t) : Says(u, Moved(k, i)) = Says(t, k)
<1>0. Grown(t, u, i)
  BY MarkedLines
<1>1. /\ Lines(u) = 1..(Len(t.lines) + 1) /\ Lines(t) = 1..Len(t.lines) /\ Len(t.lines) \in Nat
      /\ i \in 1..(Len(t.lines) + 1)
      /\ \A k \in Lines(t) : (k < i => u.lines[k] = t.lines[k]) /\ (k >= i => u.lines[k + 1] = t.lines[k])
  BY <1>0 DEF Grown
<1>2. \A k \in Lines(t) : Moved(k, i) \in Lines(u) /\ u.lines[Moved(k, i)] = t.lines[k] /\ Moved(k, i) # i
  BY <1>1 DEF Moved
<1>3. ASSUME NEW k \in Lines(u), k # i PROVE \E j \in Lines(t) : k = Moved(j, i)
  <2>1. CASE k < i
    BY <1>1, <2>1 DEF Moved
  <2>2. CASE k > i
    <3>1. k - 1 \in Lines(t) /\ k = Moved(k - 1, i)
      BY <1>1, <2>2 DEF Moved
    <3> QED BY <3>1
  <2> QED BY <1>1, <1>3, <2>1, <2>2
<1>4. \A j, k \in Lines(t) : Moved(j, i) = Moved(k, i) => j = k
  BY <1>1 DEF Moved
<1> QED BY <1>1, <1>2, <1>3, <1>4 DEF Says

Leaving(t, k) == {j \in 1..(k - 1) : Says(t, j).leaves}

\* The comment leaves no string and no tag open.
LEMMA MarkedHeld ==
  ASSUME NEW t, NEW u, NEW n \in Nat, NEW i, NEW mute, NEW wide, TextFine(t, n), Marked(t, u, i, mute, wide)
  PROVE  /\ \A k \in 1..i : Held(u, k) = Held(t, k)
         /\ \A k \in i..(Len(t.lines) + 1) : Held(u, k + 1) = Held(t, k)
<1>0. Grown(t, u, i) /\ IsComment(t, Says(u, i), mute, wide)
  BY MarkedLines
<1>1. /\ Lines(u) = 1..(Len(t.lines) + 1) /\ Lines(t) = 1..Len(t.lines) /\ Len(t.lines) \in Nat
      /\ i \in 1..(Len(t.lines) + 1) /\ ~Says(u, i).leaves
      /\ \A k \in Lines(t) : (k < i => u.lines[k] = t.lines[k]) /\ (k >= i => u.lines[k + 1] = t.lines[k])
  BY <1>0 DEF Grown, IsComment
<1>2. \A s, k : Held(s, k) = (Cardinality(Leaving(s, k)) % 2 = 1)
  BY DEF Held, Leaving
<1>3. ASSUME NEW k \in 1..i PROVE Leaving(u, k) = Leaving(t, k)
  BY <1>1 DEF Says, Leaving
<1>4. ASSUME NEW k \in i..(Len(t.lines) + 1) PROVE Cardinality(Leaving(u, k + 1)) = Cardinality(Leaving(t, k))
  <2> DEFINE c == k - 1
  <2>1. c \in Nat /\ i \in 1..(c + 1) /\ Leaving(t, k) \in SUBSET (1..c) /\ Leaving(u, k + 1) \in SUBSET (1..(c + 1))
    BY <1>1 DEF Leaving
  <2>2. ASSUME NEW j \in 1..(c + 1)
        PROVE  j \in Leaving(u, k + 1) <=> (j < i /\ j \in Leaving(t, k)) \/ (j > i /\ j - 1 \in Leaving(t, k))
    <3>1. CASE j < i
      <4>1. j \in Lines(t) /\ j \in 1..(k - 1) /\ j \in 1..((k + 1) - 1) /\ ~(j > i)
        BY <1>1, <3>1
      <4>2. Says(u, j) = Says(t, j)
        BY <1>1, <3>1, <4>1 DEF Says
      <4> QED BY <3>1, <4>1, <4>2 DEF Leaving
    <3>2. CASE j = i
      BY <1>1, <3>2 DEF Leaving
    <3>3. CASE j > i
      <4>1. j - 1 \in Lines(t) /\ j - 1 >= i /\ (j - 1) + 1 = j /\ j - 1 \in 1..(k - 1)
        BY <1>1, <3>3
      <4>2. Says(u, j) = Says(t, j - 1)
        BY <1>1, <4>1 DEF Says
      <4> QED BY <1>1, <3>3, <4>1, <4>2 DEF Leaving
    <3> QED BY <1>1, <3>1, <3>2, <3>3
  <2> HIDE DEF c
  <2>3. Shifted(Leaving(t, k), Leaving(u, k + 1), i, c)
    BY <2>2 DEF Shifted
  <2> QED BY <2>1, <2>3, ShiftedCount
<1> QED BY <1>2, <1>3, <1>4

\* So each line begins where it began, in a string or a tag or outside.
LEMMA MarkedHeldAt ==
  ASSUME NEW t, NEW u, NEW n \in Nat, NEW i, NEW mute, NEW wide, TextFine(t, n), Marked(t, u, i, mute, wide)
  PROVE  /\ \A k \in Lines(t) : Held(u, Moved(k, i)) = Held(t, k)
         /\ Held(u, i) = Held(t, i)
         /\ Held(u, Len(u.lines) + 1) = Held(t, Len(t.lines) + 1)
<1>0. Grown(t, u, i)
  BY MarkedLines
<1>1. /\ Len(u.lines) = Len(t.lines) + 1 /\ Lines(t) = 1..Len(t.lines) /\ Len(t.lines) \in Nat
      /\ i \in 1..(Len(t.lines) + 1)
  BY <1>0 DEF Grown
<1>2. /\ \A k \in 1..i : Held(u, k) = Held(t, k)
      /\ \A k \in i..(Len(t.lines) + 1) : Held(u, k + 1) = Held(t, k)
  BY MarkedHeld
<1> QED BY <1>1, <1>2 DEF Moved

\* The text can be read as before, unless the comment is put into a tag.
LEMMA MarkedParses ==
  ASSUME NEW t, NEW u, NEW n \in Nat, NEW i, NEW mute, NEW wide, TextFine(t, n), Marked(t, u, i, mute, wide)
  PROVE  Parses(u) <=> Parses(t) /\ (t.lang = "xml" => ~Held(t, i))
<1>1. /\ \A k \in Lines(t) : Moved(k, i) \in Lines(u) /\ Says(u, Moved(k, i)) = Says(t, k)
      /\ \A k \in Lines(u) : k = i \/ \E j \in Lines(t) : k = Moved(j, i)
      /\ i \in Lines(u)
  BY MarkedPlaces
<1>2. IsComment(t, Says(u, i), mute, wide)
  BY MarkedLines
<1>3. /\ \A k \in Lines(t) : Held(u, Moved(k, i)) = Held(t, k)
      /\ Held(u, i) = Held(t, i)
      /\ Held(u, Len(u.lines) + 1) = Held(t, Len(t.lines) + 1)
  BY MarkedHeldAt
<1> QED BY <1>1, <1>2, <1>3 DEF Parses, IsComment

\* The code stays, and its order.
LEMMA MarkedCode ==
  ASSUME NEW t, NEW u, NEW n \in Nat, NEW i, NEW mute, NEW wide, TextFine(t, n), Marked(t, u, i, mute, wide)
  PROVE  CodeOf(u) = CodeOf(t)
<1>0. Grown(t, u, i) /\ IsComment(t, Says(u, i), mute, wide)
  BY MarkedLines
<1> DEFINE C(s, k) == {j \in Coded(s) : j < k}
           L == Len(t.lines)
<1>1. /\ L \in Nat /\ Lines(t) = 1..L /\ i \in 1..(L + 1) /\ Lines(u) = 1..(L + 1)
  BY <1>0 DEF Grown
<1>2. /\ \A k \in Lines(t) : Moved(k, i) \in Lines(u) /\ Says(u, Moved(k, i)) = Says(t, k)
      /\ \A k \in Lines(u) : k = i \/ \E j \in Lines(t) : k = Moved(j, i)
  BY MarkedPlaces
<1>3. \A k \in Lines(t) : Moved(k, i) \in Coded(u) <=> k \in Coded(t)
  BY <1>2 DEF Coded
<1>4. \A k \in Coded(u) : \E j \in Coded(t) : k = Moved(j, i)
  BY <1>0, <1>2, <1>3 DEF Coded, IsComment
<1>5. ASSUME NEW k \in Lines(t) PROVE Cardinality(C(u, Moved(k, i))) = Cardinality(C(t, k))
  <2>1. C(t, k) \in SUBSET (1..L) /\ C(u, Moved(k, i)) \in SUBSET (1..(L + 1))
    BY <1>1 DEF Coded
  <2>2. ASSUME NEW j \in 1..(L + 1)
        PROVE  j \in C(u, Moved(k, i)) <=> (j < i /\ j \in C(t, k)) \/ (j > i /\ j - 1 \in C(t, k))
    <3>1. CASE j < i
      <4>1. j \in Lines(t) /\ Moved(j, i) = j /\ (j < Moved(k, i) <=> j < k)
        BY <1>1, <3>1 DEF Moved
      <4>2. j \in Coded(u) <=> j \in Coded(t)
        BY <1>3, <4>1
      <4> QED BY <1>1, <3>1, <4>1, <4>2
    <3>2. CASE j = i
      <4>1. j \notin Coded(u)
        BY <1>0, <3>2 DEF Coded, IsComment
      <4> QED BY <1>1, <3>2, <4>1
    <3>3. CASE j > i
      <4>1. j - 1 \in Lines(t) /\ Moved(j - 1, i) = j /\ (j < Moved(k, i) <=> j - 1 < k)
        BY <1>1, <3>3 DEF Moved
      <4>2. j \in Coded(u) <=> j - 1 \in Coded(t)
        BY <1>3, <4>1
      <4> QED BY <1>1, <3>3, <4>1, <4>2
    <3> QED BY <1>1, <3>1, <3>2, <3>3
  <2>3. Shifted(C(t, k), C(u, Moved(k, i)), i, L)
    BY <2>2 DEF Shifted
  <2> HIDE DEF C, L
  <2> QED BY <1>1, <2>1, <2>3, ShiftedCount
<1>6. \A s : CodeOf(s) = {<<Cardinality(C(s, k)), Says(s, k).code>> : k \in Coded(s)}
  BY DEF CodeOf
<1>7. Coded(t) \subseteq Lines(t)
  BY DEF Coded
<1> HIDE DEF C
<1>8. ASSUME NEW x \in CodeOf(u) PROVE x \in CodeOf(t)
  <2>1. PICK k \in Coded(u) : x = <<Cardinality(C(u, k)), Says(u, k).code>>
    BY <1>6
  <2>2. PICK j \in Coded(t) : k = Moved(j, i)
    BY <1>4
  <2>3. x = <<Cardinality(C(t, j)), Says(t, j).code>>
    BY <1>2, <1>5, <1>7, <2>1, <2>2
  <2> QED BY <1>6, <2>3
<1>9. ASSUME NEW x \in CodeOf(t) PROVE x \in CodeOf(u)
  <2>1. PICK j \in Coded(t) : x = <<Cardinality(C(t, j)), Says(t, j).code>>
    BY <1>6
  <2>2. x = <<Cardinality(C(u, Moved(j, i))), Says(u, Moved(j, i)).code>> /\ Moved(j, i) \in Coded(u)
    BY <1>2, <1>3, <1>5, <1>7, <2>1
  <2> QED BY <1>6, <2>2
<1> QED BY <1>8, <1>9

\* What the comments disable after it, when the line above has none.
LEMMA MarkedDisables ==
  ASSUME NEW t, NEW u, NEW n \in Nat, NEW i, NEW mute, NEW wide, TextFine(t, n), Marked(t, u, i, mute, wide),
         Parses(t), Parses(u), ~Held(t, i), i > 1 => Says(t, i - 1).mute = {}, NEW r
  PROVE  /\ <<0, r>> \in DisabledAt(u) <=> <<0, r>> \in DisabledAt(t) \/ r \in wide
         /\ \A k \in Lines(t) : <<Moved(k, i), r>> \in DisabledAt(u) <=>
                                  <<k, r>> \in DisabledAt(t) \/ (k = i /\ r \in mute)
<1> DEFINE Wide(s, j) == ~Held(s, j) /\ Says(s, j).wide # {} /\ r \in Says(s, j).wide
           Mute(s, j) == ~Held(s, j) /\ Says(s, j).wide = {} /\ r \in Says(s, j).mute
<1>0. Grown(t, u, i) /\ IsComment(t, Says(u, i), mute, wide)
  BY MarkedLines
<1>1. /\ Len(t.lines) \in Nat /\ Lines(t) = 1..Len(t.lines) /\ Lines(u) = 1..(Len(t.lines) + 1)
      /\ i \in 1..(Len(t.lines) + 1) /\ Says(u, i).wide = wide /\ Says(u, i).mute = mute
  BY <1>0 DEF Grown, IsComment
<1>2. /\ \A k \in Lines(t) : Moved(k, i) \in Lines(u) /\ Says(u, Moved(k, i)) = Says(t, k)
      /\ \A k \in Lines(u) : k = i \/ \E j \in Lines(t) : k = Moved(j, i)
      /\ i \in Lines(u)
  BY MarkedPlaces
<1>3. Held(u, i) = Held(t, i) /\ \A k \in Lines(t) : Held(u, Moved(k, i)) = Held(t, k)
  BY MarkedHeldAt
<1>4. mute = {} \/ wide = {}
  BY DEF Marked
<1>5. \A j \in Lines(t) : (Wide(u, Moved(j, i)) <=> Wide(t, j)) /\ (Mute(u, Moved(j, i)) <=> Mute(t, j))
  BY <1>2, <1>3
<1>6. (Wide(u, i) <=> r \in wide) /\ (Mute(u, i) <=> r \in mute)
  BY <1>1, <1>3, <1>4
<1>7. \A j \in Lines(t) : Mute(t, j) => j # i - 1
  BY <1>1
<1>8. /\ \A k : k # 0 => (<<k, r>> \in DisabledAt(t) <=> \E j \in Lines(t) : Mute(t, j) /\ k = j + 1)
      /\ \A k : k # 0 => (<<k, r>> \in DisabledAt(u) <=> \E j \in Lines(u) : Mute(u, j) /\ k = j + 1)
      /\ <<0, r>> \in DisabledAt(t) <=> \E j \in Lines(t) : Wide(t, j)
      /\ <<0, r>> \in DisabledAt(u) <=> \E j \in Lines(u) : Wide(u, j)
  <2>1. \A j \in Lines(t) \cup Lines(u) : j + 1 # 0
    BY <1>1
  <2> QED BY <2>1, Disabled
<1> HIDE DEF Wide, Mute
<1>9. <<0, r>> \in DisabledAt(u) <=> <<0, r>> \in DisabledAt(t) \/ r \in wide
  BY <1>2, <1>5, <1>6, <1>8
<1>10. ASSUME NEW k \in Lines(t)
       PROVE  <<Moved(k, i), r>> \in DisabledAt(u) <=> <<k, r>> \in DisabledAt(t) \/ (k = i /\ r \in mute)
  <2>1. k # 0 /\ Moved(k, i) # 0 /\ (Moved(k, i) = i + 1 <=> k = i)
    BY <1>1 DEF Moved
  <2>2. \A j \in Lines(t) : j # i - 1 => (Moved(k, i) = Moved(j, i) + 1 <=> k = j + 1)
    BY <1>1 DEF Moved
  <2>3. (\E j \in Lines(u) : Mute(u, j) /\ Moved(k, i) = j + 1) <=>
          (Mute(u, i) /\ Moved(k, i) = i + 1) \/ \E j \in Lines(t) : Mute(u, Moved(j, i)) /\ Moved(k, i) = Moved(j, i) + 1
    BY <1>2
  <2>4. (\E j \in Lines(t) : Mute(u, Moved(j, i)) /\ Moved(k, i) = Moved(j, i) + 1)
          <=> \E j \in Lines(t) : Mute(t, j) /\ k = j + 1
    BY <1>5, <1>7, <2>2
  <2> QED BY <1>6, <1>8, <2>1, <2>3, <2>4
<1> QED BY <1>9, <1>10

\* What u, with a line more at i, still reports of what t has.
FileStill(t, u, x) == \E r \in t.pinned : x = <<0, r>> /\ <<0, r>> \notin DisabledAt(u)
LineStill(t, u, i, x) ==
  \E k \in Lines(t) : \E r \in Says(t, k).hits :
    x = <<t.lines[k].id, r>> /\ <<Moved(k, i), r>> \notin DisabledAt(u) /\ <<0, r>> \notin DisabledAt(u)

\* What is reported of u: what is left of the findings of t.
LEMMA MarkedReports ==
  ASSUME NEW t, NEW u, NEW n \in Nat, NEW i, TextFine(t, n), \E mute, wide : Marked(t, u, i, mute, wide), NEW x
  PROVE  x \in Reported(u) <=> Parses(u) /\ (FileStill(t, u, x) \/ LineStill(t, u, i, x))
<1> PICK mute, wide : Marked(t, u, i, mute, wide)
  OBVIOUS
<1>0. TextFine(u, n) /\ u.pinned = t.pinned /\ IsComment(t, Says(u, i), mute, wide)
  BY MarkedLines
<1>1. TextFine(u, n) /\ u.pinned = t.pinned /\ Says(u, i).hits = {}
  BY <1>0 DEF IsComment
<1>2. /\ \A k \in Lines(t) : Moved(k, i) \in Lines(u) /\ u.lines[Moved(k, i)] = t.lines[k]
                               /\ Says(u, Moved(k, i)) = Says(t, k)
      /\ \A k \in Lines(u) : k = i \/ \E j \in Lines(t) : k = Moved(j, i)
  BY MarkedPlaces
<1>3. x \in Reported(u) <=>
           /\ Parses(u)
           /\ \/ \E r \in u.pinned : x = <<0, r>> /\ <<0, r>> \notin DisabledAt(u)
              \/ \E k \in Lines(u) : \E r \in Says(u, k).hits : x = <<u.lines[k].id, r>> /\ OnLine(u, k, r)
  BY <1>1, ReportedIs
<1>4. (\E k \in Lines(u) : \E r \in Says(u, k).hits : x = <<u.lines[k].id, r>> /\ OnLine(u, k, r)) <=>
        \E k \in Lines(t) : \E r \in Says(t, k).hits :
          x = <<t.lines[k].id, r>> /\ <<Moved(k, i), r>> \notin DisabledAt(u) /\ <<0, r>> \notin DisabledAt(u)
  <2>1. ASSUME NEW k \in Lines(u), NEW r \in Says(u, k).hits, x = <<u.lines[k].id, r>>, OnLine(u, k, r)
        PROVE  \E j \in Lines(t) : \E q \in Says(t, j).hits :
                 x = <<t.lines[j].id, q>> /\ <<Moved(j, i), q>> \notin DisabledAt(u) /\ <<0, q>> \notin DisabledAt(u)
    <3>1. PICK j \in Lines(t) : k = Moved(j, i)
      BY <1>1, <1>2, <2>1
    <3>2. r \in Says(t, j).hits /\ x = <<t.lines[j].id, r>>
      BY <1>2, <2>1, <3>1
    <3> QED BY <2>1, <3>1, <3>2 DEF OnLine
  <2>2. ASSUME NEW k \in Lines(t), NEW r \in Says(t, k).hits, x = <<t.lines[k].id, r>>,
               <<Moved(k, i), r>> \notin DisabledAt(u), <<0, r>> \notin DisabledAt(u)
        PROVE  \E j \in Lines(u) : \E q \in Says(u, j).hits : x = <<u.lines[j].id, q>> /\ OnLine(u, j, q)
    <3>1. /\ Moved(k, i) \in Lines(u) /\ r \in Says(u, Moved(k, i)).hits
          /\ x = <<u.lines[Moved(k, i)].id, r>>
      BY <1>2, <2>2
    <3> QED BY <2>2, <3>1 DEF OnLine
  <2> QED BY <2>1, <2>2
<1> QED BY <1>1, <1>3, <1>4 DEF FileStill, LineStill

\* u has all of t but the finding of rule r on line i.
AllBut(t, u, i, r) ==
  Parses(u) = Parses(t) /\ CodeOf(u) = CodeOf(t) /\ Reported(u) = Reported(t) \ {<<t.lines[i].id, r>>}

\* u has a comment against rule r above the i-th line of t.
Muted(t, u, i, r) == Marked(t, u, i, {r}, {}) /\ Accepts(t, i)

\* A comment above the line of a finding takes away that finding.
LEMMA LineIsDisabled ==
  ASSUME NEW t, NEW u, NEW n \in Nat, NEW i \in Lines(t), NEW r \in Says(t, i).hits,
         TextFine(t, n), Muted(t, u, i, r), i > 1 => Says(t, i - 1).mute = {}
  PROVE  AllBut(t, u, i, r)
<1>0. Marked(t, u, i, {r}, {}) /\ Accepts(t, i)
  BY DEF Muted
<1>1. Parses(u) <=> Parses(t) /\ (t.lang = "xml" => ~Held(t, i))
  BY <1>0, MarkedParses
<1>2. Parses(t) => ~Held(t, i)
  BY <1>0 DEF Accepts, Parses
<1>3. Parses(u) = Parses(t)
  <2>1. Parses(u) \in BOOLEAN /\ Parses(t) \in BOOLEAN
    BY DEF Parses
  <2> QED BY <1>1, <1>2, <2>1
<1>4. r \notin t.pinned
  BY DEF TextFine, IsLine
<1>5. ASSUME NEW x PROVE x \in Reported(u) <=> x \in Reported(t) /\ x # <<t.lines[i].id, r>>
  <2>0. \E mute, wide : Marked(t, u, i, mute, wide)
    BY <1>0
  <2>1. x \in Reported(u) <=> Parses(u) /\ (FileStill(t, u, x) \/ LineStill(t, u, i, x))
    BY <2>0, MarkedReports
  <2>2. x \in Reported(t) <=>
             /\ Parses(t)
             /\ \/ \E q \in t.pinned : x = <<0, q>> /\ <<0, q>> \notin DisabledAt(t)
                \/ \E k \in Lines(t) : \E q \in Says(t, k).hits : x = <<t.lines[k].id, q>> /\ OnLine(t, k, q)
    BY ReportedIs
  <2>3. ASSUME Parses(t), NEW q
        PROVE  /\ <<0, q>> \in DisabledAt(u) <=> <<0, q>> \in DisabledAt(t)
               /\ \A k \in Lines(t) : <<Moved(k, i), q>> \in DisabledAt(u) <=>
                                        <<k, q>> \in DisabledAt(t) \/ (k = i /\ q = r)
    <3>1. Parses(u) /\ ~Held(t, i)
      BY <1>1, <1>2, <2>3
    <3>2. /\ <<0, q>> \in DisabledAt(u) <=> <<0, q>> \in DisabledAt(t) \/ q \in {}
          /\ \A k \in Lines(t) : <<Moved(k, i), q>> \in DisabledAt(u) <=>
                                   <<k, q>> \in DisabledAt(t) \/ (k = i /\ q \in {r})
      BY <1>0, <2>3, <3>1, MarkedDisables
    <3> QED BY <3>2
  <2>4. \A k \in Lines(t) : \A q \in Says(t, k).hits : <<t.lines[k].id, q>> = <<t.lines[i].id, r>> <=> k = i /\ q = r
    BY DEF TextFine
  <2>5. CASE ~Parses(t)
    BY <1>3, <2>1, <2>2, <2>5
  <2>6. CASE Parses(t)
    <3>1. \A q \in t.pinned : <<0, q>> # <<t.lines[i].id, r>>
      BY <1>4
    <3>2. \A k \in Lines(t) : \A q \in Says(t, k).hits :
            /\ x = <<t.lines[k].id, q>>
            => (/\ <<Moved(k, i), q>> \notin DisabledAt(u) /\ <<0, q>> \notin DisabledAt(u))
                 <=> OnLine(t, k, q) /\ x # <<t.lines[i].id, r>>
      BY <2>3, <2>4, <2>6 DEF OnLine
    <3>3. \A q : <<0, q>> \in DisabledAt(u) <=> <<0, q>> \in DisabledAt(t)
      BY <2>3, <2>6
    <3>4. ASSUME x \in Reported(u) PROVE x \in Reported(t) /\ x # <<t.lines[i].id, r>>
      BY <2>1, <2>2, <2>6, <3>1, <3>2, <3>3, <3>4 DEF FileStill, LineStill
    <3>5. ASSUME x \in Reported(t), x # <<t.lines[i].id, r>> PROVE x \in Reported(u)
      BY <1>3, <2>1, <2>2, <2>6, <3>2, <3>3, <3>5 DEF FileStill, LineStill
    <3> QED BY <3>4, <3>5
  <2> QED BY <2>5, <2>6
<1>6. CodeOf(u) = CodeOf(t)
  BY <1>0, MarkedCode
<1> QED BY <1>3, <1>5, <1>6 DEF AllBut

\* u has a comment against rule r for the whole file.
NoneOf(t, u, r) == Reported(u) = {f \in Reported(t) : f[2] # r}
MutedAll(t, u, i, r) == Marked(t, u, i, {}, {r}) /\ (i = 1 \/ (i = 2 /\ Says(t, 1).first))

\* A comment for the whole file takes away the rule's findings.
LEMMA FileIsDisabled ==
  ASSUME NEW t, NEW u, NEW n \in Nat, NEW i, NEW r, TextFine(t, n), MutedAll(t, u, i, r)
  PROVE  NoneOf(t, u, r)
<1>a. Marked(t, u, i, {}, {r}) /\ (i = 1 \/ (i = 2 /\ Says(t, 1).first))
  BY DEF MutedAll
<1>0. Grown(t, u, i)
  BY <1>a, MarkedLines
<1>1. Len(t.lines) \in Nat /\ Lines(t) = 1..Len(t.lines) /\ i \in 1..(Len(t.lines) + 1)
  BY <1>0 DEF Grown
<1>2. ~Held(t, i) /\ (i > 1 => Says(t, i - 1).mute = {})
  <2>1. CASE i = 1
    <3>1. Leaving(t, i) = {}
      BY <2>1 DEF Leaving
    <3>2. Cardinality(Leaving(t, i)) = 0
      BY <3>1, FS_EmptySet
    <3> QED BY <2>1, <3>2 DEF Held, Leaving
  <2>2. CASE i = 2
    <3>1. 1 \in Lines(t) /\ Says(t, 1).first
      BY <1>1, <1>a, <2>2
    <3>2. ~Says(t, 1).leaves /\ Says(t, 1).mute = {}
      BY <3>1 DEF TextFine, IsLine
    <3>3. Leaving(t, i) = {}
      BY <2>2, <3>2 DEF Leaving
    <3>4. Cardinality(Leaving(t, i)) = 0
      BY <3>3, FS_EmptySet
    <3> QED BY <2>2, <3>2, <3>4 DEF Held, Leaving
  <2> QED BY <1>a, <2>1, <2>2
<1>3. Parses(u) <=> Parses(t)
  <2>1. Parses(u) <=> Parses(t) /\ (t.lang = "xml" => ~Held(t, i))
    BY <1>a, MarkedParses
  <2> QED BY <1>2, <2>1
<1>4. ASSUME NEW x PROVE x \in Reported(u) <=> x \in Reported(t) /\ x[2] # r
  <2>0. \E mute, wide : Marked(t, u, i, mute, wide)
    BY <1>a
  <2>1. x \in Reported(u) <=> Parses(u) /\ (FileStill(t, u, x) \/ LineStill(t, u, i, x))
    BY <2>0, MarkedReports
  <2>2. x \in Reported(t) <=>
             /\ Parses(t)
             /\ \/ \E q \in t.pinned : x = <<0, q>> /\ <<0, q>> \notin DisabledAt(t)
                \/ \E k \in Lines(t) : \E q \in Says(t, k).hits : x = <<t.lines[k].id, q>> /\ OnLine(t, k, q)
    BY ReportedIs
  <2>3. ASSUME Parses(t), NEW q
        PROVE  /\ <<0, q>> \in DisabledAt(u) <=> <<0, q>> \in DisabledAt(t) \/ q = r
               /\ \A k \in Lines(t) : <<Moved(k, i), q>> \in DisabledAt(u) <=> <<k, q>> \in DisabledAt(t)
    <3>1. /\ <<0, q>> \in DisabledAt(u) <=> <<0, q>> \in DisabledAt(t) \/ q \in {r}
          /\ \A k \in Lines(t) : <<Moved(k, i), q>> \in DisabledAt(u) <=>
                                   <<k, q>> \in DisabledAt(t) \/ (k = i /\ q \in {})
      BY <1>2, <1>3, <1>a, <2>3, MarkedDisables
    <3> QED BY <3>1
  <2>4. CASE ~Parses(t)
    BY <1>3, <2>1, <2>2, <2>4
  <2>5. CASE Parses(t)
    <3>1. \A q : <<0, q>> \notin DisabledAt(u) <=> <<0, q>> \notin DisabledAt(t) /\ q # r
      BY <2>3, <2>5
    <3>2. \A k \in Lines(t) : \A q \in Says(t, k).hits :
            (/\ <<Moved(k, i), q>> \notin DisabledAt(u) /\ <<0, q>> \notin DisabledAt(u)) <=> OnLine(t, k, q) /\ q # r
      BY <2>3, <2>5 DEF OnLine
    <3>3. \A a, q : x = <<a, q>> => x[2] = q
      OBVIOUS
    <3>4. ASSUME x \in Reported(u) PROVE x \in Reported(t) /\ x[2] # r
      BY <2>1, <2>2, <2>5, <3>1, <3>2, <3>3, <3>4 DEF FileStill, LineStill
    <3>5. ASSUME x \in Reported(t), x[2] # r PROVE x \in Reported(u)
      BY <1>3, <2>1, <2>2, <2>5, <3>1, <3>2, <3>3, <3>5 DEF FileStill, LineStill
    <3> QED BY <3>4, <3>5
  <2> QED BY <2>4, <2>5
<1> QED BY <1>4 DEF NoneOf
-----------------------------------------------------------------------------
(* A line that is changed where it is *)

\* u is t with another content of its j-th line.
Altered(t, u, j, s) ==
  /\ u.lang = t.lang /\ u.pinned = t.pinned /\ u.mends = t.mends
  /\ Lines(u) = Lines(t) /\ Len(u.lines) = Len(t.lines)
  /\ \A k \in Lines(t) : u.lines[k].id = t.lines[k].id /\ Says(u, k) = IF k = j THEN s ELSE Says(t, k)

\* The new text is one.
LEMMA LineAltered ==
  ASSUME NEW t, NEW n \in Nat, TextFine(t, n), NEW j \in Lines(t), NEW s, IsLine(s), s.hits \subseteq Says(t, j).hits
  PROVE  LET u == [t EXCEPT !.lines[j].says = s] IN TextFine(u, n) /\ Altered(t, u, j, s)
<1> DEFINE Line == [id : Nat, says : LineSays]
           q == t.lines
           l == [q[j] EXCEPT !.says = s]
           p == [q EXCEPT ![j] = l]
           u == [t EXCEPT !.lines[j].says = s]
<1>0. t \in Text /\ q \in Seq(Line)
  BY DEF TextFine, Text
<1>1. t \in Text /\ q \in Seq(Line) /\ Lines(t) = 1..Len(q) /\ Len(q) \in Nat /\ q[j] \in Line
  <2> HIDE DEF Line
  <2> QED BY <1>0 DEF Lines
<1>2. l \in Line /\ l.id = q[j].id /\ l.says = s
  BY <1>1 DEF IsLine
<1> HIDE DEF Line, l
<1>3. p \in Seq(Line) /\ Len(p) = Len(q) /\ DOMAIN p = DOMAIN q /\ \A k \in 1..Len(q) : p[k] = IF k = j THEN l ELSE q[k]
  BY <1>1, <1>2
<1> HIDE DEF p
<1>4. u = [t EXCEPT !.lines = p]
  BY DEF p, l
<1>5. u \in Text /\ u.lines = p /\ u.pinned = t.pinned /\ u.mends = t.mends /\ u.lang = t.lang
  BY <1>1, <1>3, <1>4 DEF Text, Line
<1> HIDE DEF u
<1>6. Altered(t, u, j, s)
  BY <1>1, <1>2, <1>3, <1>5 DEF Altered, Lines, Says
<1>7. TextFine(u, n)
  <2>1. \A k \in Lines(u) : k \in Lines(t) /\ u.lines[k].id = t.lines[k].id /\ Says(u, k).hits \subseteq Says(t, k).hits
                            /\ IsLine(Says(u, k))
    BY <1>6 DEF Altered, TextFine
  <2>2. \A k \in Lines(u) : Says(u, k).hits # {} => Says(t, k).hits # {}
    BY <2>1
  <2> QED BY <1>5, <2>1, <2>2 DEF TextFine
<1> QED BY <1>6, <1>7 DEF u

\* It can be read as before if the line leaves open and begins what it did.
LEMMA AlteredParses ==
  ASSUME NEW t, NEW u, NEW n, NEW j, NEW s, TextFine(t, n), Altered(t, u, j, s),
         s.leaves = Says(t, j).leaves, s.begins = Says(t, j).begins
  PROVE  (\A k \in Lines(t) : Held(u, k) = Held(t, k)) /\ Parses(u) = Parses(t)
<1>1. Len(t.lines) \in Nat /\ Lines(t) = 1..Len(t.lines) /\ Lines(u) = Lines(t) /\ Len(u.lines) = Len(t.lines)
  BY TextFields DEF Altered
<1>2. \A k \in Lines(t) : Says(u, k).leaves = Says(t, k).leaves /\ Says(u, k).begins = Says(t, k).begins
  BY DEF Altered
<1>3. ASSUME NEW k \in 1..(Len(t.lines) + 1) PROVE Held(u, k) = Held(t, k)
  <2>1. 1..(k - 1) \subseteq Lines(t)
    BY <1>1
  <2>2. Leaving(u, k) = Leaving(t, k)
    BY <1>2, <2>1 DEF Leaving
  <2> QED BY <2>2 DEF Held, Leaving
<1>4. Parses(u) <=> Parses(t)
  BY <1>1, <1>2, <1>3 DEF Parses
<1>5. Parses(u) \in BOOLEAN /\ Parses(t) \in BOOLEAN
  BY DEF Parses
<1> QED BY <1>1, <1>3, <1>4, <1>5

\* The code is as it was.
LEMMA AlteredCode ==
  ASSUME NEW t, NEW u, NEW j, NEW s, Altered(t, u, j, s), s.code = Says(t, j).code
  PROVE  CodeOf(u) = CodeOf(t)
<1>1. Lines(u) = Lines(t) /\ \A k \in Lines(t) : Says(u, k).code = Says(t, k).code
  BY DEF Altered
<1>2. Coded(u) = Coded(t) /\ Coded(t) \subseteq Lines(t)
  BY <1>1 DEF Coded
<1> QED BY <1>1, <1>2 DEF CodeOf

\* What comments do depends on what the lines say of it.
DisabledBy(t, l) ==
  IF Held(t, l) THEN {} ELSE IF Says(t, l).wide # {} THEN {0} \X Says(t, l).wide ELSE {l + 1} \X Says(t, l).mute

\* Lines that say the same of comments disable the same rules.
LEMMA DisabledSame ==
  ASSUME NEW t, NEW u, Lines(u) = Lines(t), Parses(u) = Parses(t),
         \A l \in Lines(t) : /\ Held(u, l) = Held(t, l)
                             /\ Says(u, l).wide = Says(t, l).wide /\ Says(u, l).mute = Says(t, l).mute
  PROVE  DisabledAt(u) = DisabledAt(t)
<1>1. \A v : DisabledAt(v) = IF ~Parses(v) THEN {} ELSE UNION {DisabledBy(v, l) : l \in Lines(v)}
  BY DEF DisabledAt, DisabledBy
<1>2. \A l \in Lines(t) : DisabledBy(u, l) = DisabledBy(t, l)
  BY DEF DisabledBy
<1>3. {DisabledBy(u, l) : l \in Lines(u)} = {DisabledBy(t, l) : l \in Lines(t)}
  BY <1>2
<1> QED BY <1>1, <1>3

\* One finding of a line less.
LEMMA OneLess ==
  ASSUME NEW t, NEW u, NEW n \in Nat, NEW i \in Lines(t), NEW r \in Says(t, i).hits, TextFine(t, n), TextFine(u, n),
         Lines(u) = Lines(t), u.pinned = t.pinned, Parses(u) = Parses(t),
         \A k \in Lines(t) : u.lines[k].id = t.lines[k].id,
         Parses(t) => /\ \A q : <<0, q>> \in DisabledAt(u) <=> <<0, q>> \in DisabledAt(t)
                      /\ \A k \in Lines(t) : \A q : OnLine(u, k, q) <=> OnLine(t, k, q) /\ ~(k = i /\ q = r)
  PROVE  Reported(u) = Reported(t) \ {<<t.lines[i].id, r>>}
<1> SUFFICES ASSUME NEW x PROVE x \in Reported(u) <=> x \in Reported(t) /\ x # <<t.lines[i].id, r>>
  OBVIOUS
<1>1. x \in Reported(u) <=>
         /\ Parses(u)
         /\ \/ \E q \in u.pinned : x = <<0, q>> /\ <<0, q>> \notin DisabledAt(u)
            \/ \E k \in Lines(u) : \E q \in Says(u, k).hits : x = <<u.lines[k].id, q>> /\ OnLine(u, k, q)
  BY ReportedIs
<1>2. x \in Reported(t) <=>
         /\ Parses(t)
         /\ \/ \E q \in t.pinned : x = <<0, q>> /\ <<0, q>> \notin DisabledAt(t)
            \/ \E k \in Lines(t) : \E q \in Says(t, k).hits : x = <<t.lines[k].id, q>> /\ OnLine(t, k, q)
  BY ReportedIs
<1>3. \A k \in Lines(t) : \A q \in Says(t, k).hits : <<t.lines[k].id, q>> = <<t.lines[i].id, r>> <=> k = i /\ q = r
  BY DEF TextFine
<1>4. CASE ~Parses(t)
  BY <1>1, <1>2, <1>4
<1>5. CASE Parses(t)
  <2>1. \A q \in t.pinned : <<0, q>> # <<t.lines[i].id, r>>
    BY DEF TextFine, IsLine
  <2>2. ASSUME NEW q \in u.pinned, x = <<0, q>>, <<0, q>> \notin DisabledAt(u)
        PROVE  x \in Reported(t) /\ x # <<t.lines[i].id, r>>
    BY <1>2, <1>5, <2>1, <2>2
  <2>3. ASSUME NEW k \in Lines(u), NEW q \in Says(u, k).hits, x = <<u.lines[k].id, q>>, OnLine(u, k, q)
        PROVE  x \in Reported(t) /\ x # <<t.lines[i].id, r>>
    <3>1. OnLine(t, k, q) /\ ~(k = i /\ q = r) /\ k \in Lines(t) /\ x = <<t.lines[k].id, q>>
      BY <1>5, <2>3
    <3>2. q \in Says(t, k).hits
      BY <3>1 DEF OnLine
    <3> QED BY <1>2, <1>3, <1>5, <3>1, <3>2
  <2>4. ASSUME NEW q \in t.pinned, x = <<0, q>>, <<0, q>> \notin DisabledAt(t) PROVE x \in Reported(u)
    BY <1>1, <1>5, <2>4
  <2>5. ASSUME NEW k \in Lines(t), NEW q \in Says(t, k).hits, x = <<t.lines[k].id, q>>, OnLine(t, k, q),
               x # <<t.lines[i].id, r>>
        PROVE  x \in Reported(u)
    <3>1. OnLine(u, k, q) /\ k \in Lines(u) /\ x = <<u.lines[k].id, q>>
      BY <1>5, <2>5
    <3>2. q \in Says(u, k).hits
      BY <3>1 DEF OnLine
    <3> QED BY <1>1, <1>5, <3>1, <3>2
  <2> QED BY <1>1, <1>2, <1>5, <2>2, <2>3, <2>4, <2>5
<1> QED BY <1>4, <1>5

\* A line that disables one rule more.
Extended(s, r) == [s EXCEPT !.mute = @ \cup {r}]

\* A comment above the line of a finding that names one more rule.
LEMMA CommentExtended ==
  ASSUME NEW t, NEW u, NEW n \in Nat, NEW i \in Lines(t), NEW r \in Says(t, i).hits, TextFine(t, n), TextFine(u, n),
         i > 1, Says(t, i - 1).mute # {}, ~Held(t, i - 1),
         Altered(t, u, i - 1, Extended(Says(t, i - 1), r))
  PROVE  AllBut(t, u, i, r)
<1> DEFINE j == i - 1
           s == Extended(Says(t, j), r)
<1>1. Len(t.lines) \in Nat /\ Lines(t) = 1..Len(t.lines) /\ j \in Lines(t) /\ j + 1 = i /\ i # 0
  BY TextFields
<1>2. /\ s.leaves = Says(t, j).leaves /\ s.begins = Says(t, j).begins /\ s.code = Says(t, j).code
      /\ s.hits = Says(t, j).hits /\ s.wide = Says(t, j).wide /\ s.mute = Says(t, j).mute \cup {r}
      /\ Says(t, j).wide = {}
  <2>1. IsLine(Says(t, j)) /\ Says(t, j).mute # {}
    BY <1>1 DEF TextFine
  <2> QED BY <2>1 DEF IsLine, LineSays, Extended
<1>3. Altered(t, u, j, s)
  OBVIOUS
<1> HIDE DEF j, s
<1>4. (\A k \in Lines(t) : Held(u, k) = Held(t, k)) /\ Parses(u) = Parses(t)
  BY <1>2, <1>3, AlteredParses
<1>5. CodeOf(u) = CodeOf(t)
  BY <1>2, <1>3, AlteredCode
<1>6. Lines(u) = Lines(t) /\ u.pinned = t.pinned /\ \A k \in Lines(t) :
        /\ u.lines[k].id = t.lines[k].id /\ Says(u, k).hits = Says(t, k).hits /\ Says(u, k).wide = Says(t, k).wide
        /\ Says(u, k).mute = IF k = j THEN Says(t, j).mute \cup {r} ELSE Says(t, k).mute
  BY <1>2, <1>3 DEF Altered
<1>7. ASSUME Parses(t), NEW k, NEW q PROVE <<k, q>> \in DisabledAt(u) <=> <<k, q>> \in DisabledAt(t) \/ (k = i /\ q = r)
  <2> DEFINE By(v, l) == /\ ~Held(v, l)
                         /\ \/ Says(v, l).wide # {} /\ k = 0 /\ q \in Says(v, l).wide
                            \/ Says(v, l).wide = {} /\ k = l + 1 /\ q \in Says(v, l).mute
  <2>1. /\ <<k, q>> \in DisabledAt(t) <=> \E l \in Lines(t) : By(t, l)
        /\ <<k, q>> \in DisabledAt(u) <=> \E l \in Lines(u) : By(u, l)
    <3>1. Parses(u)
      BY <1>4, <1>7
    <3> QED BY <1>7, <3>1, Disabled
  <2>2. \A l \in Lines(t) : l # j => (By(u, l) <=> By(t, l))
    BY <1>4, <1>6
  <2>3. By(u, j) <=> By(t, j) \/ (k = i /\ q = r)
    <3>1. ~Held(t, j) /\ ~Held(u, j)
      BY <1>1, <1>4 DEF j
    <3> QED BY <1>1, <1>2, <1>6, <3>1
  <2> HIDE DEF By
  <2> QED BY <1>1, <1>6, <2>1, <2>2, <2>3
<1>8. Parses(t) => /\ \A q : <<0, q>> \in DisabledAt(u) <=> <<0, q>> \in DisabledAt(t)
                   /\ \A k \in Lines(t) : \A q : OnLine(u, k, q) <=> OnLine(t, k, q) /\ ~(k = i /\ q = r)
  <2> SUFFICES ASSUME Parses(t)
               PROVE  /\ \A q : <<0, q>> \in DisabledAt(u) <=> <<0, q>> \in DisabledAt(t)
                      /\ \A k \in Lines(t) : \A q : OnLine(u, k, q) <=> OnLine(t, k, q) /\ ~(k = i /\ q = r)
    OBVIOUS
  <2>1. \A q : <<0, q>> \in DisabledAt(u) <=> <<0, q>> \in DisabledAt(t)
    BY <1>1, <1>7
  <2>2. \A k \in Lines(t) : \A q : <<k, q>> \in DisabledAt(u) <=> <<k, q>> \in DisabledAt(t) \/ (k = i /\ q = r)
    BY <1>7
  <2> QED BY <1>6, <2>1, <2>2 DEF OnLine
<1>9. Reported(u) = Reported(t) \ {<<t.lines[i].id, r>>}
  BY <1>4, <1>6, <1>8, OneLess
<1> QED BY <1>4, <1>5, <1>9 DEF AllBut

\* A line whose finding a fixer has repaired.
LEMMA LineMended ==
  ASSUME NEW t, NEW u, NEW n \in Nat, NEW i \in Lines(t), NEW r \in Says(t, i).hits, TextFine(t, n), TextFine(u, n),
         Altered(t, u, i, Mended(Says(t, i), r))
  PROVE  AllBut(t, u, i, r)
<1> DEFINE s == Mended(Says(t, i), r)
<1>2. /\ s.leaves = Says(t, i).leaves /\ s.begins = Says(t, i).begins /\ s.code = Says(t, i).code
      /\ s.hits = Says(t, i).hits \ {r} /\ s.wide = Says(t, i).wide /\ s.mute = Says(t, i).mute
  <2>1. Says(t, i) \in LineSays
    BY TextFields
  <2> QED BY <2>1 DEF LineSays, Mended
<1>3. Altered(t, u, i, s)
  OBVIOUS
<1> HIDE DEF s
<1>4. (\A k \in Lines(t) : Held(u, k) = Held(t, k)) /\ Parses(u) = Parses(t)
  BY <1>2, <1>3, AlteredParses
<1>6. Lines(u) = Lines(t) /\ u.pinned = t.pinned /\ \A k \in Lines(t) :
        /\ u.lines[k].id = t.lines[k].id
        /\ Says(u, k).hits = IF k = i THEN Says(t, i).hits \ {r} ELSE Says(t, k).hits
        /\ Says(u, k).mute = Says(t, k).mute /\ Says(u, k).wide = Says(t, k).wide
  BY <1>2, <1>3 DEF Altered
<1>7. DisabledAt(u) = DisabledAt(t)
  BY <1>4, <1>6, DisabledSame
<1>8. \A k \in Lines(t) : \A q : OnLine(u, k, q) <=> OnLine(t, k, q) /\ ~(k = i /\ q = r)
  BY <1>6, <1>7 DEF OnLine
<1>9. Reported(u) = Reported(t) \ {<<t.lines[i].id, r>>}
  BY <1>4, <1>6, <1>7, <1>8, OneLess
<1>10. CodeOf(u) = CodeOf(t)
  BY <1>2, <1>3, AlteredCode
<1> QED BY <1>4, <1>9, <1>10 DEF AllBut

\* A file whose finding a fixer has repaired.
LEMMA FileMended ==
  ASSUME NEW t, NEW n \in Nat, NEW r \in t.mends, TextFine(t, n)
  PROVE  LET u == [t EXCEPT !.pinned = @ \ {r}, !.mends = @ \ {r}]
         IN TextFine(u, n) /\ u.pinned \subseteq t.pinned /\ Reported(u) = Reported(t) \ {<<0, r>>}
<1> DEFINE u == [t EXCEPT !.pinned = @ \ {r}, !.mends = @ \ {r}]
<1>1. /\ u.lines = t.lines /\ u.pinned = t.pinned \ {r} /\ u.mends = t.mends \ {r} /\ u \in Text
      /\ r \in t.pinned /\ t.pinned \subseteq FileRules
  BY DEF TextFine, Text
<1> HIDE DEF u
<1>2. Lines(u) = Lines(t) /\ \A k : Says(u, k) = Says(t, k)
  BY <1>1 DEF Lines, Says
<1>3. TextFine(u, n)
  BY <1>1, <1>2 DEF TextFine
<1>4. DisabledAt(u) = DisabledAt(t) /\ Parses(u) = Parses(t)
  <2>1. ASSUME NEW k PROVE Held(u, k) = Held(t, k)
    <3>1. Leaving(u, k) = Leaving(t, k)
      BY <1>2 DEF Leaving
    <3> QED BY <3>1 DEF Held, Leaving
  <2>2. Parses(u) = Parses(t)
    BY <1>1, <1>2, <2>1 DEF Parses
  <2> QED BY <1>2, <2>1, <2>2, DisabledSame
<1>5. ASSUME NEW x PROVE x \in Reported(u) <=> x \in Reported(t) /\ x # <<0, r>>
  <2>1. x \in Reported(u) <=>
           /\ Parses(u)
           /\ \/ \E q \in u.pinned : x = <<0, q>> /\ <<0, q>> \notin DisabledAt(u)
              \/ \E k \in Lines(u) : \E q \in Says(u, k).hits : x = <<u.lines[k].id, q>> /\ OnLine(u, k, q)
    BY <1>3, ReportedIs
  <2>2. x \in Reported(t) <=>
           /\ Parses(t)
           /\ \/ \E q \in t.pinned : x = <<0, q>> /\ <<0, q>> \notin DisabledAt(t)
              \/ \E k \in Lines(t) : \E q \in Says(t, k).hits : x = <<t.lines[k].id, q>> /\ OnLine(t, k, q)
    BY ReportedIs
  <2>3. \A k \in Lines(t) : \A q \in Says(t, k).hits : q # r
    BY <1>1 DEF TextFine, IsLine
  <2>4. \A k, q : OnLine(u, k, q) <=> OnLine(t, k, q)
    BY <1>2, <1>4 DEF OnLine
  <2>5. (\E k \in Lines(u) : \E q \in Says(u, k).hits : x = <<u.lines[k].id, q>> /\ OnLine(u, k, q))
          <=> \E k \in Lines(t) : \E q \in Says(t, k).hits : x = <<t.lines[k].id, q>> /\ OnLine(t, k, q)
    BY <1>1, <1>2, <2>4
  <2>6. \A k \in Lines(t) : \A q \in Says(t, k).hits : <<t.lines[k].id, q>> # <<0, r>>
    BY <2>3
  <2>7. (\E q \in u.pinned : x = <<0, q>> /\ <<0, q>> \notin DisabledAt(u))
          <=> (\E q \in t.pinned : x = <<0, q>> /\ <<0, q>> \notin DisabledAt(t)) /\ x # <<0, r>>
    <3>1. \A q : x = <<0, q>> => (q \in u.pinned <=> q \in t.pinned /\ x # <<0, r>>)
      BY <1>1
    <3> QED BY <1>4, <3>1
  <2>8. (\E k \in Lines(t) : \E q \in Says(t, k).hits : x = <<t.lines[k].id, q>> /\ OnLine(t, k, q)) => x # <<0, r>>
    BY <2>6
  <2> QED BY <1>4, <2>1, <2>2, <2>5, <2>7, <2>8
<1> QED BY <1>1, <1>3, <1>5 DEF u
-----------------------------------------------------------------------------
(* What the edits do *)

\* Identities are given out in order.
LEMMA FineLater == \A t : \A n \in Nat : TextFine(t, n) => TextFine(t, n + 1)
<1> SUFFICES ASSUME NEW t, NEW n \in Nat, TextFine(t, n) PROVE TextFine(t, n + 1)
  OBVIOUS
<1>1. \A i \in Lines(t) : t.lines[i].id < FirstTyped + n => t.lines[i].id < FirstTyped + (n + 1)
  BY TextFields DEF FirstTyped
<1> QED BY <1>1 DEF TextFine

\* disable_line_edit
LEMMA LineEdit ==
  ASSUME NEW t, NEW n \in Nat, TextFine(t, n), NEW i \in Lines(t), NEW r \in STRING, NEW u \in DisableLineEdit(t, r, i)
  PROVE  /\ TextFine(u, n) /\ u.pinned = t.pinned
         /\ r \in Says(t, i).hits /\ (i > 1 /\ Says(t, i - 1).mute # {} => Says(t, i - 1).whole /\ ~Held(t, i - 1)) =>
              /\ CodeOf(u) = CodeOf(t) /\ Parses(u) = Parses(t)
              /\ Reported(u) = Reported(t) \ {<<t.lines[i].id, r>>}
<1> DEFINE j == i - 1
           above == i > 1 /\ Says(t, j).whole /\ Says(t, j).mute # {}
           s == Extended(Says(t, j), r)
<1>1. Len(t.lines) \in Nat /\ Lines(t) = 1..Len(t.lines) /\ i \in 1..(Len(t.lines) + 1)
  BY TextFields
<1>2. CASE above
  <2>1. u = [t EXCEPT !.lines[j].says.mute = @ \cup {r}]
    BY <1>2 DEF DisableLineEdit, Commented
  <2>2. j \in Lines(t) /\ IsLine(Says(t, j)) /\ Says(t, j).mute # {}
    BY <1>1, <1>2 DEF TextFine
  <2>3. IsLine(s) /\ s.hits = Says(t, j).hits
    BY <2>2 DEF IsLine, LineSays, Extended
  <2>4. u = [t EXCEPT !.lines[j].says = s]
    BY <2>1 DEF Says, Extended
  <2> HIDE DEF s
  <2>5. TextFine(u, n) /\ Altered(t, u, j, s)
    BY <2>2, <2>3, <2>4, LineAltered
  <2>6. ASSUME r \in Says(t, i).hits, i > 1 /\ Says(t, j).mute # {} => Says(t, j).whole /\ ~Held(t, j)
        PROVE  AllBut(t, u, i, r)
    <3>1. i > 1 /\ ~Held(t, j) /\ Says(t, j).mute # {}
      BY <1>2, <2>6
    <3>2. Altered(t, u, i - 1, Extended(Says(t, i - 1), r))
      BY <2>5 DEF s
    <3> QED BY <2>5, <2>6, <3>1, <3>2, CommentExtended
  <2> QED BY <2>5, <2>6 DEF Altered, AllBut
<1>3. CASE ~above
  <2>1. u = [t EXCEPT !.lines = InsertAt(@, i, Marker(t, {r}, {}))] /\ Accepts(t, i)
    BY <1>3 DEF DisableLineEdit, Commented
  <2>2. Marked(t, u, i, {r}, {})
    BY <1>1, <2>1 DEF Marked
  <2>3. TextFine(u, n) /\ u.pinned = t.pinned
    BY <2>2, MarkedLines
  <2>4. CodeOf(u) = CodeOf(t)
    BY <2>2, MarkedCode
  <2>5. ASSUME r \in Says(t, i).hits, i > 1 /\ Says(t, j).mute # {} => Says(t, j).whole /\ ~Held(t, j)
        PROVE  AllBut(t, u, i, r)
    <3>1. i > 1 => Says(t, i - 1).mute = {}
      BY <1>3, <2>5
    <3>2. Muted(t, u, i, r)
      BY <2>1, <2>2 DEF Muted
    <3> QED BY <2>5, <3>1, <3>2, LineIsDisabled
  <2> QED BY <2>3, <2>4, <2>5 DEF AllBut
<1> QED BY <1>2, <1>3

\* u has all of t but the findings of rule r, and the line that must be first where it was.
Silent(t, u, r) ==
  /\ CodeOf(u) = CodeOf(t) /\ NoneOf(t, u, r)
  /\ t.lines # <<>> /\ Says(t, 1).first => Says(u, 1).first

\* disable_file_edit
LEMMA FileEdit ==
  ASSUME NEW t, NEW n \in Nat, TextFine(t, n), NEW r \in STRING, NEW u \in DisableFileEdit(t, r)
  PROVE  TextFine(u, n) /\ Silent(t, u, r)
<1> DEFINE top == IF t.lines # <<>> /\ Says(t, 1).first THEN 2 ELSE 1
<1>1. Len(t.lines) \in Nat /\ Lines(t) = 1..Len(t.lines)
  BY TextFields
<1>2. t.lines # <<>> => Len(t.lines) >= 1 /\ 1 \in Lines(t)
  <2>1. t.lines \in Seq([id : Nat, says : LineSays])
    BY DEF TextFine, Text
  <2>2. t.lines # <<>> => Len(t.lines) # 0
    BY <2>1, EmptySeq
  <2> QED BY <1>1, <2>2
<1>3. top \in 1..(Len(t.lines) + 1) /\ (top = 1 \/ (top = 2 /\ Says(t, 1).first))
  BY <1>1, <1>2
<1>4. u = [t EXCEPT !.lines = InsertAt(@, top, Marker(t, {}, {r}))]
  BY DEF DisableFileEdit
<1>5. t.lines # <<>> /\ Says(t, 1).first => top = 2
  OBVIOUS
<1> HIDE DEF top
<1>6. Marked(t, u, top, {}, {r})
  BY <1>3, <1>4 DEF Marked
<1>7. TextFine(u, n) /\ u.pinned = t.pinned /\ Grown(t, u, top)
  BY <1>6, MarkedLines
<1>8. CodeOf(u) = CodeOf(t)
  BY <1>6, MarkedCode
<1>9. NoneOf(t, u, r)
  <2>1. MutedAll(t, u, top, r)
    BY <1>3, <1>6 DEF MutedAll
  <2> QED BY <2>1, FileIsDisabled
<1>10. ASSUME t.lines # <<>> /\ Says(t, 1).first PROVE Says(u, 1).first
  <2>1. top = 2 /\ 1 \in Lines(t)
    BY <1>2, <1>5, <1>10
  <2>2. u.lines[1] = t.lines[1]
    BY <1>7, <2>1 DEF Grown
  <2> QED BY <1>10, <2>2 DEF Says
<1> QED BY <1>7, <1>8, <1>9, <1>10 DEF Silent

\* fix_edits
LEMMA FixEdit ==
  ASSUME NEW t, NEW n \in Nat, TextFine(t, n), NEW i \in Lines(t), NEW r, NEW u \in FixEdits(t, r, i)
  PROVE  /\ TextFine(u, n) /\ u.pinned \subseteq t.pinned
         /\ r \in Says(t, i).hits \cup t.pinned
         /\ Reported(u) = Reported(t) \ {<<IF r \in t.pinned THEN 0 ELSE t.lines[i].id, r>>}
<1> DEFINE s == Mended(Says(t, i), r)
<1>1. CASE r \in t.mends /\ u = [t EXCEPT !.pinned = @ \ {r}, !.mends = @ \ {r}]
  <2>1. r \in t.pinned
    BY <1>1 DEF TextFine
  <2>2. TextFine(u, n) /\ u.pinned \subseteq t.pinned /\ Reported(u) = Reported(t) \ {<<0, r>>}
    BY <1>1, FileMended
  <2> QED BY <2>1, <2>2
<1>2. CASE r \in Says(t, i).fix /\ u = [t EXCEPT !.lines[i].says = Mended(@, r)]
  <2>1. IsLine(Says(t, i)) /\ r \in Says(t, i).hits /\ r \notin t.pinned
    BY <1>2 DEF TextFine, IsLine
  <2>2. IsLine(s) /\ s.hits \subseteq Says(t, i).hits
    BY <2>1 DEF IsLine, LineSays, Mended
  <2>3. u = [t EXCEPT !.lines[i].says = s]
    BY <1>2 DEF Says
  <2> HIDE DEF s
  <2>4. TextFine(u, n) /\ Altered(t, u, i, s)
    BY <2>2, <2>3, LineAltered
  <2>5. Reported(u) = Reported(t) \ {<<t.lines[i].id, r>>}
    <3>1. Altered(t, u, i, Mended(Says(t, i), r))
      BY <2>4 DEF s
    <3> QED BY <2>1, <2>4, <3>1, LineMended DEF AllBut
  <2> QED BY <2>1, <2>4, <2>5 DEF Altered
<1> QED BY <1>1, <1>2 DEF FixEdits

\* The user types a line.
LEMMA TypedIn ==
  ASSUME NEW t, NEW n \in Nat, TextFine(t, n), NEW i \in 1..(Len(t.lines) + 1), NEW s, IsLine(s)
  PROVE  LET u == [t EXCEPT !.lines = InsertAt(@, i, [id |-> FirstTyped + n, says |-> s])]
         IN TextFine(u, n + 1) /\ u.pinned = t.pinned
<1> DEFINE Line == [id : Nat, says : LineSays]
           m == [id |-> FirstTyped + n, says |-> s]
           q == t.lines
           p == InsertAt(q, i, m)
           u == [t EXCEPT !.lines = p]
<1>1. t \in Text /\ q \in Seq(Line) /\ Len(q) \in Nat /\ Lines(t) = 1..Len(q) /\ i \in 1..(Len(q) + 1)
  BY TextFields DEF TextFine, Text
<1>2. m \in Line /\ m.says = s /\ m.id = FirstTyped + n /\ FirstTyped + n < FirstTyped + (n + 1)
  BY DEF IsLine, FirstTyped
<1> HIDE DEF Line, m
<1>3. p \in Seq(Line) /\ Len(p) = Len(q) + 1 /\ Put(p, q, i, m)
  BY <1>1, <1>2, InsertedAt
<1> HIDE DEF p
<1>4. u \in Text /\ u.lines = p /\ u.pinned = t.pinned /\ u.mends = t.mends
  BY <1>1, <1>3 DEF Text, Line
<1> HIDE DEF u
<1>5. Lines(u) = 1..(Len(q) + 1) /\ u.lines[i] = m
  BY <1>1, <1>3, <1>4 DEF Lines, Put
<1>6. \A k \in Lines(u) : k = i \/ \E j \in Lines(t) : u.lines[k] = q[j] /\ k = Moved(j, i)
  <2> SUFFICES ASSUME NEW k \in Lines(u), k # i
               PROVE  \E j \in Lines(t) : u.lines[k] = q[j] /\ k = Moved(j, i)
    OBVIOUS
  <2>1. CASE k < i
    BY <1>1, <1>3, <1>4, <1>5, <2>1 DEF Put, Moved
  <2>2. CASE k > i
    <3>1. k - 1 \in Lines(t) /\ k = Moved(k - 1, i)
      BY <1>1, <1>5, <2>2 DEF Moved
    <3>2. u.lines[k] = q[k - 1]
      BY <1>1, <1>3, <1>4, <1>5, <2>2 DEF Put
    <3> QED BY <3>1, <3>2
  <2> QED BY <1>1, <1>5, <2>1, <2>2
<1>7. \A j \in Lines(t) : IsLine(q[j].says) /\ (q[j].says.hits # {} => q[j].id < FirstTyped + n)
  BY DEF TextFine, Says
<1>8. \A j \in Lines(t) : q[j].id \in Nat
  BY TextFields
<1>9. \A k \in Lines(u) : IsLine(Says(u, k)) /\ (Says(u, k).hits # {} => u.lines[k].id < FirstTyped + (n + 1))
  <2> SUFFICES ASSUME NEW k \in Lines(u)
               PROVE  IsLine(Says(u, k)) /\ (Says(u, k).hits # {} => u.lines[k].id < FirstTyped + (n + 1))
    OBVIOUS
  <2>1. CASE k = i
    BY <1>2, <1>5, <2>1 DEF Says
  <2>2. CASE k # i
    <3>1. PICK j \in Lines(t) : u.lines[k] = q[j]
      BY <1>6, <2>2
    <3> QED BY <1>7, <1>8, <3>1 DEF Says, FirstTyped
  <2> QED BY <2>1, <2>2
<1>10. ASSUME NEW k \in Lines(u), NEW l \in Lines(u), Says(u, k).hits # {}, Says(u, l).hits # {},
              u.lines[k].id = u.lines[l].id
       PROVE  k = l
  <2>1. ASSUME NEW a \in Lines(u), a # i, Says(u, a).hits # {} PROVE u.lines[a].id # FirstTyped + n
    <3>1. PICK j \in Lines(t) : u.lines[a] = q[j]
      BY <1>6, <2>1
    <3>2. q[j].id < FirstTyped + n /\ q[j].id \in Nat
      BY <1>7, <1>8, <2>1, <3>1 DEF Says
    <3> QED BY <3>1, <3>2 DEF FirstTyped
  <2>2. CASE k = i \/ l = i
    BY <1>2, <1>5, <1>10, <2>1, <2>2
  <2>3. CASE k # i /\ l # i
    <3>1. PICK a \in Lines(t) : u.lines[k] = q[a] /\ k = Moved(a, i)
      BY <1>6, <2>3
    <3>2. PICK b \in Lines(t) : u.lines[l] = q[b] /\ l = Moved(b, i)
      BY <1>6, <2>3
    <3>3. a = b
      BY <1>10, <3>1, <3>2 DEF TextFine, Says
    <3> QED BY <3>1, <3>2, <3>3
  <2> QED BY <2>2, <2>3
<1>11. TextFine(u, n + 1)
  <2>1. u.mends \subseteq u.pinned /\ u.pinned \subseteq FileRules
    BY <1>4 DEF TextFine
  <2> QED BY <1>4, <1>9, <1>10, <2>1 DEF TextFine
<1> QED BY <1>4, <1>11 DEF u, p, m

\* The user takes a line away.
LEMMA LineGone ==
  ASSUME NEW t, NEW n \in Nat, TextFine(t, n), NEW i \in Lines(t)
  PROVE  LET u == [t EXCEPT !.lines = RemoveAt(@, i)] IN TextFine(u, n) /\ u.pinned = t.pinned
<1> DEFINE Line == [id : Nat, says : LineSays]
           q == t.lines
           p == RemoveAt(q, i)
           u == [t EXCEPT !.lines = p]
           from(k) == IF k < i THEN k ELSE k + 1
<1>1. t \in Text /\ q \in Seq(Line) /\ Len(q) \in Nat /\ Lines(t) = 1..Len(q)
  BY TextFields DEF TextFine, Text
<1> HIDE DEF Line
<1>2. p \in Seq(Line) /\ Len(p) = Len(q) - 1 /\ \A k \in 1..(Len(q) - 1) : p[k] = q[from(k)]
  BY <1>1, RemovedAt
<1> HIDE DEF p
<1>3. u \in Text /\ u.lines = p /\ u.pinned = t.pinned /\ u.mends = t.mends
  BY <1>1, <1>2 DEF Text, Line
<1> HIDE DEF u
<1>4. Lines(u) = 1..(Len(q) - 1) /\ \A k \in Lines(u) : from(k) \in Lines(t) /\ u.lines[k] = q[from(k)]
  BY <1>1, <1>2, <1>3 DEF Lines
<1>5. \A k, l \in Lines(u) : from(k) = from(l) => k = l
  BY <1>1, <1>4
<1> HIDE DEF from
<1>6. TextFine(u, n)
  <2>1. u.mends \subseteq u.pinned /\ u.pinned \subseteq FileRules
    BY <1>3 DEF TextFine
  <2>2. \A k \in Lines(u) : IsLine(Says(u, k)) /\ (Says(u, k).hits # {} => u.lines[k].id < FirstTyped + n)
    BY <1>4 DEF TextFine, Says
  <2>3. ASSUME NEW k \in Lines(u), NEW l \in Lines(u), Says(u, k).hits # {}, Says(u, l).hits # {},
               u.lines[k].id = u.lines[l].id
        PROVE  k = l
    <3>1. from(k) = from(l)
      BY <1>4, <2>3 DEF TextFine, Says
    <3> QED BY <1>5, <3>1
  <2> QED BY <1>3, <2>1, <2>2, <2>3 DEF TextFine
<1> QED BY <1>3, <1>6 DEF u, p
-----------------------------------------------------------------------------
(* What the user does *)

\* The invariant holds at first,
LEMMA EditorStart == EditorInit => EditorInv /\ ActionsHitTheirLine
<1> SUFFICES ASSUME EditorInit PROVE EditorInv /\ ActionsHitTheirLine
  OBVIOUS
<1>1. page \in Documents /\ shownFrom = page /\ draft = page /\ changes = 0 /\ ~deed.fresh
  BY DEF EditorInit, NoDeed
<1>2. page \in Text /\ page.mends \subseteq page.pinned /\ page.pinned \subseteq FileRules
  BY <1>1, EditorAssumption DEF FileRules
<1>3. \A i \in Lines(page) : IsLine(Says(page, i)) /\ page.lines[i].id < FirstTyped
  BY <1>1, EditorAssumption DEF Lines, Says
<1>4. \A i, k \in Lines(page) : page.lines[i].id = page.lines[k].id => i = k
  BY <1>1, EditorAssumption DEF Lines
<1>5. FirstTyped + 0 = FirstTyped
  BY DEF FirstTyped
<1>6. TextFine(page, 0)
  BY <1>2, <1>3, <1>4, <1>5 DEF TextFine
<1> QED BY <1>1, <1>6 DEF EditorInv, ActionsHitTheirLine

\* A finding that is offered: its rule, and the line it flags.
LEMMA Offered ==
  ASSUME EditorInv, NEW f \in FindingsOf(shownFrom)
  PROVE  f[2] \in STRING /\ (f[2] \notin shownFrom.pinned => f[2] \in Says(shownFrom, f[1]).hits)
<1>1. OnLine(shownFrom, f[1], f[2]) \/ f[2] \in shownFrom.pinned
  BY IsFound
<1>2. shownFrom \in Text /\ \A i \in Lines(shownFrom) : Says(shownFrom, i).hits \subseteq STRING
  BY DEF EditorInv, TextFine, IsLine, LineSays
<1> QED BY <1>1, <1>2 DEF OnLine, Text

\* A text that the user has typed in, or has accepted.
LEMMA DraftFine ==
  ASSUME EditorInv, changes' = changes + 1, UNCHANGED <<page, shownFrom>>, TextFine(draft', changes + 1)
  PROVE  EditorInv'
<1>1. changes \in Nat /\ TextFine(page, changes + 1) /\ TextFine(shownFrom, changes + 1)
  BY FineLater DEF EditorInv
<1> QED BY <1>1 DEF EditorInv

\* and every step keeps it.
LEMMA EditorStep == EditorInv /\ ActionsHitTheirLine /\ [EditorNext]_editorVars => EditorInv' /\ ActionsHitTheirLine'
<1> SUFFICES ASSUME EditorInv, ActionsHitTheirLine, [EditorNext]_editorVars PROVE EditorInv' /\ ActionsHitTheirLine'
  OBVIOUS
<1>0. changes \in Nat /\ TextFine(draft, changes)
  BY DEF EditorInv
<1>1. ASSUME Edit PROVE EditorInv' /\ ActionsHitTheirLine'
  <2>1. ~deed'.fresh /\ changes' = changes + 1 /\ UNCHANGED <<page, shownFrom>>
    BY <1>1 DEF Edit, NoDeed
  <2>2. TextFine(draft', changes + 1)
    <3>1. ASSUME NEW says \in Typing, NEW i \in 1..(Len(draft.lines) + 1),
                 draft' = [draft EXCEPT !.lines = InsertAt(@, i, [id |-> FirstTyped + changes, says |-> says])]
          PROVE  TextFine(draft', changes + 1)
      <4>1. IsLine(says)
        BY EditorAssumption
      <4> QED BY <1>0, <3>1, <4>1, TypedIn
    <3>2. ASSUME NEW i \in Lines(draft), draft' = [draft EXCEPT !.lines = RemoveAt(@, i)]
          PROVE  TextFine(draft', changes + 1)
      <4>1. TextFine(draft', changes)
        BY <1>0, <3>2, LineGone
      <4> QED BY <1>0, <4>1, FineLater
    <3> QED BY <1>1, <3>1, <3>2 DEF Edit
  <2>3. EditorInv'
    BY <2>1, <2>2, DraftFine
  <2> QED BY <2>1, <2>3 DEF ActionsHitTheirLine
<1>2. ASSUME SaveDraft PROVE EditorInv' /\ ActionsHitTheirLine'
  BY <1>2 DEF SaveDraft, EditorInv, NoDeed, ActionsHitTheirLine
<1>3. ASSUME ScanPage PROVE EditorInv' /\ ActionsHitTheirLine'
  BY <1>3 DEF ScanPage, EditorInv, NoDeed, ActionsHitTheirLine
<1>4. ASSUME NEW f \in FindingsOf(shownFrom), Hover(f) PROVE EditorInv' /\ ActionsHitTheirLine'
  <2>1. /\ deed' = [kind |-> "hover", rule |-> f[2], line |-> f[1], before |-> draft, fresh |-> shownFrom = page]
        /\ UNCHANGED <<page, shownFrom, draft, changes>> /\ Says(draft, f[1]) = Says(page, f[1])
    BY <1>4 DEF Hover, Did, LineInSync
  <2>2. EditorInv'
    BY <2>1 DEF EditorInv
  <2>3. shownFrom = page /\ f[2] \notin shownFrom.pinned => f[2] \in Says(draft, f[1]).hits
    BY <2>1, Offered
  <2> QED BY <2>1, <2>2, <2>3 DEF ActionsHitTheirLine
<1>5. ASSUME NEW f \in FindingsOf(shownFrom), FixIt(f) PROVE EditorInv' /\ ActionsHitTheirLine'
  <2>1. /\ deed' = [kind |-> "fix", rule |-> f[2], line |-> f[1], before |-> draft, fresh |-> shownFrom = page]
        /\ UNCHANGED <<page, shownFrom>> /\ changes' = changes + 1
        /\ f[1] \in Lines(draft) /\ draft' \in FixEdits(draft, f[2], f[1])
    BY <1>5 DEF FixIt, Accept, Did, LineInSync
  <2>2. /\ TextFine(draft', changes)
        /\ f[2] \in Says(draft, f[1]).hits \cup draft.pinned
        /\ Reported(draft') = Reported(draft) \ {<<IF f[2] \in draft.pinned THEN 0 ELSE draft.lines[f[1]].id, f[2]>>}
    BY <1>0, <2>1, FixEdit
  <2>3. EditorInv'
    BY <1>0, <2>1, <2>2, FineLater, DraftFine
  <2> QED BY <2>1, <2>2, <2>3 DEF ActionsHitTheirLine
<1>6. ASSUME NEW f \in FindingsOf(shownFrom), DisableOnLine(f) PROVE EditorInv' /\ ActionsHitTheirLine'
  <2> DEFINE r == f[2]
             i == f[1]
  <2>1. /\ deed' = [kind |-> "line", rule |-> r, line |-> i, before |-> draft, fresh |-> shownFrom = page]
        /\ UNCHANGED <<page, shownFrom>> /\ changes' = changes + 1
        /\ i \in Lines(draft) /\ Says(draft, i) = Says(page, i) /\ draft' \in DisableLineEdit(draft, r, i)
    BY <1>6 DEF DisableOnLine, Accept, Did, LineInSync
  <2>2. r \in STRING /\ (shownFrom = page /\ r \notin shownFrom.pinned => r \in Says(draft, i).hits)
    BY <2>1, Offered
  <2> HIDE DEF r, i
  <2>3. /\ TextFine(draft', changes)
        /\ /\ r \in Says(draft, i).hits
           /\ i > 1 /\ Says(draft, i - 1).mute # {} => Says(draft, i - 1).whole /\ ~Held(draft, i - 1)
           =>
             /\ CodeOf(draft') = CodeOf(draft) /\ Parses(draft') = Parses(draft)
             /\ Reported(draft') = Reported(draft) \ {<<draft.lines[i].id, r>>}
    BY <1>0, <2>1, <2>2, LineEdit
  <2>4. EditorInv'
    BY <1>0, <2>1, <2>3, FineLater, DraftFine
  <2>5. r \in Says(draft, i).hits => r \notin draft.pinned
    BY <1>0, <2>1 DEF TextFine, IsLine
  <2>6. ASSUME shownFrom = page, r \notin shownFrom.pinned,
               i > 1 /\ Says(draft, i - 1).mute # {} => Says(draft, i - 1).whole /\ ~Held(draft, i - 1)
        PROVE  /\ r \in Says(draft, i).hits /\ CodeOf(draft') = CodeOf(draft) /\ Parses(draft') = Parses(draft)
               /\ Reported(draft') = Reported(draft) \ {<<IF r \in draft.pinned THEN 0 ELSE draft.lines[i].id, r>>}
    BY <2>2, <2>3, <2>5, <2>6
  <2> QED BY <2>1, <2>4, <2>6 DEF ActionsHitTheirLine, Ordinary
<1>7. ASSUME NEW f \in FindingsOf(shownFrom), DisableInFile(f) PROVE EditorInv' /\ ActionsHitTheirLine'
  <2>1. /\ deed' = [kind |-> "file", rule |-> f[2], line |-> f[1], before |-> draft, fresh |-> shownFrom = page]
        /\ UNCHANGED <<page, shownFrom>> /\ changes' = changes + 1
        /\ draft' \in DisableFileEdit(draft, f[2])
    BY <1>7 DEF DisableInFile, Accept, Did
  <2>2. f[2] \in STRING
    BY Offered
  <2>3. TextFine(draft', changes) /\ Silent(draft, draft', f[2])
    BY <1>0, <2>1, <2>2, FileEdit
  <2>4. EditorInv'
    BY <1>0, <2>1, <2>3, FineLater, DraftFine
  <2> QED BY <2>1, <2>3, <2>4 DEF ActionsHitTheirLine, Silent, NoneOf
<1>8. ASSUME UNCHANGED editorVars PROVE EditorInv' /\ ActionsHitTheirLine'
  BY <1>8 DEF editorVars, EditorInv, ActionsHitTheirLine, Ordinary
<1> QED BY <1>1, <1>2, <1>3, <1>4, <1>5, <1>6, <1>7, <1>8 DEF EditorNext

\* While the findings are those of the file on disk, a hover or a quick fix made for the text in the editor is
\* about the statement its finding points at, and takes away that finding and nothing else, whatever was typed.
THEOREM ActionsHit == EditorSpec => []ActionsHitTheirLine
<1>1. EditorInit => EditorInv /\ ActionsHitTheirLine
  BY EditorStart
<1>2. EditorInv /\ ActionsHitTheirLine /\ [EditorNext]_editorVars => (EditorInv /\ ActionsHitTheirLine)'
  BY EditorStep
<1> QED BY <1>1, <1>2, PTL DEF EditorSpec
=============================================================================
