------------------------------- MODULE Pipeline -------------------------------
(***************************************************************************)
(* run_pipeline_with_stats (core/pipeline.py): the findings of all rules   *)
(* and linters go through seven stages; what the user's own switches drop  *)
(* is counted per module and rule (core/suppression_stats.py).             *)
(*                                                                         *)
(* A finding is known by its position in the list the rules produced, and  *)
(* a list of findings is the set of their positions: the order a report    *)
(* prints them in is left out.                                             *)
(***************************************************************************)
EXTENDS Naturals, FiniteSets

CONSTANTS
  N,          \* how many findings come in
  Module, Rule,
  Path,       \* spellings of file paths
  File,       \* resolved files
  Norm,       \* Path -> File: Path(...).resolve()
  Registered, \* the rules of the registry; the others are a linter's
  MinVersion, \* Registered -> an Odoo version or None
  Requires,   \* Registered -> the capabilities it needs
  Excludes,   \* Registered -> those it must not see
  Capability, \* among them VersionCap of every version
  VersionCap, \* version -> the capability derived from it
  Version,    \* Odoo versions, as numbers
  None, Unknown, Malformed,
  Detection,  \* what a module's version may come out as
  Diagnostics,\* the findings rules and linters may produce
  Comment,    \* suppression comments: their path, line, rules and whether for the whole file
  Configs,    \* what odoo-doctor.toml may say
  MinSample   \* MIN_SAMPLE

Position == 1..N
Severity == {"error", "warning", "info"}
Found    == Version \cup {Unknown, Malformed}
Override == Severity \cup {"off", None}

Config == [overrides : [Rule -> Override], ignore_rules : SUBSET Rule, ignore_modules : SUBSET Module,
           ignore_files : SUBSET File, capabilities : SUBSET Capability]

ASSUME PipelineAssumption ==
  /\ N \in Nat /\ MinSample \in Nat \ {0} /\ IsFiniteSet(Module)
  /\ Version \subseteq Nat /\ Detection \subseteq Found
  /\ {None, Unknown, Malformed} \cap Nat = {}
  /\ Registered \subseteq Rule
  /\ MinVersion \in [Registered -> Version \cup {None}]
  /\ Requires \in [Registered -> SUBSET Capability] /\ Excludes \in [Registered -> SUBSET Capability]
  /\ VersionCap \in [Version -> Capability]
  /\ Norm \in [Path -> File]
  /\ Diagnostics \subseteq [module : Module, path : Path, line : Nat, rule : Rule, title : STRING,
                            category : STRING, severity : Severity, source : STRING,
                            confidence : {"high", "medium", "low"}, length : Nat]
  /\ Comment \subseteq [path : Path, line : Nat \ {0}, rules : SUBSET Rule, wide : BOOLEAN]
  /\ Configs \subseteq Config

VARIABLES
  finding,   \* Position -> the finding, as the rules and linters produced it
  config,    \* odoo-doctor.toml
  comments,  \* the suppression comments in the scanned files
  version,   \* Module -> its Odoo version
  stage,     \* the next stage
  file,      \* Position -> its resolved path (stage 1)
  severity,  \* Position -> its severity (stage 3)
  diags,     \* the positions still in the list
  dropped,   \* channel -> the positions it dropped
  stats,     \* Module -> Rule -> counts
  eligible   \* the positions that count toward the score

input == <<finding, config, comments, version>>
vars  == <<finding, config, comments, version, stage, file, severity, diags, dropped, stats, eligible>>

Channel  == {"severity_off", "ignore_rule", "inline"}
Nothing  == [c \in Channel |-> {}]
NoCount  == [m \in Module |-> [r \in Rule |-> [surfaced |-> 0, severity_off |-> 0, ignore_rule |-> 0, inline |-> 0]]]

Start ==
  /\ stage = "normalize"
  /\ file = [i \in Position |-> None]
  /\ severity = [i \in Position |-> finding[i].severity]
  /\ diags = Position
  /\ dropped = Nothing /\ stats = NoCount /\ eligible = {}

Init ==
  /\ finding \in [Position -> Diagnostics]
  /\ config \in Configs
  /\ comments \in SUBSET Comment
  /\ version \in [Module -> Detection]
  /\ Start
-----------------------------------------------------------------------------
(* The filters *)

\* Two findings are one when they agree on module, file, line, category, rule and title.
SameFinding(i, j) ==
  /\ file[i] = file[j]
  /\ \A field \in {"module", "line", "category", "rule", "title"} : finding[i][field] = finding[j][field]

ConfidenceRank(i) == IF finding[i].confidence = "high" THEN 3
                     ELSE IF finding[i].confidence = "medium" THEN 2 ELSE 1
SourceRank(i)     == IF finding[i].source = "native" THEN 2
                     ELSE IF finding[i].source \in {"pylint-odoo", "ruff", "oca"} THEN 1 ELSE 0

\* max keeps the first of several best ones.
Better(i, j) ==
  \/ ConfidenceRank(i) > ConfidenceRank(j)
  \/ /\ ConfidenceRank(i) = ConfidenceRank(j)
     /\ \/ SourceRank(i) > SourceRank(j)
        \/ /\ SourceRank(i) = SourceRank(j)
           /\ \/ finding[i].length > finding[j].length
              \/ finding[i].length = finding[j].length /\ i < j

\* Mutant: findings that differ only in the title are taken for one.
SameLine(set) ==
  {i \in set : \A j \in set : file[i] = file[j] /\ finding[i].line = finding[j].line
                              /\ finding[i].rule = finding[j].rule /\ i # j => Better(i, j)}

\* The best of each group of equal findings.
Best(set) == {i \in set : \A j \in set : SameFinding(i, j) /\ i # j => Better(i, j)}

SwitchedOff(i) == config.overrides[finding[i].rule] = "off"

OutOfScope(i) == finding[i].module \in config.ignore_modules \/ file[i] \in config.ignore_files

InScope(set) == {i \in set : ~OutOfScope(i)}

IgnoredRule(i) == finding[i].rule \in config.ignore_rules

\* scan_*_suppressions: line 0 stands for the whole file, else the comment is about the next line.
Suppressions == UNION {{<<Norm[c.path], IF c.wide THEN 0 ELSE c.line + 1, r>> : r \in c.rules} : c \in comments}

Suppressed(i) ==
  \/ <<file[i], finding[i].line, finding[i].rule>> \in Suppressions
  \/ <<file[i], 0, finding[i].rule>> \in Suppressions

\* _version_gte: an unknown version passes, a malformed one does not.
AtLeast(found, minimum) == found = Unknown \/ (found \in Version /\ found >= minimum)

Capabilities(found) == config.capabilities \cup (IF found \in Version THEN {VersionCap[found]} ELSE {})

RuleIsEnabled(r, found) ==
  /\ MinVersion[r] # None => AtLeast(found, MinVersion[r])
  /\ Requires[r] \subseteq Capabilities(found)
  /\ Excludes[r] \cap Capabilities(found) = {}

\* The version and capability gates; a linter's rule has none.
Runs(i) == finding[i].rule \in Registered => RuleIsEnabled(finding[i].rule, version[finding[i].module])

Gate(set) == {i \in set : Runs(i)}
-----------------------------------------------------------------------------
(* The stages *)

At(this, next) == stage = this /\ stage' = next

Normalize ==
  /\ At("normalize", "deduplicate")
  /\ file' = [i \in Position |-> Norm[finding[i].path]]
  /\ UNCHANGED <<input, severity, diags, dropped, stats, eligible>>

Deduplicate ==
  /\ At("deduplicate", "severity")
  /\ diags' = Best(diags)
  /\ UNCHANGED <<input, file, severity, dropped, stats, eligible>>

\* A finding switched off counts while it is in scope; the others get their severity.
ApplySeverity ==
  /\ At("severity", "ignore")
  /\ dropped' = [dropped EXCEPT !["severity_off"] = InScope({i \in diags : SwitchedOff(i)})]
  /\ diags' = {i \in diags : ~SwitchedOff(i)}
  /\ severity' = [i \in Position |->
       IF i \in diags' /\ config.overrides[finding[i].rule] # None
       THEN config.overrides[finding[i].rule] ELSE severity[i]]
  /\ UNCHANGED <<input, file, stats, eligible>>

\* Mutant: what a stage drops is counted, whatever dropped it.
IgnoreCountsAll ==
  /\ At("ignore", "inline")
  /\ diags' = InScope({i \in diags : ~IgnoredRule(i)})
  /\ dropped' = [dropped EXCEPT !["ignore_rule"] = diags \ diags']
  /\ UNCHANGED <<input, file, severity, stats, eligible>>

ApplyIgnore ==
  /\ At("ignore", "inline")
  /\ dropped' = [dropped EXCEPT !["ignore_rule"] = InScope({i \in diags : IgnoredRule(i)})]
  /\ diags' = InScope({i \in diags : ~IgnoredRule(i)})
  /\ UNCHANGED <<input, file, severity, stats, eligible>>

ApplyInline ==
  /\ At("inline", "gate")
  /\ dropped' = [dropped EXCEPT !["inline"] = {i \in diags : Suppressed(i)}]
  /\ diags' = {i \in diags : ~Suppressed(i)}
  /\ UNCHANGED <<input, file, severity, stats, eligible>>

\* What was dropped is gated as well: a rule that would not run is not counted.
ApplyGates ==
  /\ At("gate", "stats")
  /\ diags' = Gate(diags)
  /\ dropped' = [c \in Channel |-> Gate(dropped[c])]
  /\ UNCHANGED <<input, file, severity, stats, eligible>>

Of(set, m, r) == Cardinality({i \in set : finding[i].module = m /\ finding[i].rule = r})

BuildStats ==
  /\ At("stats", "score")
  /\ stats' = [m \in Module |-> [r \in Rule |->
       [surfaced |-> Of(diags, m, r), severity_off |-> Of(dropped["severity_off"], m, r),
        ignore_rule |-> Of(dropped["ignore_rule"], m, r), inline |-> Of(dropped["inline"], m, r)]]]
  /\ UNCHANGED <<input, file, severity, diags, dropped, eligible>>

MarkScoreEligibility ==
  /\ At("score", "done")
  /\ eligible' = {i \in diags : finding[i].confidence = "high" /\ finding[i].category # "other"}
  /\ UNCHANGED <<input, file, severity, diags, dropped, stats>>

Next ==
  \/ Normalize \/ Deduplicate \/ ApplySeverity \/ ApplyIgnore \/ ApplyInline \/ ApplyGates
  \/ BuildStats \/ MarkScoreEligibility

Spec == Init /\ [][Next]_vars
-----------------------------------------------------------------------------
(* rule_noise *)

\* One rule's counts over all modules (f is one of the four counts).
Total(r, f) ==
  LET count[set \in SUBSET Module] ==
        IF set = {} THEN 0
        ELSE LET m == CHOOSE x \in set : TRUE IN stats[m][r][f] + count[set \ {m}]
  IN count[Module]

Silenced(r) == Total(r, "inline") + Total(r, "ignore_rule") + Total(r, "severity_off")

Noisy(r) ==
  LET total == Total(r, "surfaced") + Silenced(r)
  IN total >= MinSample /\ 2 * Silenced(r) >= total

\* The report advises to lower the rule's severity.
Suggested(r) == Noisy(r) /\ Total(r, "inline") > Total(r, "ignore_rule") + Total(r, "severity_off")
-----------------------------------------------------------------------------
(* What the stages compute, said of the list that came in *)

Different   == Best(Position)
SwitchedOn  == {i \in Different : ~SwitchedOff(i)}
NotIgnored  == {i \in SwitchedOn : ~IgnoredRule(i) /\ ~OutOfScope(i)}
Visible     == {i \in NotIgnored : ~Suppressed(i)}
OffCount    == {i \in Different : SwitchedOff(i) /\ ~OutOfScope(i)}
IgnoreCount == {i \in SwitchedOn : IgnoredRule(i) /\ ~OutOfScope(i)}
InlineCount == {i \in NotIgnored : Suppressed(i)}
Lists(off, ignored, inline) ==
  /\ dropped["severity_off"] = off
  /\ dropped["ignore_rule"]  = ignored
  /\ dropped["inline"]       = inline

\* After each stage the list and the channels hold exactly what the filters up to it leave and
\* take, each judged on the finding alone: no stage sees the effect of a later one, and the
\* gates apply to all of them (core/pipeline.py:310-347).
StagesExact ==
  /\ stage \in {"normalize", "deduplicate"} => diags = Position /\ Lists({}, {}, {})
  /\ stage = "severity" => diags = Different /\ Lists({}, {}, {})
  /\ stage = "ignore"   => diags = SwitchedOn /\ Lists(OffCount, {}, {})
  /\ stage = "inline"   => diags = NotIgnored /\ Lists(OffCount, IgnoreCount, {})
  /\ stage = "gate"     => diags = Visible /\ Lists(OffCount, IgnoreCount, InlineCount)
  /\ stage \in {"stats", "score", "done"} =>
       diags = Gate(Visible) /\ Lists(Gate(OffCount), Gate(IgnoreCount), Gate(InlineCount))
-----------------------------------------------------------------------------
(* Properties *)

\* Every variable keeps its type; the files are resolved from the second stage on.
TypeOK ==
  /\ finding \in [Position -> Diagnostics] /\ config \in Configs
  /\ comments \subseteq Comment /\ version \in [Module -> Detection]
  /\ stage \in {"normalize", "deduplicate", "severity", "ignore", "inline", "gate", "stats", "score", "done"}
  /\ file \in [Position -> IF stage = "normalize" THEN {None} ELSE File]
  /\ severity \in [Position -> Severity]
  /\ diags \subseteq Position /\ dropped \in [Channel -> SUBSET Position] /\ eligible \subseteq diags
  /\ stats \in [Module -> [Rule -> [Channel \cup {"surfaced"} -> Nat]]]

\* The findings that say the same as finding i.
Group(i) == {j \in Position : SameFinding(i, j)}

Built == stage \in {"score", "done"}

\* The counts of a module and rule add up to the number of different findings a scan makes of
\* them within its scope: none is lost between the stages, none is counted in two places
\* (core/pipeline.py:303-306). And a rule the user has disabled through the config gets no
\* advice from them: the user decided (core/suppression_stats.py:79-82).
EveryFindingCounted ==
  Built => \A m \in Module, r \in Rule :
    LET counts == stats[m][r]
        made   == {i \in Position : finding[i].module = m /\ finding[i].rule = r /\ ~OutOfScope(i) /\ Runs(i)}
    IN /\ counts.surfaced + counts.severity_off + counts.ignore_rule + counts.inline
            = Cardinality({Group(i) : i \in made})
       /\ (config.overrides[r] = "off" \/ r \in config.ignore_rules => ~Suggested(r))

\* The same of the lists behind the counts: no finding is in two of them.
ChannelsDisjoint ==
  /\ \A c \in Channel : dropped[c] \cap diags = {}
  /\ \A c, d \in Channel : c # d => dropped[c] \cap dropped[d] = {}

\* The score counts a finding the user lets through exactly once, and it does as soon as one
\* rule or linter is sure of it: a duplicate that is less sure does not hide it.
ScoreCountsOnce ==
  stage = "done" =>
    /\ \A i, j \in eligible : SameFinding(i, j) => i = j
    /\ \A i \in Position :
         /\ finding[i].confidence = "high" /\ finding[i].category # "other"
         /\ ~SwitchedOff(i) /\ ~OutOfScope(i) /\ ~IgnoredRule(i) /\ ~Suppressed(i) /\ Runs(i)
         => \E j \in eligible : SameFinding(i, j)
=============================================================================
