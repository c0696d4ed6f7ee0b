------------------------------ MODULE MCCiJobs ------------------------------
(* Two or three jobs at a time over small trees of findings. *)
EXTENDS CiJobs

MCCategories == <<"Security", "Performance", "Hygiene", "Frontend">>
MCWeight     == [Security |-> 15, Performance |-> 10, Hygiene |-> 8, Frontend |-> 5]
MCScope      == {"Security", "Performance", "Hygiene"}
MCEffort     == [loop |-> 3, sql |-> 2, depends |-> 1]
MCNames      == <<"a", "b", "depends", "loop", "sql">>
MCLow        == {} \* the blend of three categories has no ties
MCSurface    == [confidence |-> "high", categories |-> {}, tiers |-> {"P0", "P1"}]

Finding(rule, category, tier, line) ==
  [rule |-> rule, module |-> "shop", path |-> <<"addons", "shop", "a">>, file |-> "a", line |-> line,
   text |-> "text", title |-> "title", category |-> category, tier |-> tier,
   confidence |-> "high", severity |-> "error", fixable |-> FALSE]

Sql     == Finding("sql", "Security", "P0", 3)
Moved   == [Sql EXCEPT !.line = 7]
Other   == [Sql EXCEPT !.title = "another title"]
Edited  == [Sql EXCEPT !.text = "another text"]
Elsewhere == [Sql EXCEPT !.module = "stock", !.path = <<"addons", "stock", "b">>, !.file = "b"]
Unsure  == [Sql EXCEPT !.confidence = "medium", !.line = 5, !.text = "third text"]
Slow    == [Finding("loop", "Performance", "P2", 4) EXCEPT !.severity = "warning", !.text = "slow text"]

Job == [kind |-> "scan", at |-> <<"ci1">>, sub |-> FALSE, branch |-> "main", partial |-> FALSE,
        tree |-> {}, base |-> {}, modules |-> {"shop", "stock"}, write |-> FALSE, baseline |-> FALSE,
        history |-> FALSE, html |-> FALSE, comment |-> FALSE, delta |-> FALSE,
        failOn |-> "none", minScore |-> 0, maxDrop |-> 0,
        report |-> [stamp |-> 0, branch |-> "main", schema |-> 0, project |-> -1, modules |-> <<>>]]

Scenario(options, file, from, said, k) ==
  [jobs |-> options, kills |-> k, baseline |-> file, origin |-> from, comments |-> said]
Alone(o) == Scenario(<<o>>, NoFile, Nobody, <<>>, 0)

\* The floats of findings of 20.0 and of 3.2 points: how many of each are added up, then taken off.
MCAbove(from, gone) ==
  LET of(set, tier) == Cardinality({f \in set : f.tier = tier})
  IN <<of(from, "P0"), of(from, "P2"), of(gone, "P0"), of(gone, "P2")>>
       \in {<<2, 3, 2, 3>>, <<2, 4, 2, 4>>, <<2, 5, 0, 0>>, <<2, 5, 1, 0>>, <<2, 5, 2, 0>>, <<2, 5, 2, 5>>}

\* Fix orders: every set of up to six findings of three categories, two in scope, and piles in a
\* category that weighs 0.8.
Kinds == {<<"sql", "Security", "P0">>, <<"sql", "Security", "P1">>, <<"loop", "Performance", "P0">>,
          <<"loop", "Performance", "P2">>, <<"depends", "Frontend", "P1">>}
Piled == {[Finding(k[1], k[2], k[3], line) EXCEPT !.fixable = (line = 9)] : k \in Kinds, line \in {2, 9}}
Heap  == {Finding("depends", "Hygiene", "P0", line) : line \in 1..2}
         \cup {Finding("depends", "Hygiene", "P2", line) : line \in 3..7}
RankingPlans == {Alone([Job EXCEPT !.tree = tree \cup {Unsure}, !.minScore = 500, !.modules = {"shop"}]) :
                   tree \in UNION {kSubset(n, Piled) : n \in 0..6} \cup SUBSET Heap}

\* Baselines: written by one job while another reads it, or left by an older version.
Trees == {{Sql}, {Moved, Other}, {Moved, Slow}, {Edited}, {Elsewhere, Slow}, {Sql, Elsewhere}}
Writer(tree, at) == [Job EXCEPT !.write = TRUE, !.tree = tree, !.at = at]
Reader(tree, sub, failOn) ==
  [Job EXCEPT !.baseline = TRUE, !.tree = tree, !.sub = sub, !.failOn = failOn, !.minScore = 990,
              !.html = sub]
BaselinePlans ==
  {Scenario(<<Writer({Sql}, <<"ci1">>), Writer({Sql, Slow}, at), Reader(tree, sub, f)>>, NoFile, Nobody, <<>>, 1) :
     at \in {<<"ci1">>, <<"ci2">>}, tree \in Trees, sub \in BOOLEAN, f \in {"none", "warning", "error"}}
Old(v) ==
  [state |-> "whole", version |-> v, ids |-> {IF v = 1 THEN LegacyIdentity(f) ELSE FindingIdentity(f, v, <<>>) :
                                              f \in Checkout(Job, {Sql})}]
OldPlans ==
  {Scenario(<<[Reader(tree, FALSE, "error") EXCEPT !.at = at]>>, Old(v),
            [set |-> Checkout(Job, {Sql}), root |-> <<"ci1">>, version |-> v], <<>>, 0) :
     tree \in Trees, v \in {1, 2}, at \in {<<"ci1">>, <<"ci2">>}}

\* Histories: scans of two branches, an import and a show.
Keeper(tree, branch) == [Job EXCEPT !.history = TRUE, !.tree = tree, !.branch = branch]
Shower  == [Job EXCEPT !.kind = "show", !.maxDrop = 5]
Imports == {[Job EXCEPT !.kind = "import", !.report.modules = modules, !.report.schema = schema] :
              modules \in {<<>>, [m \in {"shop"} |-> 900]}, schema \in {0, 2}}
HistoryPlans ==
  {Scenario(<<Keeper({}, "main"), Keeper(t, b), Keeper({Sql}, "main"), Shower>>, NoFile, Nobody, <<>>, 1) :
     <<t, b>> \in {<<{Sql}, "main">>, <<{}, "side">>}}
  \cup {Scenario(<<Keeper({Sql}, "main"), Keeper({}, "main"), Shower>>, NoFile, Nobody, <<>>, 1)}
  \cup {Scenario(<<i, Keeper({Sql}, "main"), Shower>>, NoFile, Nobody, <<>>, 0) : i \in Imports}
  \cup {Alone([Keeper({}, "main") EXCEPT !.partial = TRUE])}

\* Comments: three jobs of a pull request, with or without a comment of an earlier one.
Person == [job |-> 0, marker |-> FALSE]
Talker == [Job EXCEPT !.comment = TRUE, !.tree = {Slow}, !.delta = FALSE]
CommentPlans ==
  {Scenario(<<[Talker EXCEPT !.delta = TRUE, !.base = {Sql}], Talker, Talker>>, NoFile, Nobody, said, 1) :
     said \in {<<Person>>, <<Person, [job |-> 9, marker |-> TRUE]>>}}

MCScenarios == RankingPlans \cup BaselinePlans \cup OldPlans \cup HistoryPlans \cup CommentPlans
=============================================================================
