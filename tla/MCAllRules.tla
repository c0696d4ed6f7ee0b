------------------------------ MODULE MCAllRules ------------------------------
(* Every rule on its inputs, or the rules of a process and their configuration: a server with two
   folders, one configured above the other; three plugins, or three edits. *)
EXTENDS MCRules, RuleSet

MCBuiltin == <<"taint", "loop">>

Code(uses, rules, api, raises) == [uses |-> uses, rules |-> rules, api |-> api, raises |-> raises]
Good(name)  == [name |-> name, valid |-> TRUE]
RuleLists == {<<Good("r1")>>, <<Good("r1"), Good("r2")>>, <<Good("r2"), Good("taint")>>,
          <<Good("r3"), [name |-> "r4", valid |-> FALSE]>>}

\* Two plugins that may fail in every way, and a third that imports code of its own, or the first.
Codes == {[A |-> Code(<<>>, a, api, FALSE), B |-> Code(<<>>, b, "none", raises),
           C |-> Code(uses, <<Good("r5")>>, "this", FALSE), helper |-> Code(<<>>, <<Good("r6")>>, "none", FALSE)] :
            a \in RuleLists, b \in RuleLists, api \in {"none", "this", "other"}, raises \in BOOLEAN,
            uses \in {<<>>, <<"helper">>, <<"A">>}}
Entry(name, module) == [name |-> name, module |-> module]
Orders3 == {<<Entry("a", "A"), Entry("b", "B"), Entry("c", "C")>>,
            <<Entry("c", "C"), Entry("b", "B"), Entry("a", "A"), Entry("again", "A")>>}

Whole(pieces) == [pieces |-> pieces, ended |-> TRUE]
Enabled == <<Section("plugins"), Key("enabled", {"true"})>>
Allowing == Append(Enabled, Key("allow", {"b", "c"}))
PluginSetups ==
  {[code |-> code, entries |-> entries, kills |-> 0, edits |-> <<>>,
    above |-> [one |-> <<"f">>, two |-> <<"f", "g">>],
    toml |-> [f |-> Whole(first), g |-> Whole(second)]] :
     code \in Codes, entries \in Orders3, <<first, second>> \in {<<Enabled, Allowing>>, <<<<>>, Allowing>>}}

\* TomlTexts of a configuration, and edits of it.
Ignore == Section("ignore")
Naming == <<Section("naming"), RuleList({"loop", "other"}), Key("style", {"x"})>>
TomlTexts == {Empty, Whole(<<Ignore>>), Whole(Naming), Whole(<<Ignore>> \o Naming),
          Whole(<<Ignore, RuleList({"loop"}), Key("files", {"x"})>> \o Naming),
          Whole(Naming \o <<Ignore, Key("files", {"x"}), RuleList({})>>),
          [Whole(Naming) EXCEPT !.ended = FALSE],
          [Whole(Append(Naming, Ignore)) EXCEPT !.ended = FALSE],
          Whole(<<Ignore, [RuleList({"loop"}) EXCEPT !.muted = {"taint"}]>>)}
Edit(by, file, name, ignored) == [by |-> by, file |-> file, rule |-> name, ignored |-> ignored]
EditPlans == {<<Edit("server", "g", "taint", TRUE), Edit("command", "g", x, TRUE), Edit("command", f, y, FALSE)>> :
            x \in {"loop", "r1"}, f \in {"f", "g"}, y \in {"loop", "taint"}}
NoCode == [A |-> Code(<<>>, <<>>, "none", FALSE)]
EditSetups ==
  {[code |-> NoCode, entries |-> <<>>, kills |-> 1, edits |-> e, above |-> [two |-> <<"f", "g">>],
    toml |-> [f |-> outer, g |-> text]] :
     e \in EditPlans, text \in TomlTexts, outer \in {Empty, Whole(<<Ignore, RuleList({"other"})>>)}}

MCSetups == PluginSetups \cup EditSetups
-----------------------------------------------------------------------------

RulesIdle == rule = "none" /\ input = <<>> /\ judged = FALSE /\ verdict = {}

MCInit == \/ RulesInit /\ SetIdle
          \/ RulesIdle /\ SetInit
MCNext == \/ RulesNext /\ UNCHANGED setVars
          \/ rule = "none" /\ SetNext /\ UNCHANGED ruleVars
MCSpec == MCInit /\ [][MCNext]_<<ruleVars, setVars>>
=============================================================================
