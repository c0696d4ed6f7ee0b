----------------------------- MODULE MCPipeline -----------------------------
(* Small instances of Pipeline: two modules in two files, one of them under  *)
(* two spellings; two rules of the registry and one of a linter.             *)
EXTENDS Pipeline, MCEditor

MCModule == {"sale", "stock"}
MCRule == {"taint", "old-api", "ruff"}
MCRegistered == {"taint", "old-api"}
MCPath == {"a.py", "x/../a.py", "b.py"}
MCFile == {"A", "B"}
MCNorm == [p \in MCPath |-> IF p = "b.py" THEN "B" ELSE "A"]
MCVersion == {14, 17}
MCVersionCap == [v \in MCVersion |-> IF v = 14 THEN "odoo:14" ELSE "odoo:17"]
MCCapability == {"odoo:14", "odoo:17", "owl"}
MCMinVersion == [r \in MCRegistered |-> IF r = "taint" THEN 17 ELSE None]
MCRequires == [r \in MCRegistered |-> IF r = "taint" THEN {} ELSE {"owl"}]
MCExcludes == [r \in MCRegistered |-> IF r = "taint" THEN {} ELSE {"odoo:17"}]
MCDetection == {14, 17, Unknown, Malformed}

Sure == [module |-> "sale", path |-> "a.py", line |-> 2, rule |-> "taint", title |-> "t",
         category |-> "security", severity |-> "error", source |-> "native",
         confidence |-> "high", length |-> 1]

MCDiagnostics == {
  Sure,
  [Sure EXCEPT !.path = "x/../a.py", !.confidence = "low", !.length = 2],
  [Sure EXCEPT !.title = "u"],
  [Sure EXCEPT !.module = "stock", !.path = "b.py", !.rule = "old-api", !.source = "plugin"],
  [Sure EXCEPT !.rule = "ruff", !.source = "ruff", !.confidence = "medium", !.category = "other"]}

MCComment == {
  [path |-> "x/../a.py", line |-> 1, rules |-> {"taint"}, wide |-> FALSE],
  [path |-> "b.py", line |-> 1, rules |-> {"taint", "old-api"}, wide |-> TRUE]}

Plain == [overrides |-> [r \in MCRule |-> None], ignore_rules |-> {}, ignore_modules |-> {},
          ignore_files |-> {}, capabilities |-> {"owl"}]

MCConfigs ==
  {[Plain EXCEPT !.overrides["taint"] = o, !.ignore_rules = rules, !.ignore_modules = modules, !.ignore_files = files] :
     o \in {None, "off", "info"}, rules \in {{}, {"taint", "ruff"}},
     modules \in {{}, {"sale"}}, files \in {{}, {"A"}}}
  \cup {[Plain EXCEPT !.capabilities = {}]}

\* One run of the pipeline, or a file in an editor.
SomeInput == /\ finding = [i \in Position |-> Sure] /\ config = Plain /\ comments = {}
             /\ version = [m \in Module |-> 17]
Idle      == /\ SomeInput /\ stage = "none" /\ file = [i \in Position |-> None] /\ diags = {} /\ dropped = Nothing
             /\ severity = [i \in Position |-> "error"] /\ stats = NoCount /\ eligible = {}
Unopened  == page = <<>> /\ shownFrom = <<>> /\ draft = <<>> /\ changes = 0 /\ deed = NoDeed
MCInit    == (Init /\ Unopened) \/ (Idle /\ EditorInit)
MCNext    == \/ Next /\ UNCHANGED editorVars
             \/ stage = "none" /\ EditorNext /\ UNCHANGED vars
MCSpec    == MCInit /\ [][MCNext]_<<vars, editorVars>>
=============================================================================
