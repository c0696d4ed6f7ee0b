------------------------------- MODULE Plugins -------------------------------
(***************************************************************************)
(* The rule registry and its plugins (rules/registry.py, rules/plugins.py):*)
(* what the import of third-party modules leaves in one process.           *)
(*                                                                         *)
(* A module of Python code is [uses, rules, api, raises]: the modules it   *)
(* imports first, the rules it then registers, the plugin API it declares, *)
(* and whether it fails at its end.  A rule is [name, valid]: a category,  *)
(* tier, severity or confidence that does not exist makes it invalid.      *)
(***************************************************************************)
EXTENDS Naturals, Sequences, FiniteSets, SequencesExt

RuleNames(registry) == {registry[i].name : i \in DOMAIN registry}

\* rule and RuleRegistry.register, in an interpreter [registry, modules, ok]: an invalid rule and
\* a name that is taken raise, and nothing after that runs.
Register(s, module, r) ==
  IF ~s.ok THEN s
  ELSE IF ~r.valid \/ r.name \in RuleNames(s.registry) THEN [s EXCEPT !.ok = FALSE]
  ELSE [s EXCEPT !.registry = Append(@, [name |-> r.name, by |-> module])]

Registration == [name : STRING, by : STRING \cup {"builtin"}]
Interpreter == [registry : Seq(Registration), modules : SUBSET STRING, ok : BOOLEAN]
PluginModule(names) == [uses : Seq(names), rules : Seq([name : STRING, valid : BOOLEAN]), api : STRING, raises : BOOLEAN]

\* What a module imports, in order, and the rules that it registers then.
Used(uses, s, import) ==
  LET used[k \in 0..Len(uses)] == IF k = 0 THEN s ELSE import[<<uses[k], used[k - 1]>>] IN used[Len(uses)]
Registered(rules, s, module) ==
  LET ran[k \in 0..Len(rules)] == IF k = 0 THEN s ELSE Register(ran[k - 1], module, rules[k]) IN ran[Len(rules)]

Run(code, s, module, import) ==
  LET last == Registered(code[module].rules, Used(code[module].uses, s, import), module)
      ok   == last.ok /\ ~code[module].raises
  IN [last EXCEPT !.ok = ok, !.modules = IF ok THEN @ \cup {module} ELSE @]

\* The import of a module: done once, and undone by Python when it fails. What it imported stays.
Import(code, s, module) ==
  LET import[p \in (DOMAIN code) \X Interpreter] ==
        IF ~p[2].ok \/ p[1] \in p[2].modules THEN p[2] ELSE Run(code, p[2], p[1], import)
  IN import[<<module, s>>]

\* _check_declared_version: nothing declared is let through with a warning.
VersionFits(code, module) == code[module].api \in {"none", "this"}

\* The elements of a sequence at some of its places.
Kept(q, places) ==
  LET kept[k \in 0..Len(q)] ==
        IF k = 0 THEN <<>> ELSE IF k \in places THEN Append(kept[k - 1], q[k]) ELSE kept[k - 1]
  IN kept[Len(q)]

\* Mutant: every rule that the plugin's module names is taken out.
RollbackByCode(registry, before, code, module) ==
  LET own == {code[module].rules[i].name : i \in DOMAIN code[module].rules}
  IN Kept(registry, {i \in DOMAIN registry : registry[i].name \notin own})

\* Every rule that was not there before is taken out (unregister).
Rollback(registry, before, code, module) == Kept(registry, {i \in DOMAIN registry : registry[i].name \in before})

\* One entry point of load_rule_plugins.
LoadEntry(code, s, module) ==
  LET after == Import(code, s, module)
  IN IF after.ok /\ VersionFits(code, module) THEN after
     ELSE [after EXCEPT !.ok = TRUE,
                        !.registry = Rollback(@, RuleNames(s.registry), code, module)]

\* The entry points that [plugins].allow lets through; no list lets all through.
Permitted(entries, config) == Kept(entries, {i \in DOMAIN entries : config.every \/ entries[i].name \in config.allow})
-----------------------------------------------------------------------------
(* What the documentation promises of them *)

Reaches(code, module) ==
  LET reaches[m \in DOMAIN code] == {m} \cup UNION {reaches[u] : u \in ToSet(code[m].uses)} IN reaches[module]

RulesOf(code, module) == UNION {{[name |-> r.name, by |-> m] : r \in ToSet(code[m].rules)} : m \in Reaches(code, module)}
TakenBy(code, set) == {r.name : r \in UNION {RulesOf(code, m) : m \in set}}

\* A plugin that runs to its end beside the plugins before it.
Sound(code, module, taken) ==
  /\ VersionFits(code, module)
  /\ \A m \in Reaches(code, module) :
       ~code[m].raises /\ \A r \in ToSet(code[m].rules) : r.valid /\ r.name \notin taken
  /\ \A r, q \in RulesOf(code, module) : r.name = q.name => r = q
  /\ \A m \in Reaches(code, module) : IsInjective(code[m].rules)

\* Those of the first n entry points.
SoundOnes(code, entries, n, builtin) ==
  LET good[k \in 0..Len(entries)] ==
        IF k = 0 THEN {}
        ELSE good[k - 1] \cup {m \in {entries[k].module} : Sound(code, m, builtin \cup TakenBy(code, good[k - 1] \ {m}))}
  IN good[n]

\* No code is reached from two entry points, but for a module that imports nothing and has several.
Apart(code, entries) ==
  \A i, k \in DOMAIN entries : i # k =>
    \/ entries[i].module = entries[k].module /\ code[entries[i].module].uses = <<>>
    \/ Reaches(code, entries[i].module) \cap Reaches(code, entries[k].module) = {}

\* No module imports itself, not through others either.
Layered(code) ==
  \E rank \in [DOMAIN code -> 0..Cardinality(DOMAIN code)] :
    \A m \in DOMAIN code : \A u \in ToSet(code[m].uses) : rank[u] < rank[m]
=============================================================================
