------------------------------ MODULE GraphRules ------------------------------
(***************************************************************************)
(* The rules that compare an addon with the project graph, and what of it  *)
(* they may be certain of: a dependency or a Python package that the       *)
(* manifest does not declare, a reference to something of core Odoo that   *)
(* this version has no more, a model without access rights and rights on   *)
(* no model. A world is                                                    *)
(*   scanned   the addons under scan, in the order they are discovered     *)
(*   indexed   the modules of the Odoo source checkout, if there is one    *)
(*   depends, packages   what each module's manifest declares              *)
(*   classes   the model classes of each module                            *)
(*   table     the models whose owner the resolver has written out         *)
(*   refs      the modules whose ids the addon "own" refers to             *)
(*   imports   the packages it imports                                     *)
(***************************************************************************)
EXTENDS ModelGraph, Judging

CONSTANTS Worlds,   \* addons that depend on each other
          CoreRefs, \* references into core Odoo
          Sites,    \* addons with access rights
          MaxSeparators  \* candidate_model_names enumerates up to that many

ASSUME MaxSeparatorsAssumption == MaxSeparators \in Nat

AlwaysAvailable == {"base", "ir", "res"}

WorldGraph(w) ==
  BuildGraph([i \in DOMAIN w.scanned |-> [name |-> w.scanned[i], classes |-> w.classes[w.scanned[i]]]],
             [models |-> [m \in {} |-> m], complete |-> FALSE])

\* The source checkout names an owner for every model one of its classes names.
IndexOwners(w) ==
  [model \in {c.name : c \in UNION {ToSet(w.classes[m]) : m \in w.indexed}} \ {"", "?"} |->
     CHOOSE m \in w.indexed : \E c \in ToSet(w.classes[m]) : c.name = model]

\* {} when nobody knows.
OwnerModule(w, g, model) ==
  IF model \in DOMAIN g.models THEN {g.models[model].module}
  ELSE IF model \in DOMAIN IndexOwners(w) THEN {IndexOwners(w)[model]}
  ELSE IF model \in DOMAIN w.table THEN {w.table[model]}
  ELSE {}

ModuleIsKnown(w, g, module) ==
  \/ module \in AlwaysAvailable
  \/ \E model \in DOMAIN w.table : w.table[model] = module
  \/ \E model \in DOMAIN g.models : g.models[model].module = module

\* Manifests that were read: module_dependencies.
Manifests(w) == ToSet(w.scanned) \cup w.indexed

\* dependency_closure: what a manifest that was read depends on, and so on.
DependencyClosure(w, module) ==
  LET next == [m \in DOMAIN w.depends |-> IF m \in Manifests(w) \ AlwaysAvailable THEN w.depends[m] ELSE {}]
      closure == Reached(next, w.depends[module])
  IN [modules |-> closure, complete |-> closure \subseteq Manifests(w) \cup AlwaysAvailable]

\* A bug to rule out: what no manifest says is taken to be absent.
Certain(closure) == "high"

Confidence(closure) == IF closure.complete THEN "high" ELSE "medium"

CheckMissingDependency(w, module) ==
  LET g        == WorldGraph(w)
      closure  == DependencyClosure(w, module)
      absent(m) == m # module /\ m \notin closure.modules \cup AlwaysAvailable
      parents  == (UNION {ToSet(c.inherit) : c \in ToSet(w.classes[module])}) \ {"?"}
      wanted   == (UNION {OwnerModule(w, g, p) : p \in parents}) \cup {m \in w.refs : ModuleIsKnown(w, g, m)}
  IN {[missing |-> m, confidence |-> Confidence(closure)] : m \in {x \in wanted : absent(x)}}

\* Packages are looked up for scanned addons only.
CheckMissingExternalDependency(w, module) ==
  LET closure  == DependencyClosure(w, module)
      declared == UNION {w.packages[m] : m \in (closure.modules \cup {module}) \cap ToSet(w.scanned)}
  IN {[missing |-> p, confidence |-> Confidence(closure)] : p \in w.imports \ (declared \cup Manifests(w))}

(***************************************************************************)
(* References into core: [module, guarded, declared, target, older], with  *)
(* what the packaged index of this version and of each older one knows of  *)
(* it: "no module", "no such thing" or "there".                            *)
(***************************************************************************)
Classify(ref) ==
  IF ref.scanned \/ ref.target = "no index" \/ "there" \notin ref.older THEN "silent"
  ELSE IF ref.target = "no module" THEN "medium"
  ELSE IF ref.target = "there" THEN "silent" ELSE "high"

CheckRemovedCore(ref) ==
  IF ref.declared \/ Classify(ref) = "silent" THEN {}
  ELSE {[missing |-> "ref", confidence |-> IF ref.guarded THEN "medium" ELSE Classify(ref)]}

(***************************************************************************)
(* ir.model.access.csv (rules/security, parsers/security_csv.py). A row    *)
(* names a model by its external id, which writes every dot as an          *)
(* underscore, so that several names may be meant. A site is               *)
(*   own, peer  the model classes of the addon and of another one          *)
(*   known      models that only the stubs or the source checkout name     *)
(*   spelt      for each model name its words, one after the other, and    *)
(*              what separates them                                        *)
(*   rows       [words, module, group, write, create, unlink]; "" is a     *)
(*              module that is not written, and a group that is not        *)
(***************************************************************************)

CandidateSeparators(n) ==
  {[i \in 1..n |-> "."]} \cup (IF n > MaxSeparators THEN {} ELSE [1..n -> {".", "_"}])

\* Whether a name is among the candidates for a row's model.
IsCandidate(s, row, name) ==
  s.spelt[name].words = row.words /\ s.spelt[name].seps \in CandidateSeparators(Len(row.words) - 1)

OwnModels(s)   == AddonModels([name |-> "own", classes |-> s.own])
Lasting(entry) == entry.defines /\ entry.base = "model"

\* The models without a row, in entries that define them.
CheckMissingAccess(s) ==
  LET models == OwnModels(s)
  IN {name \in DOMAIN models : Lasting(models[name]) /\ ~\E i \in DOMAIN s.rows : IsCandidate(s, s.rows[i], name)}

\* The rows of the addon's own models that no known model may be meant by.
CheckUnknownModel(s) ==
  LET project == <<[name |-> "own", classes |-> s.own], [name |-> "peer", classes |-> s.peer]>>
      found   == DOMAIN BuildGraph(project, [models |-> [m \in {} |-> m], complete |-> FALSE]).models \cup s.known
  IN {i \in DOMAIN s.rows : s.rows[i].module \in {"", "own"} /\ ~\E name \in found : IsCandidate(s, s.rows[i], name)}

CheckWriteWithoutGroup(s) ==
  LET models    == OwnModels(s)
      transient == {name \in DOMAIN models : models[name].base = "transient"}
      open(row) == /\ row.group = "" /\ (row.write \/ row.create \/ row.unlink)
                   /\ ~\E name \in transient : IsCandidate(s, row, name)
  IN {[row |-> i, confidence |-> IF s.rows[i].write \/ s.rows[i].unlink THEN "high" ELSE "medium"] :
        i \in {k \in DOMAIN s.rows : open(s.rows[k])}}

CheckAccess(s) == [missing |-> CheckMissingAccess(s), unknown |-> CheckUnknownModel(s), open |-> CheckWriteWithoutGroup(s)]
-----------------------------------------------------------------------------
(* What really happens when "own" is installed with what it declares. *)

Installed(w) == Reached(w.depends, {"own"})

\* The modules whose code "own" cannot do without.
Needs(w, module) ==
  w.refs \cup {m \in DOMAIN w.classes :
    \E c \in ToSet(w.classes[m]), d \in ToSet(w.classes[module]) :
      c.name \notin ToSet(c.inherit) /\ c.name \in ToSet(d.inherit)}

DependencyIsMissing(w, finding) ==
  finding.missing \in Needs(w, "own") \ Installed(w)

PackageIsUndeclared(w, finding) ==
  \A m \in Installed(w) : finding.missing \notin w.packages[m]

\* The module is loaded by this version, and without anything to catch a missing id.
LoadFails(ref) ==
  /\ ~ref.scanned /\ ~ref.declared /\ ~ref.guarded
  /\ ref.target = "no such thing" /\ "there" \in ref.older

\* Each class with a name creates the model: none repeats the name it inherits from.
NamesCreate(w) ==
  \A m \in DOMAIN w.classes : \A c \in ToSet(w.classes[m]) : c.name \notin ToSet(c.inherit)

(* An addon has an external id for every model that one of its classes creates or extends, *)
(* and the classes that create a model say whether it lasts.                               *)

ClassTarget(c)    == IF c.name # "" THEN c.name ELSE Head(c.inherit)
Touched(s)        == {ClassTarget(c) : c \in ToSet(s.own)}
Creators(s, name) == {c \in ToSet(s.own) \cup ToSet(s.peer) : c.name = name /\ name \notin ToSet(c.inherit)}

\* The models a row gives rights on.
Meant(s, row) == {name \in Touched(s) : s.spelt[name].words = row.words}

LastingModels(s) == {name \in Touched(s) : \E c \in Creators(s, name) \cap ToSet(s.own) : c.base = "model"}
Wizards(s)       == {name \in Touched(s) : \E c \in Creators(s, name) : c.base = "transient"}

\* Odoo accepts the classes, and the scan can tell their models: names are written out and not too
\* long, what is extended is known, and the classes of a model agree on what it is: only an
\* abstract class may extend a model of another kind.
SiteIsPlain(s) ==
  /\ \A c \in ToSet(s.own) \cup ToSet(s.peer) :
       /\ "?" \notin {c.name} \cup ToSet(c.inherit)
       /\ Len(s.spelt[ClassTarget(c)].seps) <= MaxSeparators
       /\ \A d \in Creators(s, ClassTarget(c)) :
            c.base = d.base \/ (c.base = "abstract" /\ d.base = "model" /\ ClassTarget(c) \in ToSet(c.inherit))
  /\ \A name \in Touched(s) : Creators(s, name) # {} \/ name \in s.known

\* A lasting model is reported exactly when no row gives a right on it; a row that is said to be of
\* no model cannot be loaded; one that is said to let everyone write is of no wizard.
AccessIsTold(s, answer) ==
  /\ answer.missing = {name \in LastingModels(s) : ~\E i \in DOMAIN s.rows : name \in Meant(s, s.rows[i])}
  /\ \A i \in answer.unknown : Meant(s, s.rows[i]) = {}
  /\ \A f \in answer.open : f.confidence = "high" => Meant(s, s.rows[f.row]) \cap Wizards(s) = {}

(***************************************************************************)
(* A world names every module, and "own" is among those that are scanned;  *)
(* a module that nobody reads has a manifest and classes too. What is      *)
(* always there depends on nothing and wants no package, and the table of  *)
(* the resolver is right about who creates a model.                        *)
(***************************************************************************)
WorldIsWhole(w) ==
  LET modules == DOMAIN w.depends
  IN /\ w.depends \in [modules -> SUBSET modules] /\ w.classes \in [modules -> Seq(ModelClass)]
     /\ w.scanned \in Seq(modules) /\ "own" \in ToSet(w.scanned) /\ w.indexed \subseteq modules
     /\ \A m \in modules \cap AlwaysAvailable : w.depends[m] = {} /\ w.packages[m] = {}
     /\ \A x \in DOMAIN w.table : w.table[x] \in modules /\ \E c \in ToSet(w.classes[w.table[x]]) : c.name = x

Spelt(s, name) ==
  /\ name \in DOMAIN s.spelt /\ s.spelt[name].words \in Seq(STRING)
  /\ s.spelt[name].seps \in [1..(Len(s.spelt[name].words) - 1) -> {".", "_"}]

\* Every class of a site names a model, or one it inherits from.
SiteIsWhole(s) ==
  /\ s.own \in Seq(ModelClass) /\ s.peer \in Seq(ModelClass)
  /\ \A c \in ToSet(s.own) \cup ToSet(s.peer) :
       /\ "" \notin ToSet(c.inherit) /\ (c.name = "" => c.inherit # <<>>)
       /\ ClassTarget(c) # "?" => Spelt(s, ClassTarget(c))

ASSUME GraphInputsAssumption ==
  /\ \A w \in Worlds : WorldIsWhole(w)
  /\ \A ref \in CoreRefs : ref.target \in {"no index", "no module", "no such thing", "there"}
  /\ \A s \in Sites : SiteIsWhole(s)

JudgeDependencies == Judge("dependencies", [modules |-> CheckMissingDependency(input, "own"),
                                            packages |-> CheckMissingExternalDependency(input, "own")])
JudgeRemovedCore == Judge("removed core", CheckRemovedCore(input))
JudgeAccess == Judge("access", CheckAccess(input))

GraphInit ==
  /\ Unjudged
  /\ \/ rule = "dependencies" /\ input \in Worlds
     \/ rule = "removed core" /\ input \in CoreRefs
     \/ rule = "access" /\ input \in Sites
GraphNext == JudgeDependencies \/ JudgeRemovedCore \/ JudgeAccess
GraphSpec == GraphInit /\ [][GraphNext]_ruleVars

High(findings) == {f \in findings : f.confidence = "high"}

\* What is said to be missing with high confidence is missing, whatever the manifests that
\* nobody has read declare; and a model without access rights is always told
\* ("only assert unknown ... provable local absence", unknown_model_in_access_csv.py:41-42).
HighIsCertain ==
  /\ Said("dependencies") /\ NamesCreate(input) =>
       \A f \in High(verdict.modules) : DependencyIsMissing(input, f)
  /\ Said("dependencies") /\ input.indexed = {} =>
       \A f \in High(verdict.packages) : PackageIsUndeclared(input, f)
  /\ Said("removed core") => (High(verdict) # {} => LoadFails(input))
  /\ Said("access") /\ SiteIsPlain(input) => AccessIsTold(input, verdict)
=============================================================================
