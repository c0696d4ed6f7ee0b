------------------------------- MODULE Resolver -------------------------------
(***************************************************************************)
(* What the rules ask of the project graph (graph/resolver.py): a field or *)
(* a method of a model is found, provably absent, or unknown.              *)
(***************************************************************************)
EXTENDS ModelGraph, Judging

CONSTANT Projects \* addons with model classes, and stubs beside them

\* What the ORM gives to every model.
Builtin == [field |-> {"id"}, method |-> {"unlink"}]

\* The parents of a model in the order they are looked at, without the model itself.
Parents(g, model) ==
  IF model \notin DOMAIN g.models THEN <<>>
  ELSE SetToSeq(g.models[model].inherit \ {model}) \o SetToSeq(g.models[model].inherits \ {model})

\* Every name the graph knows.
Names(g) ==
  DOMAIN g.models \cup DOMAIN g.extended \cup DOMAIN g.stubs.models
    \cup UNION {g.models[m].inherit \cup g.models[m].inherits : m \in DOMAIN g.models}

SaysItAll(g, model) ==
  IF model \in DOMAIN g.models THEN ~g.models[model].unresolved
  ELSE model \in DOMAIN g.stubs.models /\ g.stubs.complete

\* _model_is_complete: todo are the models still to be looked at, depth first; one that is met
\* twice counts as a cycle.
ModelIsComplete(g, model) ==
  LET complete[q \in Seq(Names(g)) \X SUBSET Names(g)] ==
        LET todo == q[1]
            seen == q[2]
        IN \/ todo = <<>>
           \/ /\ Head(todo) \notin seen /\ SaysItAll(g, Head(todo))
              /\ complete[<<Parents(g, Head(todo)) \o Tail(todo), seen \cup {Head(todo)}>>]
  IN complete[<<<<model>>, {}>>]

\* What a model has without its parents.
HasItself(g, kind, model, member) ==
  \/ model \in DOMAIN g.models /\ member \in g.models[model].members[kind]
  \/ model \in DOMAIN g.extended /\ member \in g.extended[model][kind]
  \/ member \in Builtin[kind]
  \/ model \in DOMAIN g.stubs.models /\ member \in g.stubs.models[model][kind]

\* Whether a member is found; _ancestor_has passes over the models seen before.
Found(g, kind, model, member) ==
  LET found[q \in Names(g) \X SUBSET Names(g)] ==
        LET parents    == Parents(g, q[1])
            Before(i)  == q[2] \cup {q[1]} \cup {parents[k] : k \in 1..(i - 1)}
        IN \/ HasItself(g, kind, q[1], member)
           \/ \E i \in DOMAIN parents : parents[i] \notin Before(i) /\ found[<<parents[i], Before(i) \cup {parents[i]}>>]
  IN found[<<model, {}>>]

Resolve(g, kind, model, member) ==
  IF Found(g, kind, model, member) THEN "found"
  ELSE IF member \notin g.unattributed /\ ModelIsComplete(g, model) THEN "not found"
  ELSE "unknown"

ResolveField(g, model, field)   == Resolve(g, "field", model, field)
ResolveMethod(g, model, method) == Resolve(g, "method", model, method)

\* The member every question is about.
Asked == "member"

Answers(g) ==
  LET models == DOMAIN g.models \cup DOMAIN g.extended \cup DOMAIN g.stubs.models
  IN [field  |-> [model \in models |-> ResolveField(g, model, Asked)],
      method |-> [model \in models |-> ResolveMethod(g, model, Asked)]]
-----------------------------------------------------------------------------
(***************************************************************************)
(* What Odoo makes of the same classes: all classes of a model add up, and *)
(* a model has what its parents have. What is defined outside the scan may *)
(* have anything.                                                          *)
(***************************************************************************)
ClassesOf(project, model) == {c \in Classes(project) :
  c.name = model \/ (c.name = "" /\ c.inherit # <<>> /\ Head(c.inherit) = model)}

\* A model no scanned class creates, and no stub describes in full.
Elsewhere(project, stubs, model) ==
  /\ ~\E c \in ClassesOf(project, model) : c.name = model /\ model \notin ToSet(c.inherit)
  /\ ~(stubs.complete /\ model \in DOMAIN stubs.models)

ParentsOf(c) == ToSet(c.inherit) \cup c.delegates

Mentioned(project, stubs) ==
  DOMAIN stubs.models \cup UNION {{c.name} \cup ParentsOf(c) : c \in Classes(project)}

\* A model and its ancestors.
Lineage(project, stubs, model) ==
  Reached([m \in Mentioned(project, stubs) |-> UNION {ParentsOf(c) : c \in ClassesOf(project, m)}], {model})

\* Whether the running system may have the member.
MayHave(project, stubs, kind, model, member) ==
  \/ member \in Builtin[kind]
  \/ \E m \in Lineage(project, stubs, model) :
       \/ m = "?" \/ Elsewhere(project, stubs, m)
       \/ \E c \in ClassesOf(project, m) : member \in c.members[kind]
       \/ m \in DOMAIN stubs.models /\ member \in stubs.models[m][kind]
  \/ \E c \in Classes(project) :  \* a class of some model
       c.name = "" /\ (c.inherit = <<>> \/ Head(c.inherit) = "?") /\ member \in c.members[kind]

\* Every class that names a model it also inherits from is beside one that creates it, the
\* stubs describe no model that the addons give more parents, and what extends a model that
\* is not written out spells no other name beside it.
Grounded(project, stubs) ==
  /\ \A c \in Classes(project) : c.name \in ToSet(c.inherit) =>
       \E d \in Classes(project) : d.name = c.name /\ c.name \notin ToSet(d.inherit)
  /\ \A model \in DOMAIN stubs.models : \A c \in ClassesOf(project, model) : ParentsOf(c) \subseteq {model}
  /\ \A c \in Classes(project) : c.name = "" /\ c.inherit # <<>> /\ Head(c.inherit) = "?" => Len(c.inherit) = 1

(***************************************************************************)
(* Model names are written, and stubs name real models.                    *)
(***************************************************************************)
ProjectIsWhole(project, stubs) ==
  /\ project \in Seq([name : STRING, classes : Seq(ModelClass)])
  /\ \A c \in Classes(project) : IsFiniteSet(c.delegates) /\ "" \notin ParentsOf(c)
  /\ IsFiniteSet(DOMAIN stubs.models) /\ DOMAIN stubs.models \cap {"", "?"} = {} /\ stubs.complete \in BOOLEAN

ASSUME ProjectsAssumption == \A p \in Projects : ProjectIsWhole(p[1], p[2])

JudgeResolver == Judge("resolver", Answers(BuildGraph(input[1], input[2])))
ResolverSpec  == Unjudged /\ rule = "resolver" /\ input \in Projects /\ [][JudgeResolver]_ruleVars

Absent(kind, model) == verdict[kind][model] = "not found"

\* Only what a model cannot have is called absent: the view and button rules report just
\* those. A class that names a model it inherits from is beside one that creates it.
AbsenceIsProved ==
  Said("resolver") /\ Grounded(input[1], input[2]) =>
    \A kind \in Kinds : \A model \in DOMAIN verdict[kind] :
      Absent(kind, model) => ~MayHave(input[1], input[2], kind, model, Asked)

\* The same for any project: partial stubs and unknown models are never complete.
AbsenceIsProvedAlways ==
  Said("resolver") =>
    \A kind \in Kinds : \A model \in DOMAIN verdict[kind] :
      Absent(kind, model) => ~MayHave(input[1], input[2], kind, model, Asked)
=============================================================================
