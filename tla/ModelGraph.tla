------------------------------ MODULE ModelGraph ------------------------------
(***************************************************************************)
(* The project graph: the classes of the scanned addons become one entry   *)
(* per model. A class is as it is written:                                 *)
(*   [name, inherit, delegates, members, base]                             *)
(* "" is a name that is not written, "?" one that is not a literal; base   *)
(* is "model", "transient" or "abstract";                                  *)
(* members["field"] and members["method"] are what the class declares. A   *)
(* class lists a parent once; of the parents of an entry, the order does   *)
(* not matter.                                                             *)
(* An addon is [name, classes]; a project is a sequence of addons, in the  *)
(* order they are discovered.                                              *)
(***************************************************************************)
EXTENDS Naturals, SequencesExt

Kinds == {"field", "method"}

ModelClass ==
  [name : STRING, inherit : Seq(STRING), delegates : SUBSET STRING,
   members : [Kinds -> SUBSET STRING], base : {"model", "transient", "abstract"}]

ExtractModel(class, addon) ==
  LET name == IF class.name = "?" THEN "" ELSE class.name
  IN [name |-> name, inherit |-> ToSet(class.inherit) \ {"?"}, inherits |-> class.delegates \ {"?"},
      unresolved |-> "?" \in ToSet(class.inherit) \cup class.delegates,
      members |-> class.members, base |-> class.base, module |-> addon,
      defines |-> name # "" /\ name \notin ToSet(class.inherit)]

\* The model a class is of: the one it names, or the first that it inherits from.
ModelKey(class) ==
  LET places == {i \in DOMAIN class.inherit : class.inherit[i] # "?"}
  IN IF class.name \notin {"", "?"} THEN class.name
     ELSE IF places = {} THEN "" ELSE class.inherit[Min(places)]

(***************************************************************************)
(* The declarations of one model, each at its place, become one entry; it  *)
(* is that of the first that defines the model, if one does.               *)
(***************************************************************************)

Leading(declared) ==
  LET definers == {i \in DOMAIN declared : declared[i].defines}
  IN declared[Min(IF definers # {} THEN definers ELSE DOMAIN declared)]

\* _add_model within an addon, _merge_declarations between addons.
MergeDeclarations(declared) ==
  [Leading(declared) EXCEPT
     !.inherit = UNION {declared[i].inherit : i \in DOMAIN declared},
     !.inherits = UNION {declared[i].inherits : i \in DOMAIN declared},
     !.unresolved = \E i \in DOMAIN declared : declared[i].unresolved,
     !.members = [kind \in Kinds |-> UNION {declared[i].members[kind] : i \in DOMAIN declared}],
     !.defines = \E i \in DOMAIN declared : declared[i].defines]

Declared(addon, key) ==
  [i \in {k \in DOMAIN addon.classes : ModelKey(addon.classes[k]) = key} |-> ExtractModel(addon.classes[i], addon.name)]

\* Classes of one model in one addon are one entry: _add_model over the classes.
AddonModels(addon) ==
  [key \in {ModelKey(addon.classes[i]) : i \in DOMAIN addon.classes} \ {""} |->
     MergeDeclarations(Declared(addon, key))]

\* The entries of a model in all addons: those that name it, or those that only extend it.
Entries(parsed, key, named) ==
  [i \in {k \in DOMAIN parsed : key \in DOMAIN parsed[k] /\ (parsed[k][key].name # "") = named} |-> parsed[i][key]]

\* The parents that extensions add to those of a model.
AddedParents(base, extensions) == (UNION {extensions[i].inherit : i \in DOMAIN extensions}) \ {base.name}

\* A bug to rule out: the parents that are written out are added, and nothing remembers that
\* others are not.
WrittenParents(base, extensions) == [base EXCEPT !.inherit = @ \cup AddedParents(base, extensions)]

WithExtensionParents(base, extensions) ==
  [base EXCEPT !.inherit = @ \cup AddedParents(base, extensions),
               !.inherits = @ \cup UNION {extensions[i].inherits : i \in DOMAIN extensions},
               !.unresolved = @ \/ \E i \in DOMAIN extensions : extensions[i].unresolved]

Classes(project) == UNION {ToSet(project[i].classes) : i \in DOMAIN project}

\* What the resolver is built from. The stubs are [models, complete]: the members of some
\* core models, and whether that is all of them.
BuildGraph(project, stubs) ==
  LET parsed == [i \in DOMAIN project |-> AddonModels(project[i])]
      keys   == UNION {DOMAIN parsed[i] : i \in DOMAIN parsed}
      named  == {k \in keys : DOMAIN Entries(parsed, k, TRUE) # {}}
      Extended(key, kind) == LET only == Entries(parsed, key, FALSE) IN UNION {only[i].members[kind] : i \in DOMAIN only}
      nameless == {c \in Classes(project) : ModelKey(c) = ""}
  IN [models |-> [k \in named |-> WithExtensionParents(MergeDeclarations(Entries(parsed, k, TRUE)),
                                                       Entries(parsed, k, FALSE))],
      extended |-> [k \in keys |-> [kind \in Kinds |-> Extended(k, kind)]],
      unattributed |-> UNION {c.members["field"] \cup c.members["method"] : c \in nameless},
      stubs |-> stubs]
-----------------------------------------------------------------------------
\* What is reached from some nodes, each of which leads on to next[node].
Reached(next, from) ==
  {m \in DOMAIN next : \A s \in SUBSET DOMAIN next :
     from \subseteq s /\ (\A n \in s : next[n] \subseteq s) => m \in s}
=============================================================================
