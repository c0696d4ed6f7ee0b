------------------------------ MODULE Migration ------------------------------
(***************************************************************************)
(* The migration rules whose findings are called mechanical, and their     *)
(* fixers (core/upgrade.py, rules/upgrade_safety), for one data record.    *)
(*                                                                         *)
(* A record is [model, of, type, modes, evals, fields, arch]: the model it *)
(* is of ("view", "action" and "action view" stand for those of ir); the   *)
(* model a view is for, its type, the view modes an action lists, those of *)
(* each eval and whether that is written with entities, the fields that    *)
(* are set besides, and the nodes of a view's arch.  A node                *)
(* is [tag, name, attrs, modes, ref, path, text, kids]; ref: its context   *)
(* sets tree_view_ref.  A path is a sequence of steps [tag, name].  Every  *)
(* tag ends on a line of its own, so that a line says which one is meant.  *)
(***************************************************************************)
EXTENDS Naturals, Sequences, FiniteSets, SequencesExt

Rejected      == {"string", "expand"}
ChatterFields == {"message_follower_ids", "activity_ids", "message_ids"}

\* _REMOVED_FIELDS, and those of them that are plain renames: MECHANICAL_RENAMES.
RemovedFields(model) == CASE model \in {"res.users", "view", "action"} -> {"groups_id"}
                          [] model = "res.groups" -> {"users", "category_id"}
                          [] OTHER                -> {}
NewName(model, field) == CASE field = "groups_id" -> "group_ids"
                           [] field = "users"     -> "user_ids"
                           [] OTHER               -> ""

\* The nodes below, each with its place, the tag of what it is in ("root" for the first node
\* of an arch), and whether that is in a field.
RECURSIVE Below(_, _, _, _)
Below(kids, place, parent, lines) ==
  UNION {LET kid == kids[i]
             at  == Append(place, i)
         IN {[node |-> kid, at |-> at, parent |-> parent, lines |-> lines]}
            \cup Below(kid.kids, at, IF at = <<1>> THEN "root" ELSE kid.tag, lines \/ kid.tag = "field")
         : i \in DOMAIN kids}

NodesOf(record) == Below(record.arch, <<>>, "arch", FALSE)

\* view_arches.
IsArch(record) == record.model = "view" /\ record.arch # <<>> /\ record.type # "qweb"
-----------------------------------------------------------------------------
(* The rules *)

NamesTree(path)  == \E i \in DOMAIN path : path[i].tag = "tree"
NodeHasTree(n)   == n.tag = "tree" \/ (n.tag = "xpath" /\ NamesTree(n.path)) \/ (n.tag = "field" /\ "tree" \in ToSet(n.modes)) \/ n.ref
EvalsTree(evals) == \E i \in DOMAIN evals : "tree" \in ToSet(evals[i].modes)

\* check_view_tree_removed, and _still_has_tree of its fixer.
HasTree(record) ==
  CASE record.model = "view" -> IsArch(record) /\ (record.type = "tree" \/ \E b \in NodesOf(record) : NodeHasTree(b.node))
    [] record.model = "action" -> "tree" \in ToSet(record.modes) \/ EvalsTree(record.evals)
    [] OTHER -> record.modes = <<"tree">> \/ EvalsTree(record.evals)

IsChatter(n) == n.tag = "div" /\ "oe_chatter" \in n.attrs
Chatters(record) == IF IsArch(record) THEN {b \in NodesOf(record) : IsChatter(b.node)} ELSE {}

\* A bug to rule out: the attributes of the fields inside are lost.
IsPlainByName(b) ==
  /\ b.node.attrs = {"oe_chatter"} /\ b.parent \in {"root", "xpath"} /\ ~b.node.text
  /\ \A i \in DOMAIN b.node.kids : b.node.kids[i].tag = "field" /\ b.node.kids[i].name \in ChatterFields

\* is_plain_chatter_div.
IsPlain(b) ==
  /\ b.node.attrs = {"oe_chatter"} /\ b.parent \in {"root", "xpath"} /\ ~b.node.text
  /\ \A i \in DOMAIN b.node.kids : LET kid == b.node.kids[i]
       IN kid.tag = "field" /\ kid.attrs = {} /\ kid.modes = <<>> /\ ~kid.ref /\ kid.kids = <<>> /\ kid.name \in ChatterFields

\* _search_groups.
SearchGroup(record, n) ==
  n.tag = "group" /\ (record.arch[1].tag = "search" \/ \E i \in DOMAIN n.kids : n.kids[i].tag = "filter")

HasRejected(record) == IsArch(record) /\ \E b \in NodesOf(record) : SearchGroup(record, b.node) /\ b.node.attrs \cap Rejected # {}

\* check_removed_core_field_usage: fields a record sets, and those its arch or its xpaths name.
NamedIn(path) == {path[i].name : i \in DOMAIN path}
FieldUses(record) ==
  LET Used(at, model, f) == [rule |-> "field", at |-> at, model |-> model, field |-> f, confidence |-> "high"]
      names(b) == CASE b.node.tag = "xpath"              -> NamedIn(b.node.path)
                    [] b.node.tag = "field" /\ ~b.lines -> {b.node.name}
                    [] OTHER                             -> {}
  IN {Used(<<>>, record.model, f) : f \in record.fields \cap RemovedFields(record.model)}
     \cup UNION {{Used(b.at, record.of, f) : f \in names(b) \cap RemovedFields(record.of)} :
                    b \in IF IsArch(record) THEN NodesOf(record) ELSE {}}

\* A finding about a record as a whole.
Whole(r, sure) == [rule |-> r, at |-> <<>>, model |-> "", field |-> "", confidence |-> IF sure THEN "high" ELSE "medium"]

Report(record) ==
  (IF HasTree(record) THEN {Whole("tree", TRUE)} ELSE {})
  \cup (IF Chatters(record) # {} THEN {Whole("chatter", \A b \in Chatters(record) : IsPlain(b))} ELSE {})
  \cup (IF HasRejected(record) THEN {Whole("groups", TRUE)} ELSE {})
  \cup FieldUses(record)

\* is_mechanical.
IsMechanical(f) == f.confidence = "high" /\ (f.rule = "field" => NewName(f.model, f.field) # "")
-----------------------------------------------------------------------------
(* The fixers: the record after the fix, or <<>> when one declines *)

\* A bug to rule out: only the first mode is renamed.
ListedFirst(modes) ==
  LET k == SelectInSeq(modes, LAMBDA m : m = "tree") IN IF k = 0 THEN modes ELSE [modes EXCEPT ![k] = "list"]

Listed(modes) == [i \in DOMAIN modes |-> IF modes[i] = "tree" THEN "list" ELSE modes[i]]

RECURSIVE WithLists(_)
WithLists(kids) ==
  [i \in DOMAIN kids |->
     LET kid == kids[i]
     IN [kid EXCEPT !.tag = IF @ = "tree" THEN "list" ELSE @,
                    !.path = IF kid.tag = "xpath" THEN [k \in DOMAIN @ |-> [@[k] EXCEPT !.tag = IF @ = "tree" THEN "list" ELSE @]] ELSE @,
                    !.modes = IF kid.tag = "field" THEN Listed(@) ELSE @,
                    !.ref = FALSE, !.kids = WithLists(@)]]

\* Two edits of one tag: the second undoes the first.
Collides(n) == n.ref /\ (n.tag = "tree" \/ (n.tag = "xpath" /\ NamesTree(n.path)))

\* fix_view_tree_removed: an eval with entities is not found in the text.
FixTree(record) ==
  LET new == [record EXCEPT
                !.arch  = IF record.model = "view" THEN WithLists(@) ELSE @,
                !.type  = IF record.model = "view" /\ @ = "tree" THEN "list" ELSE @,
                !.modes = IF record.model = "action" \/ @ = <<"tree">> THEN Listed(@) ELSE @,
                !.evals = [i \in DOMAIN @ |-> IF @[i].escaped THEN @[i] ELSE [@[i] EXCEPT !.modes = Listed(@)]]]
  IN IF HasTree(new) \/ \E b \in NodesOf(record) : Collides(b.node) THEN <<>> ELSE new

RECURSIVE WithChatters(_)
WithChatters(kids) ==
  [i \in DOMAIN kids |->
     IF IsChatter(kids[i]) THEN [kids[i] EXCEPT !.tag = "chatter", !.attrs = {}, !.kids = <<>>]
     ELSE [kids[i] EXCEPT !.kids = WithChatters(@)]]

\* fix_chatter_div_removed.
FixChatter(record) ==
  IF \E b \in Chatters(record) : ~IsPlain(b) THEN <<>> ELSE [record EXCEPT !.arch = WithChatters(@)]

RECURSIVE WithBareGroups(_, _)
WithBareGroups(record, kids) ==
  [i \in DOMAIN kids |-> [kids[i] EXCEPT !.attrs = IF SearchGroup(record, kids[i]) THEN @ \ Rejected ELSE @,
                                        !.kids = WithBareGroups(record, @)]]

\* fix_search_view_group_attributes.
FixGroups(record) == [record EXCEPT !.arch = WithBareGroups(record, @)]

\* The first step with the name.
Respelled(path, old, new) ==
  LET k == SelectInSeq(path, LAMBDA step : step.name = old)
  IN IF k = 0 THEN path ELSE [path EXCEPT ![k].name = new]

RECURSIVE RenamedAt(_, _, _, _)
RenamedAt(kids, at, old, new) ==
  [kids EXCEPT ![at[1]] =
     IF Len(at) > 1 THEN [@ EXCEPT !.kids = RenamedAt(@, Tail(at), old, new)]
     ELSE [@ EXCEPT !.name = IF @ = old THEN new ELSE @, !.path = Respelled(@, old, new)]]

\* fix_removed_core_field_usage.
FixField(record, f) ==
  LET new == NewName(f.model, f.field)
  IN IF f.at = <<>> THEN [record EXCEPT !.fields = (@ \ {f.field}) \cup {new}]
     ELSE [record EXCEPT !.arch = RenamedAt(@, f.at, f.field, new)]

Fix(record, f) == CASE f.rule = "tree"    -> FixTree(record)
                    [] f.rule = "chatter" -> FixChatter(record)
                    [] f.rule = "groups"  -> FixGroups(record)
                    [] OTHER              -> FixField(record, f)

\* The fixers of the findings one after the other; one that declines leaves the record as it was.
FixAll(record, findings) ==
  FoldLeft(LAMBDA r, f : LET new == Fix(r, f) IN IF new = <<>> THEN r ELSE new, record, findings)

\* What the upgrade report calls mechanical, and the record after the fixes in each order.
Migrated(record) ==
  LET mechanical == {f \in Report(record) : IsMechanical(f)}
  IN [report |-> Report(record), after |-> {FixAll(record, order) : order \in SetToSeqs(mechanical)}]
-----------------------------------------------------------------------------
(* What the fixers have to leave *)

\* Records that the fixers' text edits can handle: no eval with entities, no path that names a
\* field twice, no tag with two things to change.
PlainRecord(record) ==
  /\ \A i \in DOMAIN record.evals : ~record.evals[i].escaped
  /\ \A b \in NodesOf(record) :
       /\ ~Collides(b.node)
       /\ \A i, k \in DOMAIN b.node.path : i # k /\ b.node.path[i].name # "" => b.node.path[i].name # b.node.path[k].name

Alone(n) == [n EXCEPT !.kids = <<>>]

\* What the chatter tag brings by itself.
Brought(n) == \E f \in ChatterFields :
  n = [tag |-> "field", name |-> f, attrs |-> {}, modes |-> <<>>, ref |-> FALSE, path |-> <<>>, text |-> FALSE, kids |-> <<>>]

\* The nodes that no finding is about and <chatter/> does not bring, each with its place.
Unconcerned(record) ==
  LET inChatter(b) == \E c \in Chatters(record) : IsPrefix(c.at, b.at)
      concerned(b) == \/ NodeHasTree(b.node) \/ (b \in Chatters(record) /\ b.node.attrs = {"oe_chatter"} /\ ~b.node.text)
                      \/ inChatter(b) /\ Brought(b.node)
                      \/ SearchGroup(record, b.node) /\ b.node.attrs \cap Rejected # {}
                      \/ \E f \in FieldUses(record) : f.at = b.at
  IN {[at |-> b.at, node |-> Alone(b.node)] : b \in {x \in NodesOf(record) : ~concerned(x)}}

\* Everything about the record that has nothing to do with the findings.
Kept(record, fixed) ==
  /\ fixed.model = record.model /\ fixed.of = record.of /\ (record.type # "tree" => fixed.type = record.type)
  /\ Len(fixed.modes) = Len(record.modes) /\ \A i \in DOMAIN record.modes : record.modes[i] # "tree" => fixed.modes[i] = record.modes[i]
  /\ Unconcerned(record) \subseteq {[at |-> b.at, node |-> Alone(b.node)] : b \in NodesOf(fixed)}
=============================================================================
