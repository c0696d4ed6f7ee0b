-------------------------------- MODULE Views --------------------------------
(***************************************************************************)
(* view-field-not-in-model and button-method-not-found: a field or button  *)
(* of a view is looked up on the view's model, so those that belong to the *)
(* lines of an x2many field have to be told apart (parse_views in          *)
(* parsers/xml_records.py, rules/xml).                                     *)
(*                                                                         *)
(* A node is [tag, name, path, position, kids]; an xpath is a sequence of  *)
(* steps [tag, name, deep]: whether it follows a double slash.             *)
(***************************************************************************)
EXTENDS Naturals, Sequences, FiniteSets

SubviewTags == {"list", "tree", "form", "kanban", "graph", "pivot", "calendar", "gantt", "map", "activity",
                "cohort", "search"}

\* Mutant: a view tag anywhere in the path is an inline subview.
EntersAnyView(path) ==
  \E i \in DOMAIN path : (path[i].tag = "field" /\ i < Len(path)) \/ path[i].tag \in SubviewTags

\* _xpath_enters_subview: through a field, or through a view that is not the root.
EntersSubview(path) ==
  \E i \in DOMAIN path : \/ path[i].tag = "field" /\ i < Len(path)
                         \/ path[i].tag \in SubviewTags /\ i > 1

\* _targeted_field: the field a path ends on, "" if it ends elsewhere.
TargetedField(path) == LET last == path[Len(path)] IN IF last.tag = "field" THEN last.name ELSE ""

\* The fields and buttons below a node that are taken to be of the view's model, each with the
\* field its xpath targets (_extract_arch_refs).
RECURSIVE Walk(_, _, _)
Walk(kids, inside, anchor) ==
  UNION {LET kid == kids[i]
             own == {r \in {[kind |-> kid.tag, name |-> kid.name, anchor |-> anchor]} :
                       kid.tag \in {"field", "button"} /\ ~inside /\ kid.position = ""}
         IN CASE kid.tag = "xpath"               -> Walk(kid.kids, inside \/ EntersSubview(kid.path), TargetedField(kid.path))
              [] kid.tag \in {"groupby", "field"} -> own \cup Walk(kid.kids, TRUE, anchor)
              [] OTHER                            -> own \cup Walk(kid.kids, inside, anchor)
         : i \in DOMAIN kids}

\* _note_anchor: seen with two anchors, a name has none.
Anchor(refs, r) == IF \E s \in refs : s.kind = r.kind /\ s.name = r.name /\ s.anchor # r.anchor THEN "" ELSE r.anchor

ResolveOn(view, kind, name) ==
  IF name \in view.has[kind] THEN "found" ELSE IF view.complete THEN "not found" ELSE "unknown"

SitsInSubview(view, anchor) == anchor # "" /\ ResolveOn(view, "field", anchor) # "found"

\* What a rule reports: the names of its kind that the model does not have.
Reported(view, kind) ==
  LET refs == {r \in Walk(view.arch, FALSE, "") : r.kind = kind}
  IN {<<kind, r.name>> : r \in {s \in refs : /\ ~SitsInSubview(view, Anchor(refs, s))
                                             /\ ResolveOn(view, kind, s.name) = "not found"}}

CheckViewFields(view)  == Reported(view, "field")
CheckViewButtons(view) == Reported(view, "button")
CheckView(view)        == CheckViewFields(view) \cup CheckViewButtons(view)
-----------------------------------------------------------------------------
(* How Odoo puts the view together *)

\* The ways from the root of an arch down to its nodes, in document order.
RECURSIVE Ways(_, _)
Ways(kids, above) ==
  IF kids = <<>> THEN <<>>
  ELSE LET here == Append(above, [tag |-> kids[1].tag, name |-> kids[1].name])
       IN <<here>> \o Ways(kids[1].kids, here) \o Ways(Tail(kids), above)

Meets(node, step) == node.tag = step.tag /\ step.name \in {"", node.name}

RECURSIVE Leads(_, _)
Leads(path, way) ==
  IF path = <<>> THEN way = <<>>
  ELSE \E i \in DOMAIN way : /\ i = 1 \/ path[1].deep
                             /\ Meets(way[i], path[1])
                             /\ Leads(Tail(path), SubSeq(way, i + 1, Len(way)))

Targets(view, x) == LET ways == Ways(view.parent, <<>>)
                        hits == {i \in DOMAIN ways : Leads(x.path, ways[i])}
                    IN {ways[i] : i \in {k \in hits : \A l \in hits : k <= l}}

OfLines(way) == \E i \in DOMAIN way : way[i].tag \in {"field", "groupby"}

\* What is put beside a node is where the node is.
Lands(view, x) == \E way \in Targets(view, x) :
                    ~OfLines(IF x.position = "inside" THEN way ELSE SubSeq(way, 1, Len(way) - 1))

\* The fields and buttons below a node that are on no x2many's lines.
RECURSIVE Upper(_)
Upper(kids) ==
  UNION {LET kid == kids[i]
         IN {r \in {<<kid.tag, kid.name>>} : kid.tag \in {"field", "button"}}
            \cup (IF kid.tag \in {"field", "groupby"} THEN {} ELSE Upper(kid.kids))
         : i \in DOMAIN kids}

\* Those of the view's own model in the view as a user sees it, but for what comes with a field
\* that locates its place: the rules leave that out.
OwnRefs(view) ==
  UNION {LET x == view.arch[i]
         IN IF x.position # "" /\ x.tag # "xpath" THEN {}
            ELSE IF x.tag # "xpath" THEN Upper(<<x>>) ELSE IF Lands(view, x) THEN Upper(x.kids) ELSE {}
         : i \in DOMAIN view.arch}

\* The path has one meaning: it is written out from the root, or it is the name of a field that
\* the view's model and the lines do not share. Nothing is put right into a field, and no name
\* comes at two places.
Straightforward(view, x) ==
  /\ Targets(view, x) # {}
  /\ TargetedField(x.path) # "" => x.position # "inside"
  /\ \/ \A i \in DOMAIN x.path : ~x.path[i].deep
     \/ /\ Len(x.path) = 1 /\ TargetedField(x.path) # ""
        /\ \A way \in Targets(view, x) : (TargetedField(x.path) \in view.has.field) <=> ~OfLines(SubSeq(way, 1, Len(way) - 1))

PlainView(view) ==
  /\ \A i \in DOMAIN view.arch : view.arch[i].tag = "xpath" => Straightforward(view, view.arch[i])
  /\ LET refs == Walk(view.arch, FALSE, "") IN \A r, s \in refs : r.kind = s.kind /\ r.name = s.name => r = s
=============================================================================
