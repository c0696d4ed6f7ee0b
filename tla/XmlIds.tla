------------------------------- MODULE XmlIds -------------------------------
(***************************************************************************)
(* duplicate-xml-id (rules/xml/duplicate_xml_id.py): Odoo loads a second   *)
(* declaration of an external id as an update of the same record.          *)
(***************************************************************************)
EXTENDS Naturals, Sequences, Judging

CONSTANT IdFiles   \* the declarations of one external id, in the order the scan meets them

\* A declaration: its tag, the model and fields of a record, the attributes of a menu or a
\* template, whether its container numbers the records, and the value it writes.
Declaration == [tag : STRING, model : STRING, fields : SUBSET STRING, sequenced : BOOLEAN,
                nested : BOOLEAN, inside : BOOLEAN, value : Nat]
ASSUME IdFilesAssumption == IdFiles \subseteq Seq(Declaration)

\* _written_fields:
WrittenFields(d) ==
  CASE d.tag = "record"   -> d.fields \cup (IF d.sequenced THEN {"sequence"} ELSE {})
    [] d.tag = "menuitem" -> {"parent_id", "active", "name"} \cup (d.fields \cap {"sequence", "action", "groups"})
                             \cup (IF d.nested THEN {} ELSE d.fields \cap {"web_icon"})
    [] d.tag = "template" -> {"name", "key", "type", "arch"}
                             \cup (d.fields \cap {"track", "priority", "website_id", "inherit_id", "active", "customize_show", "mode", "groups"})
    [] OTHER              -> {}

ModelOf(d) == CASE d.tag = "menuitem" -> "ir.ui.menu" [] d.tag = "template" -> "ir.ui.view" [] OTHER -> d.model

Known(d) == d.tag \in {"record", "menuitem", "template"} /\ ModelOf(d) # ""

\* Themes load their templates and views under another model first.
Unthemed(model) == IF model = "theme.ir.ui.view" THEN "ir.ui.view" ELSE model

\* _defines_xml_id: markup inside a record and a deletion declare nothing.
Declares(d) == d.tag # "delete" /\ ~d.inside

Declaring(list) == {k \in DOMAIN list : Declares(list[k])}
Earliest(list) == CHOOSE k \in Declaring(list) : \A j \in Declaring(list) : k <= j

\* Mutant: a later declaration is compared with the first one only.
WrittenByFirst(list, k) == WrittenFields(list[Earliest(list)])

WrittenBefore(list, k) == UNION {WrittenFields(list[i]) : i \in {j \in Declaring(list) : j < k}}

\* _classify: "" when the declaration at k only patches the record of the first.
SaidOfLater(list, k) ==
  LET first == list[Earliest(list)] IN
  CASE ~Known(first) \/ ~Known(list[k])                        -> "high"
    [] Unthemed(ModelOf(first)) # Unthemed(ModelOf(list[k]))   -> "high"
    [] WrittenFields(list[k]) \cap WrittenBefore(list, k) # {} -> "medium"
    [] OTHER                                                   -> ""

\* The declarations after the first that the rule reports, with their confidence.
CheckDuplicateXmlId(list) ==
  LET later == {k \in Declaring(list) : k # Earliest(list)}
  IN {f \in {[at |-> k, confidence |-> SaidOfLater(list, k)] : k \in later} : f.confidence # ""}

JudgeIds == Judge("ids", CheckDuplicateXmlId(input))

IdsSpec == Unjudged /\ rule = "ids" /\ input \in IdFiles /\ [][JudgeIds]_ruleVars
-----------------------------------------------------------------------------
(* How Odoo loads them: the first declaration creates the record; one of another model is
   refused, the others write their fields. *)

Unmade == [refused |-> FALSE, model |-> "", value |-> [f \in {} |-> 0]]

Load(r, d) ==
  LET model == Unthemed(ModelOf(d))
      value == [f \in DOMAIN r.value \cup WrittenFields(d) |-> IF f \in WrittenFields(d) THEN d.value ELSE r.value[f]]
  IN IF r.refused \/ r.model \notin {"", model} THEN [r EXCEPT !.refused = TRUE]
     ELSE [refused |-> FALSE, model |-> model, value |-> value]

Loaded(list) ==
  LET loaded[k \in 0..Len(list)] ==
        IF k = 0 THEN Unmade
        ELSE IF Declares(list[k]) THEN Load(loaded[k - 1], list[k]) ELSE loaded[k - 1]
  IN loaded[Len(list)]

\* The same declarations in any order of their files.
InAnyOrder(list) ==
  LET places == DOMAIN list
      moves  == {p \in [places -> places] : /\ \A i, j \in places : p[i] = p[j] => i = j
                                            /\ \A i \in places : \E j \in places : p[j] = i}
  IN {[i \in places |-> list[p[i]]] : p \in moves}

\* The declarations of an id that are passed in silence make the same record in whatever order
\* their files are loaded, and one of another model is never passed ("only patches the record",
\* rules/xml/duplicate_xml_id.py:25-31).
PatchesCommute ==
  Said("ids") /\ verdict = {} =>
    \A other \in InAnyOrder(input) : ~Loaded(other).refused /\ Loaded(other) = Loaded(input)
=============================================================================
