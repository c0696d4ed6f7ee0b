------------------------------- MODULE MCFixer -------------------------------
(* A view file, a manifest and a view file outside the scanned directories;  *)
(* and, separately, the data lists that four files can make.                 *)
EXTENDS Fixer, DataOrder, SequencesExt

CONSTANTS view, manifest, link

El(record, offence, tag, rest) ==
  [record |-> record, offence |-> offence, tag |-> tag, rest |-> rest, custom |-> FALSE, hard |-> FALSE]
Custom(record) == [El(record, "chatter", 1, 2) EXCEPT !.custom = TRUE]
Hard(element) == [element EXCEPT !.hard = TRUE]
Text(elements) == [elements |-> elements, whole |-> TRUE]

ViewTexts == {
  Text(<<El(1, "rename", 1, 0), El(1, "chatter", 1, 2), El(1, "tree", 2, 0), El(2, "chatter", 2, 1), El(2, "rename", 1, 0)>>),
  Text(<<El(1, "chatter", 1, 1), El(1, "rename", 2, 0), El(2, "tree", 1, 1), El(2, "tree", 1, 0)>>),
  Text(<<El(1, "rename", 1, 0), El(1, "tree", 1, 1), Hard(El(2, "rename", 1, 1)), El(2, "tree", 1, 0), Hard(El(2, "tree", 1, 0))>>),
  Text(<<El(1, "chatter", 2, 0), Custom(1), El(2, "tree", 1, 0), El(3, "rename", 1, 1)>>),
  [Text(<<El(1, "none", 1, 0), El(1, "tree", 1, 1), El(2, "rename", 1, 0)>>) EXCEPT !.whole = FALSE]}

MCTextsOf ==
  view     :> ViewTexts @@
  manifest :> {Text(<<Hard(El(1, "fields", 1, 0)), El(1, "none", 1, 1), El(1, "fields", 1, 0), El(1, "fields", 1, 0)>>),
               Text(<<Hard(El(1, "fields", 1, 0)), El(1, "none", 1, 0)>>), Text(<<El(1, "none", 1, 1)>>)} @@
  link     :> {Text(<<El(1, "tree", 1, 0)>>)}

Holds(kind, groups, needs, declares, mentions) ==
  [kind |-> kind, xml |-> TRUE, groups |-> groups, needs |-> needs,
   declares |-> declares \cup groups, mentions |-> mentions \cup groups \cup needs \cup declares]

MCAbout ==
  "menus"    :> Holds("view", {}, {"g"}, {}, {}) @@
  "reports"  :> Holds("view", {}, {"h"}, {}, {}) @@
  "category" :> Holds("other", {}, {}, {"c"}, {}) @@
  "g"        :> Holds("security", {"g"}, {}, {}, {}) @@
  "g of c"   :> Holds("security", {"g"}, {}, {}, {"c"}) @@
  "h"        :> Holds("security", {"h"}, {"g"}, {}, {}) @@
  "both"     :> Holds("security", {"g", "h"}, {}, {}, {})

\* Up to four files in any order, and short lists that name one twice.
MCLists ==
  UNION {[1..n -> DOMAIN MCAbout] : n \in 1..3}
  \cup {list \in [1..4 -> DOMAIN MCAbout] : Cardinality(Range(list)) = 4}

\* A fix run, or the data list of one manifest fixed.
Idle    == listed = <<>> /\ data = <<>> /\ neat = FALSE /\ left = 0
MCInit  ==
  /\ Init
  /\ \/ Idle
     \/ DataInit /\ upgrade = FALSE /\ disk = [f \in File |-> CHOOSE t \in TextsOf[f] : TRUE]
MCNext  == \/ listed = <<>> /\ Next /\ UNCHANGED dataVars
           \/ FixDataOrder /\ UNCHANGED vars
MCSpec  == MCInit /\ [][MCNext]_<<vars, dataVars>>
=============================================================================
