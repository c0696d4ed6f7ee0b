------------------------------ MODULE DataOrder ------------------------------
(***************************************************************************)
(* The manifest fixer of manifest-data-order-risk (rules/manifest/fixers.py *)
(* on top of rules/manifest/data_order_risk.py).  Odoo loads the files of   *)
(* the data list in order; a security file listed after a view that needs   *)
(* one of its groups is moved in front of that view, unless the move could  *)
(* bring it before something it mentions itself.                            *)
(***************************************************************************)
EXTENDS Naturals, Sequences, FiniteSets

CONSTANTS
  DataFile,   \* the files a data list can name
  XmlId,
  About,      \* DataFile -> what is in the file
  DataLists   \* the data lists of the manifests

Kind == {"security", "view", "other"}  \* _is_security_file, else _is_view_action_file

ASSUME DataOrderAssumption ==
  /\ About \in [DataFile -> [kind : Kind, xml : BOOLEAN, groups : SUBSET XmlId, needs : SUBSET XmlId,
                             declares : SUBSET XmlId, mentions : SUBSET XmlId]]
  /\ \A f \in DataFile : /\ About[f].groups \subseteq About[f].declares
                         /\ About[f].declares \cup About[f].needs \subseteq About[f].mentions
  /\ DataLists \subseteq Seq(DataFile)

VARIABLES
  listed,  \* history: the data list the manifest began with
  data,    \* the data list in the manifest
  neat,    \* one element per line, nothing else between them
  left     \* the findings of the scan that are still to be fixed

dataVars == <<listed, data, neat, left>>
-----------------------------------------------------------------------------
Place == 1..Len(data)

\* _read_xml: only the XML files are looked into.
Reads(i) == About[data[i]].xml

\* The groups the i-th file is the first to define.
Creates(i) == {g \in About[data[i]].groups :
                 Reads(i) /\ \A j \in Place : j < i /\ Reads(j) => g \notin About[data[j]].groups}

\* The earlier files that need one of them to load.
Loaders(i) == {j \in Place : j < i /\ Reads(j) /\ About[data[j]].needs \cap Creates(i) # {}}

Least(set) == CHOOSE i \in set : \A j \in set : i <= j

\* A high finding: a security file that follows a view file and one of its loaders.
High(i) ==
  /\ Loaders(i) # {}
  /\ About[data[i]].kind = "security"
  /\ \E j \in Place : j < i /\ About[data[j]].kind = "view"

\* Mutant: the last loader instead of the first.
LastTarget(i) == CHOOSE j \in Loaders(i) : \A k \in Loaders(i) : k <= j

Target(i) == Least(Loaders(i))

\* Mutant: only the loader itself is looked at.
ClashWithTarget(i) == Reads(Target(i)) /\ About[data[i]].mentions \cap About[data[Target(i)]].declares # {}

\* A file the move passes declares something the moved file mentions.
Clash(i) ==
  \E j \in Place : /\ Target(i) <= j /\ j < i
                   /\ Reads(j) /\ About[data[i]].mentions \cap About[data[j]].declares # {}

\* A moved file goes in front of its target, after those of the same target that came before it.
Slot(i) == IF High(i) THEN Target(i) ELSE i

Before(i, j) ==
  \/ Slot(i) < Slot(j)
  \/ Slot(i) = Slot(j) /\ High(i) /\ (High(j) => i < j)

Distinct == \A i, j \in Place : data[i] = data[j] => i = j

\* Mutant: a target may move as well.
MovesChained == Distinct /\ \A i \in Place : High(i) => ~Clash(i)

\* safe_placement, and no chained moves.
Moves == Distinct /\ \A i \in Place : High(i) => ~Clash(i) /\ ~High(Target(i))

\* The entries the rearranged list takes up: the files that stay, and those moved in front of one.
Kept == {i \in Place : High(i) => ~High(Target(i))}

\* The order it takes them in.
Sorted(order) ==
  /\ \A i \in Kept : \E k \in DOMAIN order : order[k] = i
  /\ \A k, l \in DOMAIN order : k < l => Before(order[k], order[l])

Changes == neat /\ Moves /\ \E i \in Place : High(i)

DataInit ==
  /\ listed \in DataLists /\ data = listed /\ neat \in BOOLEAN
  /\ left = Cardinality({i \in Place : High(i)})

\* fix_data_order_risk, called once for each finding; where it declines, the finding is skipped.
FixDataOrder ==
  /\ left > 0 /\ left' = left - 1
  /\ \/ Changes /\ \E order \in [1..Cardinality(Kept) -> Kept] :
                    Sorted(order) /\ data' = [k \in DOMAIN order |-> data[order[k]]]
     \/ ~Changes /\ UNCHANGED data
  /\ UNCHANGED <<listed, neat>>

DataSpec == DataInit /\ [][FixDataOrder]_dataVars
-----------------------------------------------------------------------------
(* Properties *)

Precedes(f, g, list) == \E i, j \in 1..Len(list) : i < j /\ list[i] = f /\ list[j] = g

\* A file that mentions what an earlier file declares still loads after it, whatever was moved
\* (safe_placement, data_order_risk.py:179-186).  Only XML files are looked into.
LoadOrderKept ==
  \A f, g \in DataFile :
    /\ About[f].xml /\ About[g].mentions \cap About[f].declares # {}
    /\ Precedes(f, g, listed)
    => Precedes(f, g, data)

\* The same of CSV files, which declare external ids as well: "None when a move cannot be shown
\* to keep everything that file mentions loaded before it" (data_order_risk.py:179-180).
AllLoadOrderKept ==
  \A f, g \in DataFile :
    About[g].mentions \cap About[f].declares # {} /\ Precedes(f, g, listed) => Precedes(f, g, data)

\* The list keeps its entries: nothing is dropped, nothing is listed twice that was not.
EntriesKept ==
  /\ Len(data) = Len(listed)
  /\ \A f \in DataFile : (\E i \in 1..Len(listed) : listed[i] = f) <=> \E i \in 1..Len(data) : data[i] = f

\* However the findings are fixed, the list keeps its entries, and each file loads after what it
\* mentions (fix_data_order_risk).
DataListKept == EntriesKept /\ LoadOrderKept

\* A fix of all findings leaves nothing that another fix of the file would change: what a move
\* makes a high finding of is moved by the call for the next finding.
FixAllSettles == left = 0 => ~Changes

\* Every call settles the file: "applying twice yields the same result as applying once"
\* (core/fixer.py:6-7).
FixSettles == [][data' # data => ~Changes']_dataVars
=============================================================================
