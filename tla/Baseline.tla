------------------------------- MODULE Baseline -------------------------------
(***************************************************************************)
(* Baseline files (core/baseline.py): the identities of the findings that  *)
(* a team has accepted.  A finding's path is a sequence of names from the  *)
(* checkout down; its text is the line it is on, without the spaces.       *)
(***************************************************************************)
EXTENDS Naturals, Sequences

\* os.path.relpath of a file below the scan root.
RelPath(path, root) == SubSeq(path, Len(root) + 1, Len(path))

\* _identity; the hash is the key itself.  The first two formats have the whole path, and the
\* oldest has no title.
Identity(f, path, title) == <<f.rule, f.module, path, f.text, title>>

\* Mutant: version 3 keeps the whole path.
FindingIdentityWhole(f, version, root) == Identity(f, f.path, f.title)

FindingIdentity(f, version, root) ==
  Identity(f, IF version = 3 THEN RelPath(f.path, root) ELSE f.path, f.title)

LegacyIdentity(f) == Identity(f, f.path, "")

\* A file is missing, cut off in the middle, or whole.
NoFile  == [state |-> "none", version |-> 3, ids |-> {}]
CutFile == [NoFile EXCEPT !.state = "cut"]

Written(set, root) == [state |-> "whole", version |-> 3, ids |-> {FindingIdentity(f, 3, root) : f \in set}]

\* load_baseline: what cannot be read accepts nothing.
LoadBaseline(file) ==
  IF file.state = "whole" /\ file.version \in 1..3 THEN file ELSE [NoFile EXCEPT !.version = 2]

FilterAgainstBaseline(set, loaded, root) ==
  {f \in set : /\ FindingIdentity(f, loaded.version, root) \notin loaded.ids
               /\ ~(loaded.version = 1 /\ LegacyIdentity(f) \in loaded.ids)}
=============================================================================
