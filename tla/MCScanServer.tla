---------------------------- MODULE MCScanServer ----------------------------
(* Instances of ScanServer: a folder in another one, and one folder opened and *)
(* closed.                                                                     *)
EXTENDS ScanServer, TLC

CONSTANTS p1, p2, p3, r1, r2, f1, f2

\* The outer directory has two names, of which p3 goes through a symlink.
TwoNames    == p1 :> r1 @@ p2 :> r2 @@ p3 :> r1

\* r2 lies in r1, and so do its files.
NestedAbove == {<<r1, r2>>}
SharedFiles == r1 :> {f2} @@ r2 :> {f2}

\* One folder, reached through a symlink: a file that findings point at, and its configuration.
OneResolve  == p1 :> r1
OneFiles    == r1 :> {f1, f2}

OnlyP1 == {<<p1>>}
\* The inner folder, or the outer one under both of its names.
InnerOrOuter == {<<p2>>, <<p3, p1>>}
=============================================================================
