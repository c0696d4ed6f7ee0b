---------------------------- MODULE MCScanReuse ----------------------------
(* Addon a with a Python file, and an addon b that depends on it and has   *)
(* only a manifest.                                                        *)
EXTENDS ScanReuse, TLC

CONSTANTS a, b, ma, xa, mb, c1, c2, c3

TwoAddonOf == ma :> a @@ xa :> a @@ mb :> b
TwoClosure == a :> {a} @@ b :> {a, b}

\* c1 and c2 have the same size.
Sizes == [c \in Content |-> IF c = c3 THEN 2 ELSE 1]

OneAddon == [overlap |-> FALSE, coarse |-> {}, restorable |-> {}, fleeting |-> {},
             files |-> {ma, xa}, texts |-> {c1, c2}, ticks |-> 2, envs |-> 0]

\* Files are written between any two reads of a scan; the manifest may disappear.
Overlapping == [OneAddon EXCEPT !.overlap = TRUE, !.fleeting = {ma}]

\* Between scans, a coarse clock and a tool that sets times back.
Between == [OneAddon EXCEPT !.coarse = {xa}, !.restorable = {xa}, !.fleeting = {ma, xa}]

\* An addon appears, vanishes or is configured away under the one that depends on it.
TwoAddons == [OneAddon EXCEPT !.fleeting = File, !.files = File, !.texts = {c1}, !.ticks = 1, !.envs = 1]

AllSettings   == {Overlapping, Between, TwoAddons}
PlainSettings == {[OneAddon EXCEPT !.ticks = 1]}
=============================================================================
