------------------------------- MODULE Judging -------------------------------
(***************************************************************************)
(* One rule judging one input: the scanner calls each rule once on what it *)
(* parsed, and keeps the answer (core/scanner.py).                         *)
(***************************************************************************)

VARIABLES rule,      \* the rule that runs
          input,     \* what it looks at
          judged,    \* whether it has answered
          verdict    \* what it says, {} before

ruleVars == <<rule, input, judged, verdict>>

Unjudged == judged = FALSE /\ verdict = {}

Judge(r, answer) ==
  /\ rule = r /\ ~judged
  /\ judged' = TRUE /\ verdict' = answer
  /\ UNCHANGED <<rule, input>>

Said(r) == rule = r /\ judged
=============================================================================
