------------------------------- MODULE RawSql -------------------------------
(***************************************************************************)
(* raw-sql-string-interpolation: the statements of a file that execute text *)
(* built from something foreign, and how far the value of a caller travels *)
(* through its private helpers (rules/security/raw_sql_interpolation.py).  *)
(*                                                                         *)
(* A file maps each function to [entry, muted, body]: whether it can be    *)
(* called from outside (a route, a public method), whether a comment or    *)
(* its kind (an install hook that takes nothing) mutes it, and its body, a *)
(* block of Taint over one parameter x. "hand" calls another function.     *)
(***************************************************************************)
EXTENDS Taint

CONSTANT MaxHops  \* _MAX_HOPS

\* Mutant: the input travels one hop less.
PassesOneLess == MaxHops

\* The passes of the loop in check_raw_sql_interpolation.
Passes == MaxHops + 1

\* param_taint
ParamTaint(file, fn, untrusted, trust) ==
  IF ~trust \/ file[fn].entry \/ fn \in untrusted THEN Unknown ELSE Safe

\* _RawSqlVisitor.visit over the functions of the file.
Noticed(file, untrusted, trust) ==
  [fn \in DOMAIN file |->
     Analysed(file[fn].body, [x \in {"x"} |-> ParamTaint(file, fn, untrusted, trust)], trust)]

\* check_call: the functions with a call that executes unsafe text.
Calls(file, noticed) ==
  {fn \in DOMAIN file : ~file[fn].muted /\ [of |-> "sql", state |-> Unsafe] \in noticed[fn]}

\* _note_call: the helpers whose parameter is handed something that is not constant.
Marks(file, noticed) ==
  {g \in DOMAIN file : \E fn \in DOMAIN file : \E n \in noticed[fn] : n.of = g /\ n.state # Safe}

\* What the last pass sees, with `left' passes to go.
RECURSIVE LastPass(_, _, _)
LastPass(file, untrusted, left) ==
  LET noticed == Noticed(file, untrusted, TRUE)
      marks   == Marks(file, noticed)
  IN IF left = 1 \/ marks \subseteq untrusted THEN noticed
     ELSE LastPass(file, untrusted \cup marks, left - 1)

\* check_raw_sql_interpolation: each function with a finding, and its confidence.
CheckRawSql(file) ==
  LET calls   == Calls(file, Noticed(file, {}, FALSE))
      reached == Calls(file, LastPass(file, {}, Passes))
  IN [fn \in calls |-> IF fn \in reached THEN "high" ELSE "medium"]
-----------------------------------------------------------------------------
\* The functions a caller's value gets to in at most n calls when the file runs.
Runs(file, fn, given) ==
  Executed(file[fn].body, [x \in {"x"} |-> IF given THEN Given ELSE Plain], 1, TRUE)

RECURSIVE Within(_, _)
Within(file, hops) ==
  IF hops = 0 THEN {fn \in DOMAIN file : file[fn].entry}
  ELSE LET nearer == Within(file, hops - 1)
       IN nearer \cup {g \in DOMAIN file : \E fn \in DOMAIN file : \E r \in Runs(file, fn, fn \in nearer) :
                                           r.of = g /\ r.value.foreign}

\* The functions that execute text built from what a caller, or the record's own fields, gave.
Exposed(file, hops) ==
  LET given == Within(file, hops)
  IN {fn \in DOMAIN file : ~file[fn].muted /\
        \E r \in Runs(file, fn, fn \in given) : r.of = "sql" /\ r.value.built}
=============================================================================
