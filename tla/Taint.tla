-------------------------------- MODULE Taint --------------------------------
(***************************************************************************)
(* The taint analysis under the security rules (rules/_taint.py): one pass *)
(* over the statements of a function, which keeps for every variable the   *)
(* worst of what the branches gave it, next to what the function does when *)
(* it runs.                                                                *)
(*                                                                         *)
(* An expression is [op, of, name]: an operation, its operands, and the    *)
(* variable of a name or a comprehension. A statement is [do, name, expr,  *)
(* blocks]; what it executes or calls is called `name'. In trusting mode   *)
(* (trusting_opaque_values) only what a caller controls is not constant.   *)
(***************************************************************************)
EXTENDS Integers, SequencesExt, FiniteSetsExt

\* Taint: provably constants only; an opaque value; text built from one that is not constant.
Safe    == 0
Unknown == 1
Unsafe  == 2

\* _worst
Worst(states) == Max(states \cup {Safe})

\* TaintVisitor.lookup: a name nothing here binds is opaque.
Lookup(env, x, trust) == IF x \in DOMAIN env THEN env[x] ELSE IF trust THEN Safe ELSE Unknown

Bound(env, x, state) == [y \in DOMAIN env \cup {x} |-> IF y = x THEN state ELSE env[y]]

\* What a loop or a comprehension hands out of a value of this state.
ItemOf(state) == IF state = Safe THEN Safe ELSE Unknown

\* Operations whose result is text the code fixes, whatever they are applied to: constants,
\* _NUMERIC_CALLS, _CLOCK_CALLS, _SAFE_BUILDERS, get_sql(), `_table', `id'.
Fixed == {"constant", "number", "builder"}
\* Operations that write their operands into new text.
Interpolations == {"f-string", "plus"}
\* Receiver first: text with arguments written into it (_STR_METHODS, format, %).
Insertions == {"percent", "format", "reshape"}
\* Values that hold their operands side by side.
Gatherings == {"sequence", "either", "str", "join"}
\* Literals that say what a repetition repeats.
Literal == {"constant", "sequence"}

\* taint_of, _binop_taint, _call_taint, _comprehension_taint
RECURSIVE TaintOf(_, _, _)
TaintOf(e, env, trust) ==
  LET state(i)  == TaintOf(e.of[i], env, trust)
      states    == {state(i) : i \in DOMAIN e.of}
      arguments == {state(i) : i \in DOMAIN e.of \ {1}}
      opaque    == IF trust /\ states \subseteq {Safe} THEN Safe ELSE Unknown
      inserted  == IF arguments \subseteq {Safe} THEN state(1) ELSE Unsafe
  IN CASE e.op \in Fixed -> Safe
       [] e.op = "name" -> Lookup(env, e.name, trust)
       [] e.op \in {"request", "own field"} -> Unknown
       [] e.op = "metadata" -> IF trust THEN Safe ELSE Unknown
       [] e.op \in {"attribute", "call"} -> opaque
       [] e.op \in Interpolations -> IF states \subseteq {Safe} THEN Safe ELSE Unsafe
       [] e.op \in Insertions -> inserted
       [] e.op = "percent of number" -> IF e.of[1].op = "constant" THEN state(1) ELSE inserted
       [] e.op \in Gatherings -> Worst(states)
       [] e.op = "repeat" -> IF e.of[1].op \in Literal THEN state(1) ELSE Worst(states)
       [] e.op = "item" -> ItemOf(Worst(states))
       [] e.op = "comprehension" -> TaintOf(e.of[2], Bound(env, e.name, ItemOf(state(1))), trust)
       [] e.op = "SQL" -> IF state(1) = Unsafe THEN Unsafe ELSE Safe
       [] e.op = "select" -> IF arguments \subseteq {Safe} THEN Safe ELSE opaque
-----------------------------------------------------------------------------
(* The visitor. Its state is the environment and what it has noted of calls. *)

Noted(st, e, name, trust) ==
  [st EXCEPT !.notes = @ \cup {[of |-> name, state |-> TaintOf(e, st.env, trust)]}]

SetTo(st, x, state) == [st EXCEPT !.env = Bound(@, x, state)]

\* combine_add
CombineAdd(old, new) == IF old = Safe /\ new = Safe THEN Safe ELSE Unsafe

\* _raise: a mutation of a container weakens it.
Raise(st, x, state) ==
  SetTo(st, x, Worst({state, IF x \in DOMAIN st.env THEN st.env[x] ELSE Unknown}))

\* Mutant: the best of the branches.
MergeBest(results) ==
  [env   |-> [x \in UNION {DOMAIN r.env : r \in results} |->
                Min({r.env[x] : r \in {s \in results : x \in DOMAIN s.env}})],
   notes |-> UNION {r.notes : r \in results}]

\* The end of _branches: the worst of the branches, for what each of them binds.
Merge(results) ==
  [env   |-> [x \in UNION {DOMAIN r.env : r \in results} |->
                Worst({r.env[x] : r \in {s \in results : x \in DOMAIN s.env}})],
   notes |-> UNION {r.notes : r \in results}]

\* visit_Assign, visit_AugAssign, _track_mutation, visit_If and _checked_choice, visit_Try,
\* _loop, visit_With: one statement. A block that returns is followed as if it went on.
RECURSIVE Visit(_, _, _)
Visit(block, st, trust) ==
  LET branches(bs, s) == Merge({Visit(b, s, trust) : b \in bs})
      step(s, stmt) ==
        LET state  == TaintOf(stmt.expr, s.env, trust)
            b(i)   == stmt.blocks[i]
        IN CASE stmt.do = "assign"  -> SetTo(s, stmt.name, state)
             [] stmt.do = "plus"    -> SetTo(s, stmt.name, CombineAdd(Lookup(s.env, stmt.name, trust), state))
             [] stmt.do = "extend"  -> SetTo(s, stmt.name, Worst({Lookup(s.env, stmt.name, trust), state}))
             [] stmt.do = "append"  -> Raise(s, stmt.name, state)
             [] stmt.do \in {"execute", "hand"} -> Noted(s, stmt.expr, stmt.name, trust)
             [] stmt.do = "if"      -> branches({b(1), b(2)}, s)
             [] stmt.do = "choice"  -> SetTo(branches({b(1), <<>>}, s), stmt.name, Safe)
             [] stmt.do = "try"     -> Visit(b(3), branches({b(1), b(2)}, s), trust)
             [] stmt.do = "for"     -> branches({b(1), <<>>}, SetTo(s, stmt.name, ItemOf(state)))
             [] stmt.do = "while"   -> branches({b(1), <<>>}, s)
             [] stmt.do = "with"    -> Visit(b(1), SetTo(s, stmt.name, state), trust)
             [] stmt.do = "return"  -> s
  IN FoldLeft(step, st, block)

\* visit_FunctionDef: the parameters as param_taint says, over the module's constants.
Analysed(block, env, trust) == Visit(block, [env |-> env, notes |-> {}], trust).notes
-----------------------------------------------------------------------------
(* What a run of the function computes. A value is what its text is made of: *)
(* whether some of it is foreign (no constant of the code), and whether      *)
(* foreign text was written into it. The module's header promises the state  *)
(* UNSAFE to all of that; the code gives it up where text is joined or is    *)
(* taken out of a container: that text is lost, and once SQL() wraps it, it  *)
(* is called safe.                                                           *)

Plain == [foreign |-> FALSE, built |-> FALSE, lost |-> FALSE, wrapped |-> FALSE]
Given == [Plain EXCEPT !.foreign = TRUE]

Foreign(values) == \E v \in values : v.foreign
Opaque(values)  == IF Foreign(values) THEN Given ELSE Plain

Made(values, built) ==
  [foreign |-> Foreign(values),
   built   |-> built \/ \E v \in values : v.built,
   lost    |-> \E v \in values : v.lost,
   wrapped |-> \E v \in values : v.wrapped]

\* A part of a value: text that was built is lost once it was put away in a container.
Part(v) == [v EXCEPT !.built = FALSE, !.lost = @ \/ v.built]

RECURSIVE Value(_, _, _)
Value(e, store, trust) ==
  LET value(i) == Value(e.of[i], store, trust)
      values   == {value(i) : i \in DOMAIN e.of}
      others   == {value(i) : i \in DOMAIN e.of \ {1}}
      all      == Made(values, FALSE)
  IN CASE e.op \in Fixed -> Plain
       [] e.op = "name" -> IF e.name \in DOMAIN store THEN store[e.name] ELSE IF trust THEN Plain ELSE Given
       [] e.op \in {"request", "own field"} -> Given
       [] e.op = "metadata" -> IF trust THEN Plain ELSE Given
       [] e.op \in {"attribute", "call"} -> IF trust THEN Opaque(values) ELSE Given
       [] e.op \in Interpolations -> Made(values, Foreign(values))
       [] e.op \in Insertions -> Made(values, Foreign(others))
       [] e.op \in {"percent of number", "repeat"} -> value(1)
       [] e.op = "join" -> [all EXCEPT !.lost = @ \/ all.foreign]
       [] e.op \in Gatherings -> all
       [] e.op = "item" -> Part(all)
       [] e.op = "comprehension" -> Value(e.of[2], Bound(store, e.name, Part(value(1))), trust)
       \* An SQL object binds its parameters; only its text counts.
       [] e.op = "SQL" -> IF value(1).built THEN value(1)
                          ELSE IF value(1).lost THEN [value(1) EXCEPT !.wrapped = TRUE] ELSE Plain
       \* A Query brings its own clauses; only the arguments are text of ours.
       [] e.op = "select" -> Opaque(others)

\* The ways a run can go on from any of the runs: [store, log, over]. A loop goes round at
\* most `rounds' times; a try body may fail before each of its first `rounds' statements.
RECURSIVE Exec(_, _, _, _)
Exec(block, runs, rounds, trust) ==
  LET step(rs, stmt) ==
        LET over  == {r \in rs : r.over}
            live  == rs \ over
            b(i)  == stmt.blocks[i]
            go(blk, from) == Exec(blk, from, rounds, trust)
            val(r) == Value(stmt.expr, r.store, trust)
            old(r) == IF stmt.name \in DOMAIN r.store THEN {r.store[stmt.name]} ELSE {}
            put(r, v) == [r EXCEPT !.store = Bound(@, stmt.name, v)]
            item(from) == {IF stmt.do = "for" THEN put(r, Part(val(r))) ELSE r : r \in from}
            round[n \in 0..rounds] ==
              IF n = 0 THEN live ELSE round[n - 1] \cup go(b(1), item(round[n - 1]))
            failing == UNION {go(SubSeq(b(1), 1, k - 1), live) : k \in 1..Min({rounds, Len(b(1))})}
            ended(from) == {[r EXCEPT !.over = FALSE] : r \in {f \in from : f.over}}
            \* the finally block, also on the way out of the function
            finally(from) == go(b(3), from \ {f \in from : f.over})
                             \cup {[r EXCEPT !.over = TRUE] : r \in go(b(3), ended(from))}
        IN over \cup
           CASE stmt.do = "assign"  -> {put(r, val(r)) : r \in live}
             [] stmt.do = "plus"    -> {put(r, Made({val(r)} \cup old(r), Foreign({val(r)} \cup old(r)))) : r \in live}
             [] stmt.do \in {"extend", "append"} -> {put(r, Made({val(r)} \cup old(r), FALSE)) : r \in live}
             [] stmt.do \in {"execute", "hand"} ->
                  {[r EXCEPT !.log = @ \cup {[of |-> stmt.name, value |-> val(r)]}] : r \in live}
             [] stmt.do = "if"      -> go(b(1), live) \cup go(b(2), live)
             [] stmt.do = "choice"  -> {[r EXCEPT !.over = TRUE] : r \in go(b(1), live)}
                                       \cup {put(r, Plain) : r \in live}
             [] stmt.do = "try"     -> finally(go(b(1), live) \cup go(b(2), failing))
             [] stmt.do \in {"for", "while"} -> round[rounds]
             [] stmt.do = "with"    -> go(b(1), {put(r, val(r)) : r \in live})
             [] stmt.do = "return"  -> {[r EXCEPT !.over = TRUE] : r \in live}
  IN FoldLeft(step, runs, block)

\* All that runs of the function execute or hand on.
Executed(block, store, rounds, trust) ==
  UNION {r.log : r \in Exec(block, {[store |-> store, log |-> {}, over |-> FALSE]}, rounds, trust)}

\* What is executed is no better than the analysis says: text built from something foreign
\* is unsafe, and anything foreign is not safe, unless SQL() wraps text that was lost.
Covers(notes, executed) ==
  \A x \in {y \in executed : ~y.value.wrapped} :
    /\ x.value.built => [of |-> x.of, state |-> Unsafe] \in notes
    /\ x.value.foreign => \E n \in notes : n.of = x.of /\ n.state # Safe
=============================================================================
