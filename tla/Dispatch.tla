------------------------------ MODULE Dispatch ------------------------------
(***************************************************************************)
(* dynamic-method-dispatch: the calls of a method by a name that the code  *)
(* does not fix (rules/security/dynamic_method_dispatch.py), next to the   *)
(* names that running the function can come up with.                       *)
(*                                                                         *)
(* A function is [public, params, hooks, consts, body]: params do not      *)
(* include self and cls, consts are the names the module binds, hooks the  *)
(* parameter of a __getattr__. "own name" is __name__ of a name. Its body  *)
(* is a sequence of [do, name, expr, maybe]: "let" (an assignment), "each" *)
(* (a for loop), "reshape" (any other way to bind or extend a name),       *)
(* "test" (expr is compared), "dir" (expr in dir(..)), "dispatch" (getattr *)
(* by expr, called); maybe: under a condition. An expression is            *)
(* [op, name, of], of smaller ones.                                        *)
(***************************************************************************)
EXTENDS Naturals, Sequences, SequencesExt, FiniteSets, Judging

CONSTANTS Identifiers, \* parameters, locals, and names bound outside
          Levels,      \* the expressions: leaves, those over leaves, and so on
          Dispatchers  \* functions that call methods by name

\* Text made of its operands side by side: BinOp, f-string, with a constant first or not.
Joined == {"prefixed", "joined"}
\* _TEXT_METHODS and subscripts hand out their receiver; _TEXT_ARG_METHODS, `a or b' and
\* `a if c else b' any operand.
Reshaped == {"strip", "item", "replace", "either"}

Operators  == {"constant", "table", "own name", "name", "literal", "data"} \cup Joined \cup Reshaped
Expression == UNION {Levels[k] : k \in DOMAIN Levels}

ASSUME LevelsAssumption ==
  /\ Levels \in Seq(SUBSET Expression)
  /\ \A k \in DOMAIN Levels : \A e \in Levels[k] :
       /\ e.op \in Operators /\ (e.op = "name" => e.name \in Identifiers)
       /\ e.of \in Seq(UNION {Levels[j] : j \in 1..(k - 1)})

\* _names
NamesIn[e \in Expression] ==
  (IF e.op = "name" THEN {e.name} ELSE {}) \cup UNION {NamesIn[e.of[i]] : i \in DOMAIN e.of}

Statements(fn, kinds) == {s \in ToSet(fn.body) : s.do \in kinds}
ValuesOf(fn, x) == {s.expr : s \in {t \in Statements(fn, {"let"}) : t.name = x}}

\* _client_value: the caller's text, possibly reshaped.
ClientValue(e, tainted, consts) ==
  LET client[x \in Expression] ==
        LET some == \E i \in DOMAIN x.of : client[x.of[i]]
        IN \/ x.op = "name" /\ x.name \in tainted \ consts
           \/ x.op \in Reshaped /\ some
           \/ x.op \in Joined /\ some /\ \A i \in DOMAIN x.of : client[x.of[i]] \/ x.of[i].op = "constant"
  IN client[e]

\* _tainted_names: the parameters and, until nothing changes, what is bound to their text.
TaintedNames(fn) ==
  LET binds == Statements(fn, {"let", "each", "reshape"})
      tainted[k \in 0..Len(fn.body)] ==
        IF k = 0 THEN fn.params
        ELSE tainted[k - 1] \cup {s.name : s \in {t \in binds : ClientValue(t.expr, tainted[k - 1], fn.consts)}}
  IN tainted[Len(fn.body)]

\* _guarded_names
Guarded(fn) == UNION {NamesIn[s.expr] : s \in Statements(fn, {"test"})}

\* _has_constant_prefix, _is_fixed_text
FixedText(e) == e.op \in {"prefixed", "constant"}

\* _confined_variable: every assignment of the name is prefixed.
Confined(fn, e) ==
  /\ e.op = "name"
  /\ ValuesOf(fn, e.name) # {}
  /\ \A v \in ValuesOf(fn, e.name) : v.op = "prefixed"

\* _reshaped_names
ReshapedNames(fn) == {s.name : s \in Statements(fn, {"reshape"})}

\* literal_texts: a literal of fixed texts, directly or through names assigned once (in a circle the
\* code recurses without end).
LiteralOfTexts(e) == e.op = "literal" /\ \A i \in DOMAIN e.of : FixedText(e.of[i])
AssignedOnce(fn, x) == Cardinality({i \in DOMAIN fn.body : fn.body[i].do = "let" /\ fn.body[i].name = x}) = 1
LiteralNames(fn) ==
  LET found[k \in 0..Len(fn.body)] ==
        IF k = 0 THEN {}
        ELSE {x \in Identifiers \ ReshapedNames(fn) :
                AssignedOnce(fn, x) /\ \A v \in ValuesOf(fn, x) : LiteralOfTexts(v) \/ (v.op = "name" /\ v.name \in found[k - 1])}
  IN found[Len(fn.body)]
LiteralTexts(fn, e) == LiteralOfTexts(e) \/ (e.op = "name" /\ e.name \in LiteralNames(fn))

\* own_name: the __name__ of something that is not a parameter.
OwnName(fn, e) == e.op = "own name" /\ NamesIn[e] \cap fn.params = {}

\* Mutant: names that are extended afterwards stay fixed.
FixedNamesReshaped(fn) ==
  LET assigned == {s.name : s \in Statements(fn, {"let"})}
  IN {x \in assigned : \A v \in ValuesOf(fn, x) : OwnName(fn, v)}
     \cup {s.name : s \in {t \in Statements(fn, {"each"}) : t.name \notin assigned /\ LiteralTexts(fn, t.expr)}}

\* _fixed_names: locals only ever bound to something the code fixes.
FixedNames(fn) ==
  LET assigned == {s.name : s \in Statements(fn, {"let"})}
  IN ({x \in assigned : \A v \in ValuesOf(fn, x) : OwnName(fn, v)}
     \cup {s.name : s \in {t \in Statements(fn, {"each"}) : t.name \notin assigned /\ LiteralTexts(fn, t.expr)}}) \ ReshapedNames(fn)

\* _check_function and the walk of check_dynamic_method_dispatch: each call that is reported,
\* with its confidence.
CheckDispatch(fn) ==
  LET guarded == Guarded(fn)
      fixed   == FixedNames(fn)
      tainted == TaintedNames(fn)
      reported == {s.expr : s \in {t \in Statements(fn, {"dispatch"}) :
                     /\ ~FixedText(t.expr) /\ t.expr.op # "table" /\ ~Confined(fn, t.expr)
                     /\ NamesIn[t.expr] \cap guarded = {}
                     /\ ~(t.expr.op = "name" /\ t.expr.name \in fn.hooks)
                     /\ ~(NamesIn[t.expr] # {} /\ NamesIn[t.expr] \subseteq fixed)}}
  IN {[expr |-> e, confidence |-> IF fn.public /\ ClientValue(e, tainted, fn.consts) THEN "high" ELSE "medium"] :
        e \in reported}
-----------------------------------------------------------------------------
(* What the function can call when it runs. The text of a name is "client"   *)
(* (the caller's), "family" (it begins with a constant), "code" or "data".   *)

Source == {"client", "family", "code", "data"}
FixedByCode == {"code", "family"}

Texts(e, store) ==
  LET texts[x \in Expression] ==
        LET all == UNION {texts[x.of[i]] : i \in DOMAIN x.of}
        IN CASE x.op \in {"constant", "table", "own name"} -> {"code"}
             [] x.op = "name"     -> store[x.name]
             [] x.op = "prefixed" -> {"family"}
             [] x.op = "joined"   -> IF "data" \in all THEN {"data"} ELSE all
             [] x.op \in Reshaped \cup {"literal"} -> all
             [] x.op = "data"     -> {"data"}
  IN texts[e]

\* The stores after a statement: one under a condition may be left out, and a loop binds its
\* name to one item after the other.
StoresAfter(s, before) ==
  LET bound(store, texts) == [store EXCEPT ![s.name] = texts]
      \* += and append: text that begins with a constant still does; what is not bound fails
      grown(store) == store[s.name] \cup (IF store[s.name] \in {{}, {"family"}} THEN {} ELSE Texts(s.expr, store))
      done == CASE s.do \in {"let", "each"} -> {bound(st, Texts(s.expr, st)) : st \in before}
                [] s.do = "reshape" -> {bound(st, grown(st)) : st \in before}
                [] OTHER -> before
  IN done \cup IF s.maybe THEN before ELSE {}

\* The stores after the first n statements: at first parameters are the caller's, other names unbound.
Stores(fn, n) ==
  LET first == [x \in Identifiers |-> IF x \in fn.params THEN {"client"} ELSE {}]
      stores[k \in 0..Len(fn.body)] == IF k = 0 THEN {first} ELSE StoresAfter(fn.body[k], stores[k - 1])
  IN stores[n]

\* The texts a call by name may find.
DispatchedTexts(fn, n) == UNION {Texts(fn.body[n].expr, store) : store \in Stores(fn, n - 1)}

Binds == {"let", "each", "reshape"}
Statement == [do : Binds \cup {"test", "dir", "dispatch"}, name : Identifiers \cup {""}, expr : Expression, maybe : BOOLEAN]
Function == [public : BOOLEAN, params : SUBSET Identifiers, hooks : SUBSET Identifiers, consts : SUBSET STRING, body : Seq(Statement)]

\* Data is read through a name that the code does not fix: a parameter, a record, a module.
ASSUME DispatchersAssumption ==
  \A fn \in Dispatchers :
    /\ fn \in Function
    /\ \A i \in DOMAIN fn.body : fn.body[i].do \in Binds => fn.body[i].name \in Identifiers
    /\ \A e \in Expression : e.op = "data" => ~(NamesIn[e] \subseteq FixedNames(fn))

\* No parameter gets another value, and a name has one loop or assignments, never both.
BoundOneWay(fn) ==
  LET binds(i) == fn.body[i].do \in {"let", "each"}
  IN \A i \in DOMAIN fn.body :
       /\ binds(i) \/ fn.body[i].do = "reshape" => fn.body[i].name \notin fn.params
       /\ \A j \in DOMAIN fn.body \ {i} :
            binds(i) /\ binds(j) /\ fn.body[i].name = fn.body[j].name
              => fn.body[i].do = "let" /\ fn.body[j].do = "let"

\* The calls by name that are neither reported nor tested nor Python's own hook.
Silent(fn, reported) ==
  {n \in {i \in DOMAIN fn.body : fn.body[i].do = "dispatch"} :
     LET e == fn.body[n].expr
     IN /\ e \notin {r.expr : r \in reported}
        /\ NamesIn[e] \cap (Guarded(fn) \cup fn.hooks) = {}}

JudgeDispatch == Judge("dispatch", CheckDispatch(input))

DispatchSpec == Unjudged /\ rule = "dispatch" /\ input \in Dispatchers /\ [][JudgeDispatch]_ruleVars

\* Where parameters keep their values and a name is bound in one way only, a call by name
\* that nothing is said about only finds methods the code names, or a family of them.
SilenceIsFixed ==
  Said("dispatch") /\ BoundOneWay(input) =>
    \A n \in Silent(input, verdict) : DispatchedTexts(input, n) \subseteq FixedByCode

\* The same for any function.
SilenceIsFixedAlways ==
  Said("dispatch") => \A n \in Silent(input, verdict) : DispatchedTexts(input, n) \subseteq FixedByCode
=============================================================================
