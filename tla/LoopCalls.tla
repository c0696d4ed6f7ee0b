------------------------------- MODULE LoopCalls -------------------------------
(***************************************************************************)
(* ORM calls inside loops, and which of them do the same on every pass.    *)
(* A statement is [do, name, expr, body]:                                  *)
(*   let (name = expr), store (name.a = expr), append (name.append(expr)), *)
(*   call (expr), leave (continue), and blocks: for, while, if, try, with. *)
(* An expression is [op, name, of]; the one call that is judged has the    *)
(* name "judged". Its receiver is of[1] and its argument of[2].            *)
(***************************************************************************)
EXTENDS Naturals, SequencesExt, FiniteSets

Queries   == {"search", "page", "aggregate"}
Effects   == {"write", "create"}
OrmOps    == Queries \cup Effects
\* with_context, len and fields.Datetime.now; any other call is "helper".
CallOps   == OrmOps \cup {"context", "len", "now", "helper"}
ReadOnly  == Queries \cup {"context", "len"}
SameEachPass == {"context", "len", "now"}
Loops     == {"for", "while"}
Blocks    == Loops \cup {"if", "try", "with"}

RECURSIVE Parts(_)
Parts(e) == {e} \cup UNION {Parts(e.of[i]) : i \in DOMAIN e.of}

RECURSIVE Exprs(_)
Exprs(st) == Parts(st.expr) \cup UNION {Exprs(st.body[i]) : i \in DOMAIN st.body}
ExprsOf(block) == UNION {Exprs(st) : st \in ToSet(block)}

RECURSIVE Statements(_)
Statements(block) == ToSet(block) \cup UNION {Statements(st.body) : st \in ToSet(block)}

IsJudged(e) == e.name = "judged"
HasJudged(exprs) == \E e \in exprs : IsJudged(e)

RECURSIVE Root(_)
Root(e) == IF e.op \in {"context"} \cup OrmOps THEN Root(e.of[1]) ELSE e
-----------------------------------------------------------------------------
(* What a name is known to hold: "records", records by inference, or neither. *)
KindOf(e, kinds) ==
  LET root == Root(e)
  IN IF root.op = "self" THEN "records"
     ELSE IF root.op = "name" /\ root.name \in DOMAIN kinds THEN kinds[root.name] ELSE "plain"

IsOrm(e, kinds) == KindOf(e, kinds) # "plain"

BindLoopTargets(loop, kinds) ==
  IF loop.do = "for" /\ IsOrm(loop.expr, kinds)
  THEN (loop.name :> KindOf(loop.expr, kinds)) @@ kinds ELSE kinds

ClearlyRecords(e, kinds) ==
  e.op \in {"search", "page", "context"} \/ (Root(e).op = "name" /\ IsOrm(e, kinds))

BindAssign(st, kinds) ==
  IF st.do # "let" THEN kinds
  ELSE (st.name :> (IF IsOrm(st.expr, kinds) /\ ClearlyRecords(st.expr, kinds) THEN "inferred" ELSE "plain")) @@ kinds

IsBoundedLoop(loop) == loop.do = "for" /\ loop.expr.op = "literal"

RECURSIVE PerIteration(_)
\* What runs on each pass of the loop around the block: of an inner loop, its iterable.
PerIteration(block) ==
  UNION {IF st.do \in Loops THEN IF st.do = "for" THEN Parts(st.expr) ELSE {}
         ELSE Parts(st.expr) \cup PerIteration(st.body) : st \in ToSet(block)}

RunsIn(loop) == PerIteration(loop.body) \cup IF loop.do = "while" THEN Parts(loop.expr) ELSE {}

\* The loop that runs the judged call, and whether that rests on inference. A comprehension
\* with no loop around it is one as well.
RECURSIVE OrmCallsInLoops(_, _)
OrmCallsInLoops(block, kinds) ==
  IF block = <<>> THEN {}
  ELSE LET st    == Head(block)
           inner == IF st.do \in Loops THEN BindLoopTargets(st, kinds) ELSE kinds
           here  == {e \in RunsIn(st) : IsJudged(e) /\ IsOrm(e.of[1], inner)}
           found == IF st.do \in Loops /\ ~IsBoundedLoop(st) /\ here # {}
                    THEN {[loop |-> st, guessed |-> \E e \in here : KindOf(e.of[1], inner) = "inferred"]}
                    ELSE {}
           nested == OrmCallsInLoops(st.body, inner)
           comp   == {[loop |-> st, guessed |-> TRUE] : e \in
                        {x \in Parts(st.expr) : x.op = "comprehension" /\ \E y \in Parts(x.of[1]) :
                                                   IsJudged(y) /\ IsOrm(y.of[1], kinds)}}
       IN IF found # {} THEN found ELSE IF nested \cup comp # {} THEN nested \cup comp
          ELSE OrmCallsInLoops(Tail(block), BindAssign(st, kinds))
-----------------------------------------------------------------------------
\* A bug to rule out: a name that is changed in place is not counted.
NamesRebound(loop) ==
  {st.name : st \in {x \in Statements(loop.body) : x.do \in {"let", "for", "with"}}} \cup {loop.name}

NamesChangedByLoop(loop) ==
  {st.name : st \in {x \in Statements(loop.body) : x.do \in {"let", "store", "append", "for", "with"}}}
  \cup {e.name : e \in {x \in ExprsOf(loop.body) \cup Parts(loop.expr) : x.op = "walrus"}}
  \cup (IF loop.do = "for" THEN {loop.name} ELSE {})

RECURSIVE FreeNames(_)
FreeNames(e) ==
  IF e.op = "name" THEN {e.name}
  ELSE IF e.op = "comprehension" THEN FreeNames(e.of[2]) \cup (FreeNames(e.of[1]) \ {e.name})
  ELSE UNION {FreeNames(e.of[i]) : i \in DOMAIN e.of}

RECURSIVE EachTime(_)
\* The judged call is reached with no branch, short circuit or scope of its own around it.
EachTime(e) ==
  \/ IsJudged(e)
  \/ e.op \notin {"and", "comprehension"} /\ \E i \in DOMAIN e.of : EachTime(e.of[i])

RECURSIVE RunsEveryIteration(_)
RunsEveryIteration(st) ==
  /\ st.do \notin {"if", "try"} \cup Loops
  /\ EachTime(st.expr) \/ \E s \in ToSet(st.body) : RunsEveryIteration(s)

LeavesEarly(loop) == \E st \in Statements(loop.body) : st.do = "leave"

MayChangeRecords(loop) ==
  \/ \E st \in Statements(loop.body) : st.do = "store"
  \/ \E e \in ExprsOf(loop.body) : e.op \in CallOps \ ReadOnly /\ ~IsJudged(e)

OnlyStatement(loop, call) == Len(loop.body) = 1 /\ loop.body[1].do = "call" /\ loop.body[1].expr = call

ReceiverNames(receiver, keepRoot) ==
  LET root  == Root(receiver)
      names == {e.name : e \in {x \in Parts(receiver) : x.op = "name" /\ x # root}}
  IN names \cup IF keepRoot /\ root.op = "name" THEN {root.name} ELSE {}

\* The names that the loops around the call change.
ChangedAround(tree) ==
  UNION {NamesChangedByLoop(st) : st \in {x \in Statements(tree) :
           x.do \in Loops /\ HasJudged(ExprsOf(x.body) \cup Parts(x.expr))}}

IsRepeatedUnchanged(call, loop, tree) ==
  LET writes == call.op \in Effects
      used   == (UNION {FreeNames(call.of[i]) : i \in 2..Len(call.of)}) \cup ReceiverNames(call.of[1], call.op # "write")
  IN /\ loop.do = "for"
     /\ ~\E e \in Parts(call) : e.op = "walrus"
     /\ writes => OnlyStatement(loop, call)
     /\ writes => \A e \in Parts(call) \ {call} : e.op \in CallOps => e.op \in SameEachPass
     /\ \E st \in ToSet(loop.body) : RunsEveryIteration(st)
     /\ ~LeavesEarly(loop)
     /\ ~writes => ~MayChangeRecords(loop)
     /\ used \cap ChangedAround(tree) = {}

\* create-in-loop, write-in-loop and search-in-loop.
CheckLoopCalls(tree) ==
  LET call == CHOOSE e \in ExprsOf(tree) : IsJudged(e)
      high(f) == ~f.guessed /\ call.op # "aggregate" /\ IsRepeatedUnchanged(call, f.loop, tree)
  IN {[confidence |-> IF high(f) THEN "high" ELSE "medium"] :
        f \in {x \in OrmCallsInLoops(tree, [n \in {} |-> ""]) : ~(call.op = "page" /\ x.loop.do = "while")}}
-----------------------------------------------------------------------------
(***************************************************************************)
(* Running the function. A value is [k, of, n]; the state is [env, db,     *)
(* tick, loop, log]: the names, how often records were written, how many   *)
(* values that differ each time were made, the run of the innermost loop,  *)
(* and what the judged call did in it.                                     *)
(***************************************************************************)
Val(k, of, n) == [k |-> k, of |-> of, n |-> n]
Nothing == Val("none", <<>>, 0)
Passes  == 2

RECURSIVE Eval(_, _)

\* All ways to evaluate a sequence of expressions, left to right.
EvalAll(es, s) ==
  FoldLeft(LAMBDA ways, e : UNION {{[v |-> Append(w.v, x.v), s |-> x.s] : x \in Eval(e, w.s)} : w \in ways},
           {[v |-> <<>>, s |-> s]}, es)

\* What the call does: a query sees the records as they are; which record a value is written
\* to is not part of it, the context it is written with is.
Doing(e, vs, s) ==
  IF e.op \in Queries THEN Val(e.op, vs, s.db)
  ELSE IF e.op = "create" THEN Val(e.op, vs, 0)
  ELSE Val(e.op, (IF e.of[1].op = "context" THEN Tail(vs[1].of) ELSE <<>>) \o Tail(vs), 0)

Eval(e, s) ==
  IF e.op = "name" THEN {[v |-> s.env[e.name], s |-> s]}
  ELSE IF e.op = "and" THEN
    UNION {{x} \cup Eval(e.of[2], x.s) : x \in Eval(e.of[1], s)}
  ELSE IF e.op = "comprehension" THEN
    UNION {LET one(n, t) == Eval(e.of[1], [t EXCEPT !.env[e.name] = Val("item", <<x.v>>, n)])
           IN {[v |-> Val("list", <<y.v, z.v>>, 0), s |-> [z.s EXCEPT !.env[e.name] = s.env[e.name]]] :
                 <<y, z>> \in UNION {{<<a, b>> : b \in one(2, a.s)} : a \in one(1, x.s)}} : x \in Eval(e.of[2], s)}
  ELSE UNION {
    LET vs == w.v
        t  == w.s
        what == Doing(e, vs, t)
        logged == IF IsJudged(e) THEN [t EXCEPT !.log = Append(@, [loop |-> t.loop, what |-> what])] ELSE t
    IN CASE e.op \in Queries -> {[v |-> what, s |-> logged]}
         [] e.op \in Effects -> {[v |-> Nothing, s |-> [logged EXCEPT !.db = @ + 1]]}
         [] e.op = "helper"  -> {[v |-> Val("fresh", vs, t.tick), s |-> [t EXCEPT !.tick = @ + 1, !.db = @ + 1]]}
         [] e.op = "walrus"  -> {[v |-> vs[1], s |-> [t EXCEPT !.env[e.name] = vs[1]]]}
         [] OTHER            -> {[v |-> Val(e.op, vs, 0), s |-> t]} : w \in EvalAll(e.of, s)}

RECURSIVE Run(_, _)

\* Each pass of a loop from each state the one before ends in; a pass that is left is over.
RunPasses(st, starts, n) ==
  UNION {UNION {Run(st.body, x.s) :
           x \in IF st.do = "while" THEN Eval(st.expr, s)
                 ELSE {[s |-> [s EXCEPT !.env[st.name] = Val("item", <<>>, n)]]}} : s \in starts}

RunLoop(st, s) ==
  LET run    == s.runs + 1
      starts == {[x.s EXCEPT !.loop = run, !.runs = run] : x \in IF st.do = "for" THEN Eval(st.expr, s) ELSE {[s |-> s]}}
      after(n) == IF n = 1 THEN RunPasses(st, starts, 1)
                  ELSE RunPasses(st, {[x.s EXCEPT !.loop = run] : x \in RunPasses(st, starts, 1)}, 2)
  IN {[x.s EXCEPT !.loop = s.loop] : x \in after(Passes)}

RunOne(st, s) ==
  IF st.do \in Loops THEN {[s |-> t, left |-> FALSE] : t \in RunLoop(st, s)}
  ELSE UNION {
    CASE st.do = "let"    -> {[s |-> [x.s EXCEPT !.env[st.name] = x.v], left |-> FALSE]}
      [] st.do = "append" -> {[s |-> [x.s EXCEPT !.env[st.name] = Val("longer", <<@, x.v>>, 0)], left |-> FALSE]}
      [] st.do = "store"  -> {[s |-> [x.s EXCEPT !.db = @ + 1, !.env[st.name] = Val("stored", <<@, x.v>>, 0)], left |-> FALSE]}
      [] st.do = "leave"  -> {[s |-> x.s, left |-> TRUE]}
      [] st.do \in {"if", "try"} -> {[s |-> x.s, left |-> FALSE]} \cup Run(st.body, x.s)
      [] st.do = "with"   -> Run(st.body, [x.s EXCEPT !.env[st.name] = x.v])
      [] OTHER            -> {[s |-> x.s, left |-> FALSE]} : x \in Eval(st.expr, s)}

Run(block, s) ==
  IF block = <<>> THEN {[s |-> s, left |-> FALSE]}
  ELSE UNION {IF x.left THEN {x} ELSE Run(Tail(block), x.s) : x \in RunOne(Head(block), s)}

Vars == {"r", "q", "x", "y"}
Start == [env |-> [n \in Vars |-> Val("given", <<>>, 0)], db |-> 0, tick |-> 0, loop |-> 0, runs |-> 0, log |-> <<>>]

\* On every run of the loop the call is made once a pass, and does the same each time.
SameOnEveryPass(tree) ==
  \A end \in Run(tree, Start) :
    \A n \in 1..end.s.runs :
      LET did == SelectSeq(end.s.log, LAMBDA x : x.loop = n)
      IN did # <<>> => Len(did) = Passes /\ did[1].what = did[2].what
=============================================================================
