------------------------------ MODULE RpcSudo ------------------------------
(***************************************************************************)
(* rpc-sudo-without-access-check: the methods a client can call that       *)
(* elevate with sudo() on records the client picked                        *)
(* (rules/security/rpc_sudo_without_access_check.py), next to what running *)
(* them elevates.                                                          *)
(*                                                                         *)
(* A method is [base, named, routed, name, auth, params, body]: the base   *)
(* of its class, whether that has _name or _inherit, whether a method of   *)
(* it is a route; name is "public", "private", "override" (of the ORM) or  *)
(* "hook" (api.depends, ..). A statement is [do, name, expr, body]: let,   *)
(* for, call, if (expr, body), leave, refuse (an AccessError).             *)
(* An expression is [op, name, of]; the receiver of a method call is       *)
(* of[1] and its argument of[2].                                           *)
(***************************************************************************)
EXTENDS Naturals, SequencesExt, FiniteSets

Searches  == {"search"}
Mutations == {"write", "create", "unlink", "action"}
OrmCalls  == Searches \cup {"browse", "read"} \cup (Mutations \ {"action"})
\* sudo() and sudo(False); a plain call is int(..) or get(..), any other is a "helper".
Methods   == OrmCalls \cup {"action", "sudo", "unsudo", "check", "has group"}
PlainCalls == OrmCalls \cup {"sudo", "unsudo", "plain"}
Calls     == Methods \cup PlainCalls \cup {"helper"}

RECURSIVE Nodes(_)
Nodes(e) == {e} \cup UNION {Nodes(e.of[i]) : i \in DOMAIN e.of}

RECURSIVE OwnStatements(_)
OwnStatements(body) == ToSet(body) \cup UNION {OwnStatements(st.body) : st \in ToSet(body)}
OwnNodes(fn) == UNION {Nodes(st.expr) : st \in OwnStatements(fn.body)}

Names(e) == {n.name : n \in {m \in Nodes(e) : m.op = "name"}}

ClassKind(fn) ==
  IF fn.base \in {"model", "controller"} THEN fn.base
  ELSE IF fn.named THEN "model"
  ELSE IF fn.routed THEN "controller" ELSE "none"

IsEntry(fn) ==
  \/ ClassKind(fn) = "controller" /\ fn.auth \notin {"public", "none", "unknown"}
  \/ ClassKind(fn) = "model" /\ fn.name \notin {"private", "override", "hook"}

\* The read of a fixed configuration key.
ConfigReads(fn) == {n.of[1] : n \in {m \in OwnNodes(fn) : m.op = "get_param"}}

\* sudo() that raises privileges, not sudo(False).
Elevations(fn) == {n \in OwnNodes(fn) : n.op = "sudo"} \ ConfigReads(fn)

IsElevated(e) == \E n \in Nodes(e) : n.op \in {"sudo", "unsudo"}
\* The caller's own search, whose result is what they may see.
FilteredByCaller(e) == \E n \in Nodes(e) : n.op \in Searches /\ ~IsElevated(n.of[1])

\* A dictionary whose keys the code fixes is data.
ArgsNames(call) ==
  LET args == IF call.op \in Methods THEN Tail(call.of) ELSE call.of
  IN UNION {Names(a) : a \in {x \in ToSet(args) : x.op # "dict"}}

\* The receiver chain of an expression, from itself down, and its root.
RECURSIVE ChainOf(_)
ChainOf(e) == {e} \cup IF e.op \in Methods \cup {"attr", "get_param"} THEN ChainOf(e.of[1]) ELSE {}
RootName(e) == {n.name : n \in {m \in ChainOf(e) : m.op = "name"}}
ChainCallsAbove(fn, node) == {c \in OwnNodes(fn) : c # node /\ c.op \in Methods /\ node \in ChainOf(c)}

RECURSIVE TaintFrom(_, _)
TaintFrom(fn, tainted) ==
  LET more == {st.name : st \in {s \in OwnStatements(fn.body) :
                 /\ s.do \in {"let", "for"} /\ Names(s.expr) \cap tainted # {}
                 /\ ~(FilteredByCaller(s.expr) /\ ~IsElevated(s.expr))}}
  IN IF more \subseteq tainted THEN tainted ELSE TaintFrom(fn, tainted \cup more)
Tainted(fn) == TaintFrom(fn, fn.params)

SudoVars(fn) ==
  {st.name : st \in {s \in OwnStatements(fn.body) : s.do = "let" /\ Nodes(s.expr) \cap Elevations(fn) # {}}}

RestrictsCaller(fn) ==
  \/ \E n \in OwnNodes(fn) : n.op \in {"check", "has group"}
  \/ \E st \in OwnStatements(fn.body) : st.do = "refuse"

MentionsCaller(fn) == \E n \in OwnNodes(fn) : n.op = "user"

Delegates(fn) == \E n \in OwnNodes(fn) : n.op \in Calls \ PlainCalls /\ ArgsNames(n) \cap Tainted(fn) # {}

RefusesByOwnerCompare(fn) ==
  LET owned(x) == x.op = "attr" /\ RootName(x) \cap SudoVars(fn) # {}
  IN \E st \in OwnStatements(fn.body) :
       /\ st.do = "if" /\ \E s \in OwnStatements(st.body) : s.do \in {"leave", "refuse"}
       /\ \E cmp \in {n \in Nodes(st.expr) : n.op = "compare"} :
            /\ \E x \in ToSet(cmp.of) : owned(x)
            /\ \E x \in ToSet(cmp.of) : x.op # "const" /\ ~owned(x)

ChainReaches(call, tainted) ==
  \/ ArgsNames(call) \cap tainted # {}
  \/ Names(call.of[1]) \cap tainted # {} /\ ~FilteredByCaller(call.of[1])

ReachesChange(fn) ==
  LET tainted == Tainted(fn)
  IN \/ \E s \in Elevations(fn) : \E c \in ChainCallsAbove(fn, s) :
          /\ c.op \in Mutations
          /\ ChainReaches(c, tainted) \/ ChainReaches([s EXCEPT !.of = <<s.of[1]>>], tainted)
     \/ \E n \in OwnNodes(fn) :
          /\ n.op \in Mutations /\ RootName(n.of[1]) \cap SudoVars(fn) # {}
          /\ (ArgsNames(n) \cup Names(n.of[1])) \cap tainted # {}

\* A bug to rule out: a search on a variable that holds elevated records is not seen as elevated.
SearchInline(fn, n) == n.op \in Searches /\ ~IsElevated(n.of[1])

\* A search with the caller's own rights.
OwnSearch(fn, n) ==
  n.op \in Searches /\ ~IsElevated(n.of[1]) /\ RootName(n.of[1]) \cap SudoVars(fn) = {}

ReachesOrm(fn) ==
  LET tainted == Tainted(fn)
  IN \/ \E s \in Elevations(fn) :
          \/ \E c \in ChainCallsAbove(fn, s) : ArgsNames(c) \cap tainted # {}
          \/ Names(s.of[1]) \cap tainted # {} /\ ~FilteredByCaller(s.of[1])
     \/ \E n \in OwnNodes(fn) :
          /\ n.op \in OrmCalls /\ ArgsNames(n) \cap tainted # {}
          /\ ~OwnSearch(fn, n)

Silent(fn) == RestrictsCaller(fn) \/ Delegates(fn) \/ RefusesByOwnerCompare(fn)

CheckRpcSudo(fn) ==
  IF /\ IsEntry(fn) /\ Elevations(fn) # {} /\ ~Silent(fn)
     /\ ReachesChange(fn) \/ ReachesOrm(fn)
  THEN {[confidence |-> IF ReachesChange(fn) /\ ~MentionsCaller(fn) THEN "high" ELSE "medium"]}
  ELSE {}
-----------------------------------------------------------------------------
(***************************************************************************)
(* Running the method. A value is [up, picked, given]: records with        *)
(* elevated rights, records the caller picked and nobody filtered, a value *)
(* made of what the caller gave. The log has what was done with elevated   *)
(* rights.                                                                 *)
(***************************************************************************)
V(up, picked, given) == [up |-> up, picked |-> picked, given |-> given]
Plain == V(FALSE, FALSE, FALSE)

RECURSIVE Runs(_, _)
\* [v, log]: an expression has one outcome.
Runs(e, env) ==
  LET of   == [i \in DOMAIN e.of |-> Runs(e.of[i], env)]
      log  == UNION {of[i].log : i \in DOMAIN of}
      recv == of[1].v
      arg  == IF Len(of) > 1 /\ e.of[2].op # "dict" THEN of[2].v ELSE Plain
      any(f(_)) == \E i \in DOMAIN of : f(of[i].v)
      \* what the call does to which records
      did(kind) == IF recv.up /\ (recv.picked \/ arg.given \/ arg.picked) THEN {kind} ELSE {}
  IN CASE e.op = "name" -> [v |-> env[e.name], log |-> {}]
       [] e.op = "sudo"   -> [v |-> [recv EXCEPT !.up = TRUE], log |-> log]
       [] e.op = "unsudo" -> [v |-> [recv EXCEPT !.up = FALSE], log |-> log]
       [] e.op = "browse" -> [v |-> V(recv.up, arg.given \/ arg.picked \/ recv.picked, FALSE), log |-> log]
       [] e.op = "search" -> [v |-> V(recv.up, recv.up /\ (arg.given \/ arg.picked), FALSE), log |-> log \cup did("read")]
       [] e.op = "attr"   -> [v |-> V(recv.up, recv.picked, recv.given), log |-> log \cup did("read")]
       [] e.op = "read"   -> [v |-> Plain, log |-> log \cup did("read")]
       [] e.op \in Mutations -> [v |-> IF e.op = "create" THEN V(recv.up, FALSE, FALSE) ELSE Plain, log |-> log \cup did("change")]
       [] e.op \in {"self", "config", "const", "user", "get_param", "compare", "has group", "check"} -> [v |-> Plain, log |-> log]
       [] OTHER -> [v |-> V(any(LAMBDA x : x.up), any(LAMBDA x : x.picked), any(LAMBDA x : x.given)), log |-> log]

RECURSIVE Ends(_, _)
\* All ways through a body: [env, log, left].
Ends(body, s) ==
  IF body = <<>> \/ s.left THEN {s}
  ELSE LET st == Head(body)
           x  == Runs(st.expr, s.env)
           t  == [s EXCEPT !.log = @ \cup x.log]
           next == CASE st.do \in {"let", "for"} -> {[t EXCEPT !.env[st.name] = x.v]}
                     [] st.do = "call" -> {t}
                     [] st.do = "if"   -> {t} \cup Ends(st.body, t)
                     [] OTHER          -> {[t EXCEPT !.left = TRUE]}
           looped == IF st.do # "for" THEN next
                     ELSE {t} \cup UNION {{u} \cup Ends(st.body, [u EXCEPT !.env[st.name] = x.v]) :
                                            u \in UNION {Ends(st.body, n) : n \in next}}
       IN UNION {Ends(Tail(body), n) : n \in looped}

\* What a run of the method can do with elevated rights to what the caller picked.
Elevates(fn, locals) ==
  UNION {end.log : end \in
    Ends(fn.body, [env |-> [x \in fn.params \cup locals |-> IF x \in fn.params THEN V(FALSE, FALSE, TRUE) ELSE Plain],
                   log |-> {}, left |-> FALSE])}

\* What is searched is a model or a name that an assignment gives records that are spelled
\* out there: not the variable of a loop, nor a second name of other records.
SearchesAreNamed(fn) ==
  \A n \in {m \in OwnNodes(fn) : m.op \in Searches} : \A st \in OwnStatements(fn.body) :
    st.do \in {"let", "for"} /\ st.name \in RootName(n.of[1]) => st.do = "let" /\ RootName(st.expr) = {}
=============================================================================
