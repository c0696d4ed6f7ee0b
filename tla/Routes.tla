-------------------------------- MODULE Routes --------------------------------
(***************************************************************************)
(* The authentication a route runs with. A controller class is             *)
(*   [name, bases, route, auth, sudo, guarded]                             *)
(* for one method: whether the class has it as a route, the auth its       *)
(* decorator declares ("" when it says none, "unknown" when it computes    *)
(* it), whether its body elevates and whether it checks access. Classes    *)
(* are known by their position among all scanned classes; several may      *)
(* share a name, and a class often extends one of its own name.            *)
(***************************************************************************)
EXTENDS Naturals, SequencesExt

EndOfChain == {"Controller"}
Auths      == {"user", "public", "none"}

\* Scanned classes that may be the one a base names.
Named(classes, base, i) == SelectSeq([k \in DOMAIN classes |-> k], LAMBDA k : classes[k].name = base /\ k # i)

(***************************************************************************)
(* resolve_route_auth. An answer is an auth, "nothing" when no parent has  *)
(* the route, or "cycle" when the class is being resolved already; memo    *)
(* keeps the answers of the classes that are done.                         *)
(***************************************************************************)
RECURSIVE Inherited(_, _, _, _)

Effective(classes, i, memo, busy) ==
  IF classes[i].auth # "" THEN [answer |-> classes[i].auth, memo |-> memo]
  ELSE LET up == Inherited(classes, i, memo, busy)
       IN [up EXCEPT !.answer = IF @ = "nothing" THEN "user" ELSE @]

\* What the candidates for one base say.
Ask(classes, parents, memo, busy) ==
  FoldLeft(LAMBDA acc, p :
             LET said == IF classes[p].route THEN Effective(classes, p, acc.memo, busy)
                         ELSE Inherited(classes, p, acc.memo, busy)
             IN [answers |-> acc.answers \cup {said.answer}, memo |-> said.memo],
           [answers |-> {}, memo |-> memo], parents)

\* A bug to rule out: parents that disagree, and the first that answers wins.
AnyOf(answers) ==
  LET auths == answers \ {"nothing", "cycle"}
  IN IF auths # {} THEN CHOOSE a \in auths : TRUE ELSE IF "cycle" \in answers THEN "unknown" ELSE "nothing"

OneOf(answers) ==
  LET auths == answers \ {"nothing", "cycle"}
  IN IF auths # {} THEN IF \E a \in auths : auths = {a} THEN CHOOSE a \in auths : TRUE ELSE "unknown"
     ELSE IF "cycle" \in answers THEN "unknown" ELSE "nothing"

Inherited(classes, i, memo, busy) ==
  IF i \in DOMAIN memo THEN [answer |-> memo[i], memo |-> memo]
  ELSE IF i \in busy THEN [answer |-> "cycle", memo |-> memo]
  ELSE LET Look(acc, base) ==
             LET parents == Named(classes, base, i)
                 said    == Ask(classes, parents, acc.memo, busy \cup {i})
             IN IF acc.answer # "nothing" \/ (parents = <<>> /\ base \in EndOfChain) THEN acc
                ELSE IF parents = <<>> THEN [acc EXCEPT !.answer = "unknown"]
                ELSE [answer |-> OneOf(said.answers), memo |-> said.memo]
           found == FoldLeft(Look, [answer |-> "nothing", memo |-> memo], classes[i].bases)
       IN [found EXCEPT !.memo = (i :> found.answer) @@ @]

\* The routes of all classes, in order; each keeps what the earlier ones found out.
ResolveRouteAuth(classes) ==
  FoldLeft(LAMBDA acc, i :
             IF ~classes[i].route THEN acc
             ELSE LET said == Effective(classes, i, acc.memo, {})
                  IN [auth |-> (i :> (IF said.answer = "cycle" THEN "unknown" ELSE said.answer)) @@ acc.auth,
                      memo |-> said.memo],
           [auth |-> [i \in {} |-> ""], memo |-> [i \in {} |-> ""]],
           [i \in DOMAIN classes |-> i]).auth

Grade(class, auth) ==
  IF class.auth \in {"public", "none"} THEN IF class.guarded THEN "medium" ELSE "high"
  ELSE IF class.guarded THEN "low" ELSE "medium"

\* [class, auth, confidence] of the routes that elevate for anyone, or may.
CheckPublicControllerSudo(classes) ==
  LET auth == ResolveRouteAuth(classes)
  IN {[class |-> i, auth |-> auth[i], confidence |-> Grade(classes[i], auth[i])] :
        i \in {k \in DOMAIN auth : auth[k] \in {"public", "none", "unknown"} /\ classes[k].sudo}}
-----------------------------------------------------------------------------
(***************************************************************************)
(* What Odoo does: a base is one class, of the scan or from outside (0),   *)
(* and a route runs with the first auth declared along the method          *)
(* resolution order. A binding says which class each base is.              *)
(***************************************************************************)
FromOutside(classes, base) ==
  \A k \in DOMAIN classes : classes[k].name = base => base \in ToSet(classes[k].bases)
MayBe(classes, i, base) ==
  IF base \in EndOfChain THEN {-1}
  ELSE ToSet(Named(classes, base, i)) \cup IF FromOutside(classes, base) THEN {0} ELSE {}

Bindings(classes) ==
  LET places == UNION {{<<i, n>> : n \in DOMAIN classes[i].bases} : i \in DOMAIN classes}
      anywhere == UNION {MayBe(classes, q[1], classes[q[1]].bases[q[2]]) : q \in places}
  IN {b \in [places -> anywhere] : \A q \in places : b[q] \in MayBe(classes, q[1], classes[q[1]].bases[q[2]])}

RECURSIVE Order(_, _, _, _)
\* The resolution order, <<>> when the binding makes a class its own ancestor.
Order(classes, b, i, below) ==
  IF i \in below THEN <<i, i>>
  ELSE IF i < 1 THEN <<i>>
  ELSE <<i>> \o FoldLeft(LAMBDA acc, n : acc \o Order(classes, b, b[<<i, n>>], below \cup {i}), <<>>,
                         [n \in DOMAIN classes[i].bases |-> n])

\* No class twice: the order is Python's, and no route is inherited over two paths.
Straight(classes, b, i) ==
  LET order == SelectSeq(Order(classes, b, i, {}), LAMBDA k : k > 0)
  IN Cardinality(ToSet(order)) = Len(order)

\* The auths the route of class i may be served with.
Served(classes, b, i) ==
  LET order   == Order(classes, b, i, {})
      decides == SelectSeq(order, LAMBDA k : k = 0 \/ (k > 0 /\ classes[k].route /\ classes[k].auth # ""))
  IN IF decides = <<>> THEN {"user"}
     ELSE IF Head(decides) = 0 \/ classes[Head(decides)].auth = "unknown" THEN Auths
     ELSE {classes[Head(decides)].auth}

\* The class that a name first belongs to is scanned, if any of that name is; where a base
\* names several classes each of them has the route; and where a class has several bases,
\* a route says its auth where it begins.
BasesAreKnown(classes) ==
  \A i \in DOMAIN classes :
    /\ FromOutside(classes, classes[i].name) => classes[i].name \notin ToSet(classes[i].bases)
    /\ \A base \in ToSet(classes[i].bases) :
         LET parents == Named(classes, base, i)
         IN Len(parents) > 1 => \A p \in ToSet(parents) : classes[p].route
    /\ Len(classes[i].bases) > 1 =>
         \A k \in DOMAIN classes : ToSet(classes[k].bases) \subseteq EndOfChain => ~classes[k].route \/ classes[k].auth # ""
=============================================================================
