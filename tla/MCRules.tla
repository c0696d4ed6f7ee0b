------------------------------- MODULE MCRules -------------------------------
(* Small inputs of every rule. *)
EXTENDS Rules, Sequences
-----------------------------------------------------------------------------
(* Functions with one judged call in, or beside, a loop over r. *)

X(op, of) == [op |-> op, name |-> "", of |-> of]
N(n) == [op |-> "name", name |-> n, of |-> <<>>]
Self == X("self", <<>>)
Const == X("const", <<>>)
Comp(elt, it) == [op |-> "comprehension", name |-> "q", of |-> <<elt, it>>]
Judged(op, recv, arg) == [op |-> op, name |-> "judged", of |-> <<recv, arg>>]
St(do, name, expr, body) == [do |-> do, name |-> name, expr |-> expr, body |-> body]

LoopReceivers == {Self, N("r"), N("y"), X("context", <<Self, N("x")>>), X("context", <<N("r"), N("x")>>)}
LoopArgs == {Const, N("x"), N("r"), Comp(N("q"), N("x")), Comp(N("x"), N("r")), X("helper", <<Const>>),
         X("now", <<>>), X("len", <<N("q")>>), [op |-> "walrus", name |-> "x", of |-> <<Const>>]}
LoopOrmCalls ==
  {Judged(op, r, a) : op \in {"search", "write", "create"}, r \in LoopReceivers, a \in {Const, N("x")}}
  \cup {Judged(op, Self, a) : op \in {"search", "write", "create"}, a \in LoopArgs}
  \cup {Judged(op, Self, Const) : op \in {"page", "aggregate"}}

Alone(c) == St("call", "", c, <<>>)
Around(c) == {<<Alone(c)>>, <<St("let", "y", c, <<>>)>>, <<St("if", "", Const, <<Alone(c)>>)>>,
              <<St("with", "x", Const, <<Alone(c)>>)>>, <<Alone(X("and", <<Const, c>>))>>,
              <<Alone(Comp(c, Self))>>, <<St("for", "q", c, <<>>)>>}
Others == {St("let", "x", N("r"), <<>>), St("let", "x", X("len", <<Const>>), <<>>),
           St("append", "x", Const, <<>>), St("store", "r", Const, <<>>), Alone(X("helper", <<Const>>)),
           Alone(X("write", <<Self, Const>>)), St("if", "", Const, <<St("leave", "", Const, <<>>)>>)}
Single == UNION {Around(c) : c \in LoopOrmCalls}
After  == {o \in Others : o.do \in {"append", "store", "if"}}
Mixed  == {<<o>> \o a : o \in Others, a \in Single} \cup {a \o <<o>> : o \in After, a \in Single}

Over(r, it, body) == St("for", r, it, body)
Search == St("let", "y", X("search", <<Self, Const>>), <<>>)
MCLoopBodies ==
  {<<Search, Over("r", it, b)>> : it \in {Self, N("y")}, b \in Single}
  \cup {<<Search, Over("r", Self, b)>> : b \in Mixed}
  \cup {<<St("while", "", Const, b)>> : b \in Single}
  \cup {<<Over("r", X("literal", <<>>), b)>> : b \in Single}
  \cup {<<Over("q", Self, <<o, Over("r", it, b)>>)>> :
           it \in {Self, N("q")}, o \in {St("let", "x", N("q"), <<>>), Alone(Const)}, b \in Single}
-----------------------------------------------------------------------------
(* Methods with a parameter x that pick, elevate and use records in three steps. *)

Arguments == {Const, N("x"), X("dict", <<N("x")>>), X("plain", <<N("x")>>)}
Chained(from) ==
  {X(op, <<r, a>>) : op \in {"browse", "search"}, r \in from, a \in {Const, N("x")}}
  \cup {X(op, <<r>>) : op \in {"sudo", "unsudo", "attr"}, r \in from}
Uses(from) ==
  {X("write", <<r, a>>) : r \in from, a \in Arguments} \cup {X("create", <<r, N("x")>>) : r \in from}
  \cup {X("unlink", <<r>>) : r \in from} \cup {X("read", <<r, Const>>) : r \in from} \cup {X("attr", <<r>>) : r \in from}
One   == Chained({Self, N("x")})
Two   == Chained(Chained({Self}))
Ending == Uses({N("v"), N("w")})
         \cup {X("write", <<X("sudo", <<N("v")>>), N("w")>>), X("unlink", <<X("browse", <<N("v"), N("w")>>)>>),
               X("attr", <<X("sudo", <<X("browse", <<Self, N("v")>>)>>)>>), X("read", <<X("search", <<N("v"), N("x")>>), Const>>)}
Between ==
  {<<>>, <<St("let", "w", X("sudo", <<N("v")>>), <<>>)>>, <<St("let", "w", X("browse", <<N("v"), N("x")>>), <<>>)>>,
   <<St("let", "w", X("attr", <<N("v")>>), <<>>)>>, <<St("let", "x", Const, <<>>)>>,
   <<St("if", "", Const, <<St("let", "v", Self, <<>>)>>)>>,
   <<St("if", "", X("compare", <<X("attr", <<N("v")>>), X("user", <<>>)>>), <<St("leave", "", Const, <<>>)>>)>>,
   <<St("if", "", X("compare", <<X("attr", <<N("v")>>), Const>>), <<St("leave", "", Const, <<>>)>>)>>,
   <<St("call", "", X("check", <<N("v"), Const>>), <<>>)>>, <<St("let", "w", X("helper", <<N("v")>>), <<>>)>>,
   <<St("call", "", X("get_param", <<X("sudo", <<X("config", <<>>)>>), Const>>), <<>>)>>}
Method(body) == [base |-> "model", named |-> TRUE, routed |-> FALSE, name |-> "public", auth |-> "", params |-> {"x"}, body |-> body]
Mine == Method(<<St("call", "", X("unlink", <<X("sudo", <<X("browse", <<Self, N("x")>>)>>)>>), <<>>)>>)
MCMethods ==
  {Method(<<St("let", "v", a, <<>>)>> \o b \o <<St("call", "", c, <<>>)>>) : a \in One, b \in Between, c \in Ending}
  \cup {Method(<<St("let", "v", a, <<>>)>> \o b \o <<St("call", "", c, <<>>)>>) :
           a \in Two, b \in {x \in Between : x = <<>> \/ x[1].name = "w"}, c \in Ending}
  \cup {Method(<<St("for", "v", a, <<St("call", "", c, <<>>)>>)>>) : a \in One, c \in Ending}
  \cup {Method(<<St("call", "", c, <<>>)>>) : c \in Uses(Chained(Chained({Self})))}
  \cup {[Mine EXCEPT !.base = base, !.named = named, !.routed = routed, !.name = name, !.auth = auth] :
          base \in {"model", "controller", "other"}, named \in BOOLEAN, routed \in BOOLEAN,
          name \in {"public", "private", "override", "hook"}, auth \in {"user", "public", "none", "unknown"}}
-----------------------------------------------------------------------------

\* Expressions over the caller's x, a local q and what the code or a record gives.
E(op, of)   == [op |-> op, of |-> of, name |-> ""]
Name(n)     == [op |-> "name", of |-> <<>>, name |-> n]
Text        == E("constant", <<>>)
Leaves      == {Text, Name("x"), Name("y"), E("metadata", <<>>), E("own field", <<>>)}
Unary       == {"attribute", "call", "f-string", "str", "item", "SQL", "number"}
Binary      == {"plus", "percent", "percent of number", "repeat", "join", "either", "select"}
Compounds(from) ==
  {E(op, <<e>>) : op \in Unary, e \in from}
  \cup {E(op, <<e, l>>) : op \in Binary, e \in from, l \in {Text, Name("x")}}
  \cup {[op |-> "comprehension", of |-> <<e, f>>, name |-> "y"] : e \in from, f \in {Name("y"), E("f-string", <<Name("y")>>)}}

\* Statements on a local q.
S(do, name, expr, blocks) == [do |-> do, name |-> name, expr |-> expr, blocks |-> blocks]
Execute(e)  == S("execute", "sql", e, <<>>)
Hand(f, e)  == S("hand", f, e, <<>>)
Let(n, e)   == S("assign", n, e, <<>>)
Block(do, n, e, blocks) == S(do, n, e, blocks)
Simple == {Let("q", Text), Let("q", Name("x")), Let("q", E("f-string", <<Name("x")>>)),
           Let("y", Name("q")), Let("q", Name("y")), S("plus", "q", Name("x"), <<>>),
           S("append", "q", Name("y"), <<>>), S("extend", "q", Name("x"), <<>>), Execute(Name("q"))}
Blocks == {<<s>> : s \in Simple} \cup {<<s, t>> : s \in Simple, t \in {Let("y", Name("q")), Let("q", Text), Execute(Name("q"))}}
Compound ==
  {Block("if", "", Text, <<a, b>>) : a \in Blocks, b \in {<<>>, <<Let("q", Text)>>, <<Let("q", Name("x"))>>}}
  \cup {Block("while", "", Text, <<a>>) : a \in Blocks}
  \cup {Block("for", "y", Name("x"), <<a>>) : a \in Blocks}
  \cup {Block("choice", "q", Text, <<Append(a, S("return", "", Text, <<>>))>>) : a \in Blocks}
  \cup {Block("try", "", Text, <<a, b, <<Execute(Name("y"))>>>>) : a \in Blocks, b \in {<<>>, <<Execute(Name("q"))>>}}
  \cup {Block("with", "q", Name("x"), <<a>>) : a \in Blocks}
Starts == {Let("q", Text), Let("q", Name("x")), Let("q", E("f-string", <<Name("x")>>))}
MCBodies ==
  {<<Let("y", Text), Execute(e)>> : e \in Compounds(Compounds(Leaves))}
  \cup {<<Let("y", Text), s, c, Execute(Name("q"))>> : s \in Starts, c \in Compound}

\* Five functions, each of which may hand its parameter, a text made of it, or a constant on.
Chain == <<"f1", "f2", "f3", "f4", "f5">>
Query == E("f-string", <<Name("q")>>)
Onward(i) == {<<>>} \cup {<<Hand(Chain[j], e)>> : j \in {k \in {i + 1, i + 2} : k <= 5}, e \in {Name("x"), Text}}
Fn(entry, muted, body) == [entry |-> entry, muted |-> muted, body |-> body]
Calls5 == {<<a, b, c, d, <<>>>> : a \in Onward(1), b \in Onward(2), c \in Onward(3), d \in Onward(4)}
SqlFile(calls, entries, mute, source) ==
  [fn \in ToSet(Chain) |->
     LET i == CHOOSE k \in 1..5 : Chain[k] = fn
     IN Fn(i \in entries, i = mute,
           calls[i] \o (IF i \in {3, 5} THEN <<Let("q", source), Execute(Query)>> ELSE <<>>))]
MCSqlFiles ==
  {SqlFile(calls, entries, mute, source) :
     calls \in Calls5, entries \in {{1}, {1, 2}}, mute \in {0, 3}, source \in {Name("x"), E("own field", <<>>)}}

\* Functions over a parameter x, a list l and a name n.
D(do, name, e, maybe) == [do |-> do, name |-> name, expr |-> e, maybe |-> maybe]
Lists  == {E("literal", <<Text>>), E("literal", <<Name("x")>>), E("data", <<Name("f")>>)}
Picks  == {E("item", <<Name("l")>>), E("own name", <<Name("f")>>), E("prefixed", <<Text, Name("x")>>),
           E("joined", <<Name("x"), Text>>), E("strip", <<Name("x")>>), E("table", <<Name("x")>>)}
Steps  == {D("let", "n", e, maybe) : e \in Picks, maybe \in BOOLEAN}
          \cup {D("each", "n", e, FALSE) : e \in {Name("l"), Name("x"), E("literal", <<Text>>)}}
          \cup {D("reshape", v, Name("x"), FALSE) : v \in {"n", "l"}}
          \cup {D("let", "x", E("literal", <<Text>>), TRUE), D("let", "l", Name("x"), TRUE)}
          \cup {D(do, "", Name("n"), FALSE) : do \in {"test", "dir"}}
MCNames == {"x", "l", "n", "f"}
Unclear == E("data", <<Name("f")>>)
Called  == {Name("n"), E("item", <<Name("l")>>), E("joined", <<Name("n"), Unclear>>), E("data", <<Name("l")>>)}
NoLevels == <<>>
MCLevels == <<{Text, Name("x"), Name("l"), Name("n"), Name("f")}, {E("literal", <<Text>>), Unclear} \cup Lists \cup Picks, Called>>
MCDispatchers ==
  {[public |-> public, params |-> {"x"}, hooks |-> hooks, consts |-> {"TABLE"},
    body |-> <<D("let", "l", l, FALSE), s, t, D("dispatch", "", e, FALSE)>>] :
     public \in BOOLEAN, hooks \in {{}, {"x"}}, l \in Lists, s \in Steps, t \in Steps,
     e \in Called}

\* Two addons, three classes, of models a, b and c.
With1(kind) == [k \in Kinds |-> IF k = kind THEN {Asked} ELSE {}]
Bare == [k \in Kinds |-> {}]
Class(name, inherit, delegates, members) ==
  [name |-> name, inherit |-> inherit, delegates |-> delegates, members |-> members, base |-> "model"]
MCClasses ==
  {Class("a", <<>>, {}, Bare), Class("a", <<"b">>, {}, Bare), Class("a", <<>>, {"b"}, Bare),
   Class("a", <<"a">>, {}, Bare), Class("a", <<"a", "b">>, {}, Bare),
   Class("", <<"a">>, {}, With1("field")), Class("", <<"a", "b">>, {}, Bare), Class("", <<"a", "?">>, {}, Bare),
   Class("", <<"?">>, {}, With1("method")), Class("", <<"?", "b">>, {}, With1("field")),
   Class("b", <<>>, {}, With1("field")), Class("b", <<"a">>, {}, With1("method")),
   Class("", <<"b">>, {}, With1("method")), Class("b", <<"c">>, {}, Bare),
   Class("c", <<>>, {}, With1("field")), Class("?", <<>>, {}, With1("field")), Class("?", <<"b">>, {}, Bare)}
MCStubs ==
  {[models |-> [m \in {"b"} |-> Bare], complete |-> complete] : complete \in BOOLEAN}
  \cup {[models |-> [m \in {"c"} |-> With1("field")], complete |-> TRUE]}
MCProjects ==
  {<<<<[name |-> "m1", classes |-> <<x, y>>], [name |-> "m2", classes |-> <<z>>]>>, stubs>> :
     x, y, z \in MCClasses, stubs \in MCStubs}
\* The same with every name written out, beside stubs that are partial, as the packaged are.
MCWrittenOut == {p \in MCProjects : ~p[2].complete /\ \A c \in Classes(p[1]) : "?" \notin {c.name} \cup ToSet(c.inherit)}

\* The addon that is judged, a scanned one, a core module and one nobody reads.
Modules == {"own", "peer", "core", "far"}
Creates == Class("x", <<>>, {}, Bare)
Extends == Class("", <<"x">>, {}, Bare)
Repeats == Class("x", <<"x">>, {}, Bare)
World(scanned, indexed, own, peer, core, packaged, extends, creator, repeats, refs) ==
  [scanned |-> scanned, indexed |-> indexed,
   depends |-> [m \in Modules |-> CASE m = "own" -> own [] m = "peer" -> peer [] m = "core" -> core [] OTHER -> {}],
   packages |-> [m \in Modules |-> IF m = packaged THEN {"pkg"} ELSE {}],
   classes |-> [m \in Modules |-> (IF m = "own" THEN <<extends>> ELSE <<>>)
                  \o (IF m = creator THEN <<Creates>> ELSE <<>>) \o (IF m \in repeats THEN <<Repeats>> ELSE <<>>)],
   table |-> [x \in IF creator = "core" THEN {"x"} ELSE {} |-> "core"],
   refs |-> refs, imports |-> {"pkg"}]
MCWorlds ==
  {World(scanned, indexed, own, peer, core, how[1], how[2], how[3], how[4], {"peer"}) :
     scanned \in {<<"own", "peer">>, <<"peer", "own">>}, indexed \in {{}, {"core"}},
     own \in SUBSET {"peer", "core", "far"}, peer \in SUBSET {"core", "far"}, core \in SUBSET {"peer", "far"},
     how \in {<<packaged, Extends, "peer", {}>> : packaged \in {"core", "far"}}
             \cup ({"peer"} \X {Extends, Repeats} \X {"peer", "core", "far"} \X {{}, {"peer"}})}

\* Two or three classes of two models that share an external id and of one with a longer name,
\* another addon or a stub that has one of them, and up to two rows.
Spelling == ("a.b" :> [words |-> <<"a", "b">>, seps |-> <<".">>]) @@ ("a_b" :> [words |-> <<"a", "b">>, seps |-> <<"_">>])
            @@ ("a.b_c" :> [words |-> <<"a", "b", "c">>, seps |-> <<".", "_">>])
            @@ ("a.b_c.d" :> [words |-> <<"a", "b", "c", "d">>, seps |-> <<".", "_", ".">>])
OfBase(c, base) == [c EXCEPT !.base = base]
Bases == {"model", "transient", "abstract"}
SiteClasses == {OfBase(c, base) : base \in Bases,
  c \in UNION {{Class(n, <<>>, {}, Bare), Class("", <<n>>, {}, Bare), Class(n, <<n>>, {}, Bare)} : n \in {"a.b", "a_b", "a.b_c"}}}
LongClasses == {Class("a.b_c.d", <<>>, {}, Bare), Class("?", <<>>, {}, Bare)}
Row(words, module, group, perms) ==
  [words |-> words, module |-> module, group |-> group,
   write |-> "write" \in perms, create |-> "create" \in perms, unlink |-> "unlink" \in perms]
SiteRows == UNION {{Row(words, "", "", {"create"}), Row(words, "", "", {"create", "unlink"}), Row(words, "core", "g", {"write"})} :
                     words \in {<<"a", "b">>, <<"a", "b", "c">>}}
Site(own, peer, known, rows) == [own |-> own, peer |-> peer, known |-> known, spelt |-> Spelling, rows |-> rows]
MCSites ==
  {Site(<<c, d>>, peer, {}, rows) : c, d \in SiteClasses,
     peer \in {<<>>, <<OfBase(Class("a.b", <<>>, {}, Bare), "transient")>>},
     rows \in {<<>>} \cup {<<r>> : r \in SiteRows}}
  \cup {Site(<<c, d>>, <<>>, {"a.b"}, <<r, t>>) : c \in SiteClasses, d \in LongClasses,
          r, t \in SiteRows \cup {Row(<<"a", "b", "c", "d">>, "", "", {"write"})}}

MCCoreRefs ==
  [scanned : BOOLEAN, guarded : BOOLEAN, declared : BOOLEAN,
   target : {"no index", "no module", "no such thing", "there"},
   older : SUBSET {"no module", "no such thing", "there"}]

\* Three controller classes, the last two under any of the names.
Controller(name, bases, how) ==
  [name |-> name, bases |-> bases, route |-> how # "no route",
   auth |-> IF how \in {"no route", "bare"} THEN "" ELSE how, sudo |-> TRUE, guarded |-> FALSE]
Hows == {"no route", "bare", "user", "public"}
MCControllers ==
  {<<Controller("A", x, h1), Controller(n, y, h2), Controller(m, z, h3)>> :
     x \in {<<"Controller">>, <<"X">>, <<"A">>}, n \in {"A", "B"}, m \in {"A", "B", "C"},
     y \in {<<"A">>, <<"B">>, <<"X", "A">>, <<"A", "X">>}, z \in {<<"A">>, <<"B">>, <<"A", "B">>, <<"A", "X">>},
     h1, h2, h3 \in Hows}

\* Views of a model with the fields a, lines and g, whose lines have b and c: alone, or put into
\* a form or a list.
Node(tag, name, kids) == [tag |-> tag, name |-> name, path |-> <<>>, position |-> "", kids |-> kids]
Leaf(tag, name) == Node(tag, name, <<>>)
Inline  == Node("field", "lines", <<Node("list", "", <<Leaf("field", "b"), Node("div", "", <<Leaf("button", "do")>>)>>)>>)
FormOf  == <<Node("form", "", <<Leaf("field", "a"), Node("page", "p", <<Inline, Leaf("field", "g")>>)>>)>>
ListOf  == <<Node("list", "", <<Leaf("field", "a"), Node("groupby", "g", <<Leaf("field", "b")>>)>>)>>
Step(tag, name, deep) == [tag |-> tag, name |-> name, deep |-> deep]
Paths ==
  {<<Step("field", f, TRUE)>> : f \in {"a", "b", "lines"}}
  \cup {<<Step(root, "", FALSE)>> \o rest : root \in {"form", "list"},
         rest \in {<<>>, <<Step("field", "a", FALSE)>>, <<Step("page", "p", FALSE)>>,
                   <<Step("page", "", FALSE), Step("field", "lines", FALSE)>>,
                   <<Step("page", "", FALSE), Step("field", "lines", FALSE), Step("list", "", FALSE)>>,
                   <<Step("page", "p", FALSE), Step("field", "lines", FALSE), Step("list", "", FALSE), Step("field", "b", FALSE)>>,
                   <<Step("groupby", "", FALSE), Step("field", "b", FALSE)>>}}
  \cup {<<Step("list", "", TRUE), Step("field", f, FALSE)>> : f \in {"a", "b"}}
Put(path, position, kids) == [Node("xpath", "", kids) EXCEPT !.path = path, !.position = position]
Shown == {<<Leaf("field", "new")>>, <<Leaf("button", "do")>>, <<Node("field", "lines", <<Node("list", "", <<Leaf("field", "new")>>)>>)>>,
          <<Node("page", "", <<Leaf("field", "b")>>), Leaf("field", "a")>>}
Insertions2 == {Put(path, position, kids) : path \in Paths, position \in {"after", "inside", "replace"}, kids \in Shown}
ViewOn(parent, arch, complete) ==
  [parent |-> parent, arch |-> arch, complete |-> complete,
   has |-> [field |-> {"a", "lines", "g"}, button |-> {"act"}]]
MCViewFiles ==
  {ViewOn(<<>>, arch, complete) : arch \in {FormOf, ListOf}, complete \in BOOLEAN}
  \cup {ViewOn(parent, <<x>>, complete) : parent \in {FormOf, ListOf}, x \in Insertions2, complete \in BOOLEAN}
  \cup {ViewOn(FormOf, <<x, y>>, TRUE) : x \in {z \in Insertions2 : z.position = "after"}, y \in {z \in Insertions2 : z.position = "after"}}
  \cup {ViewOn(parent, <<[Leaf("field", f) EXCEPT !.position = "after", !.kids = kids]>>, TRUE) :
          parent \in {FormOf, ListOf}, f \in {"a", "b"}, kids \in {<<>>}}

\* Up to three declarations of an id.
Decl(tag, model, written, sequenced, value) ==
  [tag |-> tag, model |-> model, fields |-> written, sequenced |-> sequenced, nested |-> FALSE, inside |-> FALSE, value |-> value]
Decls(value) ==
  {Decl("record", model, written, sequenced, value) :
     model \in {"ir.ui.view", "theme.ir.ui.view", "ir.ui.menu", ""}, written \in SUBSET {"sequence", "mode"},
     sequenced \in BOOLEAN}
  \cup {Decl(tag, "", written, FALSE, value) : tag \in {"template", "menuitem", "function", "delete"},
                                           written \in {{}, {"mode"}}}
  \cup {[Decl("record", "ir.ui.view", {"name"}, FALSE, value) EXCEPT !.inside = TRUE]}
MCIdFiles == {<<d, e, f>> : d \in Decls(1), e \in Decls(2),
               f \in {x \in Decls(3) : x.tag = "record" /\ x.model = "ir.ui.view" /\ ~x.sequenced}}

\* Records with up to two nodes to migrate, in each kind of view, and actions.
ViewPart(tag, name, kids) ==
  [tag |-> tag, name |-> name, attrs |-> {}, modes |-> <<>>, ref |-> FALSE, path |-> <<>>, text |-> FALSE, kids |-> kids]
Chatter(attrs, kids) == [ViewPart("div", "", kids) EXCEPT !.attrs = {"oe_chatter"} \cup attrs]
Follows == ViewPart("field", "message_ids", <<>>)
Path2(path, kids) == [ViewPart("xpath", "", kids) EXCEPT !.path = path]
Parts ==
  {ViewPart("field", f, <<>>) : f \in {"a", "groups_id", "category_id"}}
  \cup {[ViewPart("field", "lines", kids) EXCEPT !.modes = modes, !.ref = ref] :
          kids \in {<<>>, <<ViewPart("tree", "", <<ViewPart("field", "users", <<>>)>>)>>}, modes \in {<<>>, <<"tree", "form", "tree">>}, ref \in BOOLEAN}
  \cup {Chatter({}, <<Follows>>), Chatter({"groups"}, <<>>), Chatter({}, <<Follows, [Follows EXCEPT !.attrs = {"groups"}]>>),
        Chatter({}, <<ViewPart("field", "users", <<>>)>>), ViewPart("page", "", <<Chatter({}, <<>>)>>)}
  \cup {[ViewPart("group", "", kids) EXCEPT !.attrs = attrs] : attrs \in {{"string"}, {"expand", "name"}}, kids \in {<<>>, <<ViewPart("filter", "", <<>>)>>}}
FieldStep(f) == [tag |-> "field", name |-> f]
Steps2 == {<<[tag |-> "tree", name |-> ""], FieldStep("groups_id")>>, <<FieldStep("users")>>, <<FieldStep("users"), FieldStep("users")>>, <<FieldStep("a"), FieldStep("groups_id")>>}
Arches == {<<ViewPart(root, "", kids)>> : root \in {"tree", "form", "search"}, kids \in {<<x>> : x \in Parts} \cup {<<x, y>> : x, y \in Parts}}
          \cup {<<Path2(path, <<x>>), [Path2(<<FieldStep("users")>>, <<>>) EXCEPT !.ref = ref]>> : path \in Steps2, x \in Parts, ref \in BOOLEAN}
Entry2(model, of, type, modes, evals, written, arch) ==
  [model |-> model, of |-> of, type |-> type, modes |-> modes, evals |-> evals, fields |-> written, arch |-> arch]
ModeLists == {<<>>, <<"tree">>, <<"form", "tree">>, <<"tree", "kanban", "tree">>}
MCRecords ==
  {Entry2("view", of, type, <<>>, <<>>, written, arch) :
     of \in {"res.users", "res.groups"}, type \in {"", "tree", "qweb"}, written \in {{}, {"groups_id", "name"}}, arch \in Arches}
  \cup {Entry2(model, "", "", modes, <<[modes |-> e, escaped |-> escaped]>>, written, <<>>) :
          model \in {"action", "action view"}, modes \in ModeLists, e \in ModeLists, escaped \in BOOLEAN, written \in {{}, {"groups_id"}}}
  \cup {Entry2("res.groups", "", "", <<>>, <<>>, written, <<>>) : written \in SUBSET {"users", "category_id", "name"}}
=============================================================================
