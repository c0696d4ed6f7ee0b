------------------------------- MODULE MCEditor -------------------------------
(* A Python file, a manifest, a view and a file of another kind, in an editor. *)
EXTENDS EditorActions

Stmt(code, hits, fix) == [Blank EXCEPT !.code = code, !.hits = hits, !.fix = fix]
Remark(rules)  == [Blank EXCEPT !.mute = rules, !.whole = TRUE]
Trailing(says, rules) == [says EXCEPT !.mute = rules]
Leaving(says)  == [says EXCEPT !.leaves = TRUE]
Tag(code, hits, fix) == [Stmt(code, hits, fix) EXCEPT !.begins = TRUE]
Shebang == [Blank EXCEPT !.code = "#!", !.first = TRUE]
Doc(lang, texts, pinned, mends) ==
  [lang |-> lang, pinned |-> pinned, mends |-> mends,
   lines |-> [i \in DOMAIN texts |-> [id |-> i, says |-> texts[i]]]]

Commit == Stmt("commit", {"r1"}, {})
Search == Stmt("search", {"r1", "r2"}, {"r2"})
MCDocuments ==
  {Doc("py", <<Shebang, Search, Remark({"r2"}), Search>>, {}, {}),
   Doc("py", <<Commit, Commit, Trailing(Stmt("pass", {}, {}), {"r1"}), Search>>, {}, {}),
   Doc("py", <<Leaving(Commit), Search, Leaving(Stmt("end", {"r2"}, {})), Commit>>, {}, {}),
   Doc("py", <<[Stmt("x", {}, {}) EXCEPT !.glued = TRUE], Commit, Remark({"r1"}), Search>>, {}, {}),
   Doc("py", <<Stmt("manifest", {}, {}), Stmt("data", {"r1"}, {"r1"})>>, {"r3", "r4"}, {"r3"}),
   Doc("xml", <<[Tag("?", {}, {}) EXCEPT !.first = TRUE], Leaving(Tag("view", {"r1"}, {})), Leaving(Stmt("attr", {"r2"}, {})),
                 Tag("tree", {"r1", "r2"}, {"r1"})>>, {}, {}),
   Doc("xml", <<Tag("odoo", {}, {}), [Remark({"r1"}) EXCEPT !.begins = TRUE], Stmt("text", {"r1", "r2"}, {}), Tag("tree", {"r1"}, {})>>, {}, {}),
   Doc("csv", <<Stmt("a", {"r1"}, {}), Stmt("b", {}, {})>>, {}, {})}
MCTyping == {Commit, Remark({"r1"}), Leaving(Stmt("x", {}, {})), [Stmt("x", {}, {}) EXCEPT !.glued = TRUE],
             [Remark({}) EXCEPT !.wide = {"r1"}], Tag("tree", {"r1"}, {})}
=============================================================================
