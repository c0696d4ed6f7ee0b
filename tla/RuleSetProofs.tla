---------------------------- MODULE RuleSetProofs ----------------------------
(***************************************************************************)
(* For any configuration files and any edits of them, by any number of     *)
(* processes: an edit puts one rule into a list or takes it out and keeps  *)
(* everything else, and the folders below a file follow its list.  For any *)
(* installed plugins: the registry holds the built-in rules and those of   *)
(* the plugins that ran to their end, and nothing of one that failed.      *)
(* Also some of the rules: what the silence of duplicate-xml-id means for  *)
(* any declarations, and that of dynamic-method-dispatch for any function; *)
(* what the rules that compare an addon with the project graph are certain *)
(* of, and what the resolver calls absent, for any addons.                 *)
(***************************************************************************)
EXTENDS RuleSet, SetInduction, XmlIds, Dispatch, GraphRules, Resolver, SequenceTheorems, FiniteSetTheorems,
        TLAPS

\* A set of numbers that is bounded has a last one.
LEMMA MaxIsLast ==
  ASSUME NEW n \in Nat, NEW S \in SUBSET (0..n), S # {}
  PROVE  Max(S) \in S /\ \A x \in S : x <= Max(S)
<1> DEFINE D == {n - x : x \in S}
<1>1. D \in SUBSET Nat /\ D # {}
  <2>1. \A x \in S : n - x \in Nat
    OBVIOUS
  <2> QED BY <2>1
<1>2. PICK d \in D : \A y \in D : d <= y
  BY <1>1, LeastNat
<1>3. PICK m \in S : d = n - m
  BY <1>2
<1>4. ASSUME NEW x \in S PROVE m >= x
  <2>1. n - x \in D
    OBVIOUS
  <2>2. n - m <= n - x
    BY <1>2, <1>3, <2>1
  <2>3. m \in 0..n /\ x \in 0..n
    OBVIOUS
  <2> HIDE DEF D
  <2> QED BY <2>2, <2>3
<1>5. Max(S) \in S /\ \A y \in S : Max(S) >= y
  BY <1>3, <1>4 DEF Max
<1> QED BY <1>5

\* The minimum of a set of numbers belongs to it and is at most every other.
LEMMA MinIsFirst ==
  ASSUME NEW S \in SUBSET Nat, S # {}
  PROVE  Min(S) \in S /\ \A x \in S : Min(S) <= x
  BY LeastNat DEF Min
\* What an insertion moves.
Put(p, q, d, x) ==
  \A i \in 1..(Len(q) + 1) : p[i] = IF i < d THEN q[i] ELSE IF i = d THEN x ELSE q[i - 1]

\* Inserting one item keeps the other items, in their order.
LEMMA InsertedAt ==
  ASSUME NEW S, NEW q \in Seq(S), NEW d \in 1..(Len(q) + 1), NEW x \in S
  PROVE  /\ InsertAt(q, d, x) \in Seq(S) /\ Len(InsertAt(q, d, x)) = Len(q) + 1
         /\ Put(InsertAt(q, d, x), q, d, x)
<1> DEFINE n == Len(q)
           a == SubSeq(q, 1, d - 1)
           b == SubSeq(q, d, n)
<1>1. n \in Nat /\ d \in 1..(n + 1)
  OBVIOUS
<1>2. a \in Seq(S) /\ Len(a) = d - 1 /\ \A i \in 1..(d - 1) : a[i] = q[i]
  OBVIOUS
<1>3. b \in Seq(S) /\ Len(b) = n - d + 1 /\ \A i \in 1..(n - d + 1) : b[i] = q[d + i - 1]
  OBVIOUS
<1>4. InsertAt(q, d, x) = (a \o <<x>>) \o b
  BY DEF InsertAt
<1> HIDE DEF a, b
<1> DEFINE c == a \o <<x>>
<1>5. c \in Seq(S) /\ Len(c) = d /\ \A i \in 1..d : c[i] = IF i < d THEN q[i] ELSE x
  BY <1>1, <1>2
<1> HIDE DEF c
<1>6. c \o b \in Seq(S) /\ Len(c \o b) = n + 1
  <2>1. c \o b \in Seq(S) /\ Len(c \o b) = Len(c) + Len(b)
    BY <1>3, <1>5, ConcatProperties
  <2>2. d + (n - d + 1) = n + 1
    BY <1>1
  <2> QED BY <1>3, <1>5, <2>1, <2>2
<1>7. ASSUME NEW i \in 1..(n + 1) PROVE (c \o b)[i] = IF i < d THEN q[i] ELSE IF i = d THEN x ELSE q[i - 1]
  <2>1. CASE i <= d
    BY <1>1, <1>3, <1>5, <2>1
  <2>2. CASE ~(i <= d)
    <3>1. (c \o b)[i] = b[i - d] /\ i - d \in 1..(n - d + 1)
      BY <1>1, <1>3, <1>5, <2>2
    <3>2. b[i - d] = q[d + (i - d) - 1]
      BY <1>3, <3>1
    <3>3. d + (i - d) - 1 = i - 1
      BY <1>1
    <3> QED BY <1>1, <2>2, <3>1, <3>2, <3>3
  <2> QED BY <2>1, <2>2
<1> QED BY <1>4, <1>6, <1>7 DEF c, Put
-----------------------------------------------------------------------------
(* The sections of a text *)

\* The headers of a text up to a line.
Headers(text, i) == {k \in 1..i : text.pieces[k].kind = "section"}

\* A piece of the file stands under the last header above it, or under none.
LEMMA SectionFound ==
  ASSUME NEW t \in TomlText, NEW i \in DOMAIN t.pieces
  PROVE  \/ Headers(t, i) = {} /\ SectionAt(t, i) = ""
         \/ \E k \in Headers(t, i) : (\A x \in Headers(t, i) : x <= k) /\ SectionAt(t, i) = t.pieces[k].name
<1>1. Headers(t, i) \in SUBSET (0..i) /\ 0 \notin Headers(t, i) /\ i \in Nat
  BY DEF Headers, TomlText
<1> DEFINE k == IF Headers(t, i) # {} THEN Max(Headers(t, i)) ELSE 0
<1>2. SectionAt(t, i) = IF k = 0 THEN "" ELSE t.pieces[k].name
  BY DEF SectionAt, SelectLastInSubSeq, Headers
<1>3. CASE Headers(t, i) = {}
  BY <1>2, <1>3
<1>4. CASE Headers(t, i) # {}
  <2>1. k \in Headers(t, i) /\ \A x \in Headers(t, i) : x <= k
    BY <1>1, <1>4, MaxIsLast
  <2> QED BY <1>1, <1>2, <2>1
<1> QED BY <1>3, <1>4

\* The last header before a line names its section.
LEMMA SectionNamed ==
  ASSUME NEW t \in TomlText, NEW i \in DOMAIN t.pieces, NEW k \in Headers(t, i),
         \A x \in Headers(t, i) : x <= k
  PROVE  SectionAt(t, i) = t.pieces[k].name
<1>1. PICK m \in Headers(t, i) : (\A x \in Headers(t, i) : x <= m) /\ SectionAt(t, i) = t.pieces[m].name
  BY SectionFound
<1>2. m <= k /\ k <= m /\ m \in Nat /\ k \in Nat
  BY <1>1 DEF Headers
<1> QED BY <1>1, <1>2

\* Two lines that have the same headers before them are in sections of one name.
LEMMA SameSection ==
  ASSUME NEW t \in TomlText, NEW u \in TomlText, NEW i \in DOMAIN t.pieces, NEW j \in DOMAIN u.pieces,
         NEW g,
         \A x \in Headers(u, j) : g[x] \in Headers(t, i) /\ u.pieces[x].name = t.pieces[g[x]].name,
         \A k \in Headers(t, i) : \E x \in Headers(u, j) : g[x] = k,
         \A x, y \in Headers(u, j) : x <= y => g[x] <= g[y]
  PROVE  SectionAt(u, j) = SectionAt(t, i)
<1>1. CASE Headers(u, j) = {}
  <2>1. Headers(t, i) = {}
    BY <1>1
  <2>2. SectionAt(t, i) = ""
    BY <2>1, SectionFound
  <2>3. SectionAt(u, j) = ""
    BY <1>1, SectionFound
  <2> QED BY <2>2, <2>3
<1>2. CASE Headers(u, j) # {}
  <2>1. PICK m \in Headers(u, j) : (\A x \in Headers(u, j) : x <= m) /\ SectionAt(u, j) = u.pieces[m].name
    BY <1>2, SectionFound
  <2>2. g[m] \in Headers(t, i) /\ \A k \in Headers(t, i) : k <= g[m]
    BY <2>1
  <2>3. SectionAt(t, i) = t.pieces[g[m]].name
    BY <2>2, SectionNamed
  <2> QED BY <2>1, <2>3
<1> QED BY <1>1, <1>2
-----------------------------------------------------------------------------
(* A list that is put into a text *)

\* The list of the ignored rules: where a text has one.
IsList(text, i) ==
  /\ i \in DOMAIN text.pieces /\ text.pieces[i].kind = "key" /\ text.pieces[i].name = "rules"
  /\ SectionAt(text, i) = "ignore"

\* u is t, with another list at d in the place of the one that t may have; g tells where a line of
\* u was in t.
Rearranges(g, t, u, d) ==
  /\ d \in DOMAIN u.pieces /\ u.pieces[d].kind = "key"
  /\ \A i \in DOMAIN u.pieces \ {d} : g[i] \in DOMAIN t.pieces /\ u.pieces[i] = t.pieces[g[i]]
  /\ \A i, k \in DOMAIN u.pieces \ {d} : i < k => g[i] < g[k]
  /\ \A k \in DOMAIN t.pieces : (\E i \in DOMAIN u.pieces \ {d} : g[i] = k) \/ IsList(t, k)

\* A rearrangement that adds one piece leaves every other piece in its section.
LEMMA RearrangedSection ==
  ASSUME NEW t \in TomlText, NEW u \in TomlText, NEW g, NEW d, Rearranges(g, t, u, d),
         NEW i \in DOMAIN u.pieces, i # d
  PROVE  SectionAt(u, i) = SectionAt(t, g[i])
<1> DEFINE Rest == DOMAIN u.pieces \ {d}
<1>1. /\ u.pieces \in Seq(Piece) /\ t.pieces \in Seq(Piece) /\ i \in Rest
      /\ \A x \in DOMAIN u.pieces : x \in Nat /\ x >= 1 /\ 1..x \subseteq DOMAIN u.pieces
      /\ \A x \in DOMAIN t.pieces : x \in Nat /\ x >= 1 /\ 1..x \subseteq DOMAIN t.pieces
  BY DEF TomlText
<1>2. \A x \in Rest : g[x] \in DOMAIN t.pieces /\ u.pieces[x] = t.pieces[g[x]]
  BY DEF Rearranges
<1>3. \A x, y \in Rest : x < y => g[x] < g[y]
  BY DEF Rearranges
<1>4. ASSUME NEW x \in Headers(u, i)
      PROVE  x \in Rest /\ g[x] \in Headers(t, g[i]) /\ u.pieces[x].name = t.pieces[g[x]].name
  <2>1. x \in DOMAIN u.pieces /\ x <= i /\ u.pieces[x].kind = "section"
    BY <1>1 DEF Headers
  <2>2. x \in Rest
    BY <2>1 DEF Rearranges
  <2>3. x = i \/ g[x] < g[i]
    BY <1>1, <1>3, <2>1, <2>2
  <2> QED BY <1>1, <1>2, <2>1, <2>2, <2>3 DEF Headers
<1>5. ASSUME NEW k \in Headers(t, g[i]) PROVE \E x \in Headers(u, i) : g[x] = k
  <2>1. k \in DOMAIN t.pieces /\ k <= g[i] /\ t.pieces[k].kind = "section"
    BY <1>1, <1>2 DEF Headers
  <2>2. PICK x \in Rest : g[x] = k
    BY <2>1 DEF Rearranges, IsList
  <2>3. ~(i < x)
    BY <1>1, <1>2, <1>3, <2>1, <2>2
  <2>4. x \in Headers(u, i)
    BY <1>1, <1>2, <2>1, <2>2, <2>3 DEF Headers
  <2> QED BY <2>2, <2>4
<1>6. ASSUME NEW x \in Headers(u, i), NEW y \in Headers(u, i), x <= y PROVE g[x] <= g[y]
  <2>1. x \in Rest /\ y \in Rest
    BY <1>4
  <2>2. x = y \/ g[x] < g[y]
    BY <1>1, <1>3, <1>6, <2>1
  <2> QED BY <1>1, <1>2, <2>1, <2>2
<1>7. g[i] \in DOMAIN t.pieces
  BY <1>1, <1>2
<1> QED BY <1>4, <1>5, <1>6, <1>7, SameSection

\* The other lines keep their sections and settings, and the list is the one at d.
LEMMA RearrangedText ==
  ASSUME NEW t \in TomlText, NEW u \in TomlText, NEW g, NEW d, Rearranges(g, t, u, d), IsToml(t),
         IsList(u, d), \A i \in DOMAIN u.pieces : IsList(u, i) => i = d
  PROVE  /\ IsToml(u)
         /\ OtherSettings(u) = OtherSettings(t)
         /\ <<"ignore", "rules", u.pieces[d].value>> \in Settings(u)
<1> DEFINE Rest == DOMAIN u.pieces \ {d}
<1>1. \A i \in Rest : /\ g[i] \in DOMAIN t.pieces /\ u.pieces[i] = t.pieces[g[i]]
                      /\ SectionAt(u, i) = SectionAt(t, g[i])
  BY RearrangedSection DEF Rearranges
<1>2. \A i, k \in Rest : i # k => g[i] # g[k]
  <2>1. \A i, k \in Rest : i < k => g[i] < g[k]
    BY DEF Rearranges
  <2>2. \A i \in Rest : i \in Nat /\ g[i] \in Nat
    BY <1>1 DEF TomlText
  <2> QED BY <2>1, <2>2
<1>3. ASSUME NEW i \in DOMAIN u.pieces, NEW k \in DOMAIN u.pieces, i # k, u.pieces[i].kind = u.pieces[k].kind
      PROVE  u.pieces[i].name # u.pieces[k].name \/ (u.pieces[i].kind = "key" /\ SectionAt(u, i) # SectionAt(u, k))
  <2>1. CASE i # d /\ k # d
    BY <1>1, <1>2, <1>3, <2>1 DEF IsToml
  <2>2. CASE i = d
    <3>1. ~IsList(u, k)
      BY <1>3, <2>2
    <3> QED BY <1>3, <2>2, <3>1 DEF IsList
  <2>3. CASE k = d
    <3>1. ~IsList(u, i)
      BY <1>3, <2>3
    <3> QED BY <1>3, <2>3, <3>1 DEF IsList
  <2> QED BY <2>1, <2>2, <2>3
<1>4. ASSUME NEW i \in DOMAIN u.pieces PROVE u.pieces[i].kind # "joined"
  BY <1>1 DEF IsToml, IsList
<1>5. IsToml(u)
  BY <1>3, <1>4 DEF IsToml
<1>6. <<"ignore", "rules", u.pieces[d].value>> \in Settings(u)
  BY DEF IsList, Settings
<1>7. ASSUME NEW s \in OtherSettings(u) PROVE s \in OtherSettings(t)
  <2>1. PICK i \in DOMAIN u.pieces : /\ u.pieces[i].kind = "key"
                                     /\ s = <<SectionAt(u, i), u.pieces[i].name, u.pieces[i].value>>
    BY DEF OtherSettings, Settings
  <2>2. s[1] = SectionAt(u, i) /\ s[2] = u.pieces[i].name /\ <<s[1], s[2]>> # <<"ignore", "rules">>
    BY <2>1 DEF OtherSettings
  <2>3. i # d
    BY <2>2 DEF IsList
  <2>4. s = <<SectionAt(t, g[i]), t.pieces[g[i]].name, t.pieces[g[i]].value>> /\ t.pieces[g[i]].kind = "key"
    BY <1>1, <2>1, <2>3
  <2>5. s \in Settings(t)
    BY <1>1, <2>3, <2>4 DEF Settings
  <2> QED BY <2>2, <2>5 DEF OtherSettings
<1>8. ASSUME NEW s \in OtherSettings(t) PROVE s \in OtherSettings(u)
  <2>1. PICK k \in DOMAIN t.pieces : /\ t.pieces[k].kind = "key"
                                     /\ s = <<SectionAt(t, k), t.pieces[k].name, t.pieces[k].value>>
    BY DEF OtherSettings, Settings
  <2>2. s[1] = SectionAt(t, k) /\ s[2] = t.pieces[k].name /\ <<s[1], s[2]>> # <<"ignore", "rules">>
    BY <2>1 DEF OtherSettings
  <2>3. PICK i \in Rest : g[i] = k
    BY <2>2 DEF Rearranges, IsList
  <2>4. s = <<SectionAt(u, i), u.pieces[i].name, u.pieces[i].value>> /\ u.pieces[i].kind = "key"
    BY <1>1, <2>1, <2>3
  <2>5. s \in Settings(u)
    BY <2>4 DEF Settings
  <2> QED BY <2>2, <2>5 DEF OtherSettings
<1> QED BY <1>5, <1>6, <1>7, <1>8

\* The rules that a text ignores.
Ignored(text) == BuildConfig(Settings(text)).ignored

\* What the settings say of them is read.
LEMMA SettingIsRead ==
  ASSUME NEW settings, NEW v, <<"ignore", "rules", v>> \in settings,
         \A s \in settings : s[1] = "ignore" /\ s[2] = "rules" => s[3] = v
  PROVE  BuildConfig(settings).ignored = v
<1> DEFINE c == CHOOSE s \in settings : s[1] = "ignore" /\ s[2] = "rules"
<1>1. \E s \in settings : s[1] = "ignore" /\ s[2] = "rules"
  <2>1. <<"ignore", "rules", v>>[1] = "ignore" /\ <<"ignore", "rules", v>>[2] = "rules"
    OBVIOUS
  <2> QED BY <2>1
<1>2. c \in settings /\ c[1] = "ignore" /\ c[2] = "rules"
  BY <1>1
<1>3. ValueOf(settings, "ignore", "rules", {}) = c[3]
  BY <1>1 DEF ValueOf
<1> HIDE DEF c
<1> QED BY <1>2, <1>3 DEF BuildConfig

\* A text has at most one list of them.
LEMMA OneSetting ==
  ASSUME NEW t \in TomlText, IsToml(t), NEW v, <<"ignore", "rules", v>> \in Settings(t)
  PROVE  \A s \in Settings(t) : s[1] = "ignore" /\ s[2] = "rules" => s[3] = v
<1> SUFFICES ASSUME NEW s \in Settings(t), s[1] = "ignore", s[2] = "rules" PROVE s[3] = v
  OBVIOUS
<1>1. PICK i \in DOMAIN t.pieces : IsList(t, i) /\ t.pieces[i].value = v
  BY DEF Settings, IsList
<1>2. PICK k \in DOMAIN t.pieces : /\ t.pieces[k].kind = "key"
                                   /\ s = <<SectionAt(t, k), t.pieces[k].name, t.pieces[k].value>>
  BY DEF Settings
<1>3. SectionAt(t, k) = "ignore" /\ t.pieces[k].name = "rules" /\ s[3] = t.pieces[k].value
  BY <1>2
<1>4. k = i
  BY <1>1, <1>2, <1>3 DEF IsToml, IsList
<1> QED BY <1>1, <1>3, <1>4

\* The list of the [ignore] section is the one the reader returns.
LEMMA ListIsRead ==
  ASSUME NEW t \in TomlText, IsToml(t), NEW v, <<"ignore", "rules", v>> \in Settings(t)
  PROVE  Ignored(t) = v
  BY OneSetting, SettingIsRead DEF Ignored

\* In a valid file there is one such list at most, and it is the one read.
LEMMA ListedAt ==
  ASSUME NEW t \in TomlText, IsToml(t), NEW i, IsList(t, i)
  PROVE  Ignored(t) = t.pieces[i].value /\ \A k : IsList(t, k) => k = i
<1>1. <<"ignore", "rules", t.pieces[i].value>> \in Settings(t)
  BY DEF IsList, Settings
<1>2. \A k : IsList(t, k) => k = i
  BY DEF IsList, IsToml
<1> QED BY <1>1, <1>2, ListIsRead

\* Without such a list nothing is ignored.
LEMMA NothingListed ==
  ASSUME NEW t \in TomlText, \A i : ~IsList(t, i)
  PROVE  Ignored(t) = {}
<1>1. \A s \in Settings(t) : ~(s[1] = "ignore" /\ s[2] = "rules")
  BY DEF Settings, IsList
<1>2. ValueOf(Settings(t), "ignore", "rules", {}) = {}
  BY <1>1 DEF ValueOf
<1> QED BY <1>2 DEF Ignored, BuildConfig

\* What is ignored is a set of rule names.
LEMMA IgnoresRules ==
  ASSUME NEW t \in TomlText, IsToml(t)
  PROVE  Ignored(t) \in SUBSET STRING
<1>1. CASE \E i : IsList(t, i)
  <2>1. PICK i : IsList(t, i)
    BY <1>1
  <2>2. t.pieces[i] \in Piece
    BY <2>1 DEF IsList, TomlText
  <2> QED BY <2>1, <2>2, ListedAt DEF Piece
<1>2. CASE \A i : ~IsList(t, i)
  BY <1>2, NothingListed
<1> QED BY <1>1, <1>2
-----------------------------------------------------------------------------
(* set_rule_ignored *)

\* Where the section of the ignored rules begins.
Begins(text, i) ==
  /\ i \in DOMAIN text.pieces /\ text.pieces[i].kind = "section" /\ text.pieces[i].name = "ignore"

\* The editor's search for [ignore] finds a header of that name, or there is none.
LEMMA StartFound ==
  ASSUME NEW t \in TomlText
  PROVE  LET start == First(t.pieces, 1, LAMBDA p : p.kind = "section" /\ p.name = "ignore")
         IN \/ start = 0 /\ \A i : ~Begins(t, i)
            \/ start # 0 /\ Begins(t, start)
<1> DEFINE I == {i \in 1..Len(t.pieces) : t.pieces[i].kind = "section" /\ t.pieces[i].name = "ignore"}
           start == IF I # {} THEN Min(I) ELSE 0
<1>1. \A i : i \in I <=> Begins(t, i)
  BY DEF Begins, TomlText
<1>2. I \in SUBSET Nat /\ 0 \notin I
  OBVIOUS
<1>3. \/ start = 0 /\ I = {}
      \/ start # 0 /\ start \in I
  <2> HIDE DEF I
  <2> QED BY <1>2, MinIsFirst
<1>4. First(t.pieces, 1, LAMBDA p : p.kind = "section" /\ p.name = "ignore") = start
  BY DEF First, SelectInSubSeq
<1> HIDE DEF I, start
<1> QED BY <1>1, <1>3, <1>4

\* Without its section a text has no list.
LEMMA NoStartNoList ==
  ASSUME NEW t \in TomlText, \A i : ~Begins(t, i)
  PROVE  \A i : ~IsList(t, i)
<1> SUFFICES ASSUME NEW i, IsList(t, i) PROVE FALSE
  OBVIOUS
<1>1. PICK k \in Headers(t, i) : SectionAt(t, i) = t.pieces[k].name
  BY SectionFound DEF IsList
<1>2. Begins(t, k)
  BY <1>1 DEF Headers, IsList, Begins, TomlText
<1> QED BY <1>2

\* The lines of a section are those without a header between them and its own.
LEMMA BodyFacts ==
  ASSUME NEW t \in TomlText, NEW start \in DOMAIN t.pieces, NEW i \in DOMAIN t.pieces
  PROVE  i \in BodyOf(t.pieces, start) <=>
           start < i /\ \A k \in (start + 1)..i : t.pieces[k].kind # "section"
<1> DEFINE I == {k \in (start + 1)..Len(t.pieces) : t.pieces[k].kind = "section"}
           next == IF I # {} THEN Min(I) ELSE 0
<1>1. /\ Len(t.pieces) \in Nat /\ start \in Nat /\ i \in Nat /\ i <= Len(t.pieces)
      /\ I \in SUBSET Nat /\ 0 \notin I
  BY DEF TomlText
<1>2. BodyOf(t.pieces, start) = (start + 1)..(IF next = 0 THEN Len(t.pieces) ELSE next - 1)
  BY DEF BodyOf, First, SelectInSubSeq
<1>3. CASE I = {}
  BY <1>1, <1>2, <1>3
<1>4. CASE I # {}
  <2>1. next \in I /\ \A x \in I : next <= x
    <3> HIDE DEF I
    <3> QED BY <1>1, <1>4, MinIsFirst
  <2>2. BodyOf(t.pieces, start) = (start + 1)..(next - 1) /\ next \in Nat
    BY <1>1, <1>2, <2>1
  <2> HIDE DEF next
  <2>3. next \in (start + 1)..Len(t.pieces) /\ t.pieces[next].kind = "section"
    BY <2>1
  <2>4. \A k \in (start + 1)..i : t.pieces[k].kind = "section" => next <= k
    BY <1>1, <2>1
  <2>5. ASSUME i \in (start + 1)..(next - 1)
        PROVE  start < i /\ \A k \in (start + 1)..i : t.pieces[k].kind # "section"
    BY <1>1, <2>2, <2>4, <2>5
  <2>6. ASSUME start < i, \A k \in (start + 1)..i : t.pieces[k].kind # "section"
        PROVE  i \in (start + 1)..(next - 1)
    BY <1>1, <2>2, <2>3, <2>6
  <2> QED BY <2>2, <2>5, <2>6
<1> QED BY <1>3, <1>4

\* The list is looked for where it may be.
LEMMA ListsInBody ==
  ASSUME NEW t \in TomlText, IsToml(t), NEW start, Begins(t, start)
  PROVE  {i \in BodyOf(t.pieces, start) : t.pieces[i].kind = "key" /\ t.pieces[i].name = "rules"}
           = {i \in DOMAIN t.pieces : IsList(t, i)}
<1>1. start \in DOMAIN t.pieces /\ DOMAIN t.pieces = 1..Len(t.pieces) /\ Len(t.pieces) \in Nat
  BY DEF Begins, TomlText
<1>2. BodyOf(t.pieces, start) \subseteq DOMAIN t.pieces
  <2> DEFINE I == {k \in (start + 1)..Len(t.pieces) : t.pieces[k].kind = "section"}
             next == IF I # {} THEN Min(I) ELSE 0
  <2>1. BodyOf(t.pieces, start) = (start + 1)..(IF next = 0 THEN Len(t.pieces) ELSE next - 1)
    BY DEF BodyOf, First, SelectInSubSeq
  <2>2. I \in SUBSET Nat /\ I \subseteq 1..Len(t.pieces)
    BY <1>1
  <2>3. next = 0 \/ next \in 1..Len(t.pieces)
    <3> HIDE DEF I
    <3> QED BY <2>2, MinIsFirst
  <2> HIDE DEF next
  <2> QED BY <1>1, <2>1, <2>3
<1>3. ASSUME NEW i \in DOMAIN t.pieces, t.pieces[i].kind = "key", t.pieces[i].name = "rules", i \in BodyOf(t.pieces, start)
      PROVE  IsList(t, i)
  <2>1. start < i /\ \A k \in (start + 1)..i : t.pieces[k].kind # "section"
    BY <1>1, <1>3, BodyFacts
  <2>2. start \in Headers(t, i) /\ \A k \in Headers(t, i) : k <= start
    BY <1>1, <2>1 DEF Headers, Begins
  <2> QED BY <1>3, <2>2, SectionNamed DEF IsList, Begins
<1>4. ASSUME NEW i \in DOMAIN t.pieces, IsList(t, i) PROVE i \in BodyOf(t.pieces, start)
  <2>1. PICK k \in Headers(t, i) : (\A x \in Headers(t, i) : x <= k) /\ t.pieces[k].name = "ignore"
    BY <1>4, SectionFound DEF IsList
  <2>2. k = start
    BY <1>1, <2>1 DEF Headers, IsToml, Begins
  <2>3. start <= i /\ start # i
    BY <1>1, <1>4, <2>1, <2>2 DEF Headers, IsList, Begins
  <2>4. \A x \in (start + 1)..i : t.pieces[x].kind # "section"
    BY <1>1, <2>1, <2>2 DEF Headers
  <2> QED BY <1>1, <2>3, <2>4, BodyFacts
<1> QED BY <1>2, <1>3, <1>4 DEF IsList

\* What an edit of the list leaves: everything else, and a text that can be edited again.
Leaves(t, u, rules) ==
  /\ u \in TomlText /\ Plainly(u) /\ Ignored(u) = rules /\ OtherSettings(u) = OtherSettings(t)

\* What the edits write for a list.
LEMMA RuleListIs ==
  ASSUME NEW set \in SUBSET STRING
  PROVE  /\ RuleList(set) \in Piece /\ RuleList(set).kind = "key" /\ RuleList(set).name = "rules"
         /\ RuleList(set).value = set /\ RuleList(set).muted = {}
<1> DEFINE r == [kind |-> "key", name |-> "rules", value |-> set, muted |-> {}]
<1>1. r \in Piece
  BY DEF Piece, TomlName
<1>2. r.kind = "key" /\ r.name = "rules" /\ r.value = set /\ r.muted = {}
  OBVIOUS
<1>3. RuleList(set) = r
  BY DEF RuleList, Key
<1> HIDE DEF r
<1> QED BY <1>1, <1>2, <1>3

\* A list is put below its header.
LEMMA ListInserted ==
  ASSUME NEW t \in TomlText, Plainly(t), NEW start, Begins(t, start), \A i : ~IsList(t, i),
         NEW set \in SUBSET STRING, NEW ended \in BOOLEAN, start = Len(t.pieces) => ended,
         ended = t.ended \/ ended
  PROVE  Leaves(t, [pieces |-> InsertAt(t.pieces, start + 1, RuleList(set)), ended |-> ended], set)
<1> DEFINE n == Len(t.pieces)
           d == start + 1
           p == InsertAt(t.pieces, d, RuleList(set))
           u == [pieces |-> p, ended |-> ended]
           g == [i \in 1..(n + 1) |-> IF i < d THEN i ELSE i - 1]
<1>1. n \in Nat /\ t.pieces \in [1..n -> Piece] /\ start \in 1..n /\ d \in 1..(n + 1) /\ t.pieces \in Seq(Piece)
  BY DEF Begins, TomlText
<1>2. RuleList(set) \in Piece /\ RuleList(set).kind = "key" /\ RuleList(set).name = "rules"
      /\ RuleList(set).value = set /\ RuleList(set).muted = {}
  BY RuleListIs
<1>3. /\ p \in Seq(Piece) /\ Len(p) = n + 1
      /\ \A i \in 1..(n + 1) : p[i] = IF i < d THEN t.pieces[i] ELSE IF i = d THEN RuleList(set) ELSE t.pieces[i - 1]
  <2>1. PICK q, r, e : q = t.pieces /\ r = RuleList(set) /\ e = d
    OBVIOUS
  <2>2. q \in Seq(Piece) /\ e \in 1..(Len(q) + 1) /\ r \in Piece
    BY <1>1, <1>2, <2>1
  <2>3. /\ InsertAt(q, e, r) \in Seq(Piece) /\ Len(InsertAt(q, e, r)) = Len(q) + 1
        /\ Put(InsertAt(q, e, r), q, e, r)
    BY <2>2, InsertedAt
  <2> QED BY <2>1, <2>3 DEF Put
<1>4. u \in TomlText /\ u.pieces = p /\ u.ended = ended /\ DOMAIN p = 1..(n + 1)
  <2> HIDE DEF p
  <2> QED BY <1>3 DEF TomlText
<1> HIDE DEF p, u
<1>5. Rearranges(g, t, u, d)
  <2>1. d \in DOMAIN u.pieces /\ u.pieces[d].kind = "key"
    BY <1>1, <1>2, <1>3, <1>4
  <2>2. \A i \in DOMAIN u.pieces \ {d} : g[i] \in DOMAIN t.pieces /\ u.pieces[i] = t.pieces[g[i]]
    BY <1>1, <1>3, <1>4
  <2>3. \A i, k \in DOMAIN u.pieces \ {d} : i < k => g[i] < g[k]
    BY <1>1, <1>4
  <2>4. ASSUME NEW k \in DOMAIN t.pieces PROVE \E i \in DOMAIN u.pieces \ {d} : g[i] = k
    <3>1. k \in 1..n
      BY <1>1
    <3>2. CASE k < d
      <4>1. k \in 1..(n + 1) /\ k # d /\ g[k] = k
        BY <1>1, <3>1, <3>2
      <4> QED BY <1>4, <4>1
    <3>3. CASE ~(k < d)
      <4>1. k + 1 \in 1..(n + 1) /\ k + 1 # d /\ g[k + 1] = k
        BY <1>1, <3>1, <3>3
      <4> QED BY <1>4, <4>1
    <3> QED BY <3>2, <3>3
  <2> QED BY <2>1, <2>2, <2>3, <2>4 DEF Rearranges
<1>6. SectionAt(u, d) = "ignore"
  <2>1. start \in Headers(u, d) /\ u.pieces[start].name = "ignore"
    BY <1>1, <1>3, <1>4 DEF Headers, Begins
  <2>2. \A x \in Headers(u, d) : x <= start
    BY <1>1, <1>2, <1>3, <1>4 DEF Headers
  <2>3. d \in DOMAIN u.pieces
    BY <1>1, <1>4
  <2> HIDE DEF d
  <2> QED BY <1>4, <2>1, <2>2, <2>3, SectionNamed
<1>7. IsList(u, d) /\ u.pieces[d].value = set
  BY <1>1, <1>2, <1>3, <1>4, <1>6 DEF IsList
<1>8. \A i \in DOMAIN u.pieces : IsList(u, i) => i = d
  <2> HIDE DEF g, d
  <2> SUFFICES ASSUME NEW i \in DOMAIN u.pieces, IsList(u, i), i # d PROVE FALSE
    OBVIOUS
  <2>1. SectionAt(u, i) = SectionAt(t, g[i])
    BY <1>4, <1>5, RearrangedSection
  <2>2. g[i] \in DOMAIN t.pieces /\ u.pieces[i] = t.pieces[g[i]]
    BY <1>5 DEF Rearranges
  <2>3. IsList(t, g[i])
    BY <2>1, <2>2 DEF IsList
  <2> QED BY <2>3
<1>9. IsToml(u) /\ OtherSettings(u) = OtherSettings(t) /\ <<"ignore", "rules", set>> \in Settings(u)
  <2> HIDE DEF g, d
  <2> QED BY <1>4, <1>5, <1>7, <1>8, RearrangedText DEF Plainly
<1>10. Ignored(u) = set
  BY <1>4, <1>9, ListIsRead
<1>11. Plainly(u)
  <2>1. \A i \in DOMAIN u.pieces : u.pieces[i].muted = {}
    <3>1. \A i \in 1..n : t.pieces[i].muted = {}
      BY <1>1 DEF Plainly
    <3> SUFFICES ASSUME NEW i \in 1..(n + 1) PROVE p[i].muted = {}
      BY <1>4
    <3>2. i < d \/ i = d \/ i > d
      <4>1. i \in Nat /\ d \in Nat
        BY <1>1
      <4> HIDE DEF d
      <4> QED BY <4>1
    <3>3. CASE i < d
      BY <1>1, <1>3, <3>1, <3>3
    <3>4. CASE i = d
      BY <1>1, <1>2, <1>3, <3>4
    <3>5. CASE i > d
      <4>1. i - 1 \in 1..n /\ ~(i < d) /\ i # d
        BY <1>1, <3>5
      <4>2. p[i] = t.pieces[i - 1]
        BY <1>3, <4>1
      <4> QED BY <3>1, <4>1, <4>2
    <3> HIDE DEF d
    <3> QED BY <3>2, <3>3, <3>4, <3>5
  <2>2. u.ended \/ Last(u.pieces).kind # "section"
    <3>1. CASE start = n
      BY <1>4, <3>1
    <3>2. CASE start # n
      <4>1. Last(u.pieces) = t.pieces[n] /\ Last(t.pieces) = t.pieces[n] /\ t.pieces # <<>>
        BY <1>1, <1>3, <1>4, <3>2 DEF Last
      <4> QED BY <1>4, <4>1 DEF Plainly
    <3> QED BY <3>1, <3>2
  <2> QED BY <1>9, <2>1, <2>2 DEF Plainly
<1> QED BY <1>4, <1>9, <1>10, <1>11 DEF Leaves, u, p

\* A list is written in the place of the one there is.
LEMMA ListReplaced ==
  ASSUME NEW t \in TomlText, Plainly(t), NEW d, IsList(t, d), NEW set \in SUBSET STRING
  PROVE  Leaves(t, [t EXCEPT !.pieces[d] = RuleList(set)], set)
<1> DEFINE n == Len(t.pieces)
           p == [t.pieces EXCEPT ![d] = RuleList(set)]
           u == [t EXCEPT !.pieces[d] = RuleList(set)]
           g == [i \in 1..n |-> i]
<1>1. n \in Nat /\ t.pieces \in [1..n -> Piece] /\ d \in 1..n /\ t.pieces \in Seq(Piece) /\ DOMAIN t.pieces = 1..n
  BY DEF IsList, TomlText
<1>2. /\ RuleList(set) \in Piece /\ RuleList(set).kind = "key" /\ RuleList(set).name = "rules"
      /\ RuleList(set).value = set /\ RuleList(set).muted = {}
  BY RuleListIs
<1>3. p \in Seq(Piece) /\ Len(p) = n /\ DOMAIN p = 1..n /\ \A i \in 1..n : p[i] = IF i = d THEN RuleList(set) ELSE t.pieces[i]
  BY <1>1, <1>2
<1>4. u \in TomlText /\ u.pieces = p /\ u.ended = t.ended
  <2>1. u = [t EXCEPT !.pieces = p] /\ t.ended \in BOOLEAN
    BY DEF TomlText
  <2> HIDE DEF p, u
  <2> QED BY <1>3, <2>1 DEF TomlText
<1> HIDE DEF p, u
<1>5. Rearranges(g, t, u, d)
  BY <1>1, <1>2, <1>3, <1>4 DEF Rearranges
<1>6. SectionAt(u, d) = SectionAt(t, d)
  <2>1. \A k \in 1..n : u.pieces[k].kind = t.pieces[k].kind /\ u.pieces[k].name = t.pieces[k].name
    BY <1>1, <1>2, <1>3, <1>4 DEF IsList
  <2>2. Headers(u, d) = Headers(t, d) /\ Headers(t, d) \subseteq 1..n
    BY <1>1, <2>1 DEF Headers
  <2>3. \A x \in Headers(u, d) : g[x] = x
    BY <2>2
  <2> HIDE DEF g
  <2>4. \A x \in Headers(u, d) : g[x] \in Headers(t, d) /\ u.pieces[x].name = t.pieces[g[x]].name
    BY <2>1, <2>2, <2>3
  <2>5. \A k \in Headers(t, d) : \E x \in Headers(u, d) : g[x] = k
    BY <2>2, <2>3
  <2>6. \A x, y \in Headers(u, d) : x <= y => g[x] <= g[y]
    BY <2>3
  <2>7. d \in DOMAIN t.pieces /\ d \in DOMAIN u.pieces
    BY <1>1, <1>3, <1>4
  <2> QED BY <1>4, <2>4, <2>5, <2>6, <2>7, SameSection
<1>7. IsList(u, d) /\ u.pieces[d].value = set
  BY <1>1, <1>2, <1>3, <1>4, <1>6 DEF IsList
<1>8. \A i \in DOMAIN u.pieces : IsList(u, i) => i = d
  <2> SUFFICES ASSUME NEW i \in DOMAIN u.pieces, IsList(u, i), i # d PROVE FALSE
    OBVIOUS
  <2>1. g[i] = i /\ i \in DOMAIN t.pieces /\ u.pieces[i] = t.pieces[i]
    BY <1>1, <1>3, <1>4
  <2> HIDE DEF g
  <2>2. SectionAt(u, i) = SectionAt(t, i)
    BY <1>4, <1>5, <2>1, RearrangedSection
  <2>3. IsList(t, i)
    BY <2>1, <2>2 DEF IsList
  <2> QED BY <2>3, ListedAt DEF Plainly
<1>9. IsToml(u) /\ OtherSettings(u) = OtherSettings(t) /\ <<"ignore", "rules", set>> \in Settings(u)
  <2> HIDE DEF g
  <2> QED BY <1>4, <1>5, <1>7, <1>8, RearrangedText DEF Plainly
<1>10. Ignored(u) = set
  BY <1>4, <1>9, ListIsRead
<1>11. Plainly(u)
  <2>1. \A i \in DOMAIN u.pieces : u.pieces[i].muted = {}
    BY <1>1, <1>2, <1>3, <1>4 DEF Plainly
  <2>2. u.ended \/ Last(u.pieces).kind # "section"
    <3>1. Last(u.pieces).kind = Last(t.pieces).kind /\ t.pieces # <<>>
      BY <1>1, <1>2, <1>3, <1>4 DEF Last, IsList
    <3> QED BY <1>4, <3>1 DEF Plainly
  <2> QED BY <1>9, <2>1, <2>2 DEF Plainly
<1> QED BY <1>4, <1>9, <1>10, <1>11 DEF Leaves, u

\* The section is added, empty.
LEMMA HeaderAdded ==
  ASSUME NEW t \in TomlText, Plainly(t), \A i : ~Begins(t, i)
  PROVE  LET u == [pieces |-> Append(t.pieces, Section("ignore")), ended |-> TRUE]
         IN /\ u \in TomlText /\ Plainly(u) /\ Begins(u, Len(t.pieces) + 1) /\ \A i : ~IsList(u, i)
            /\ OtherSettings(u) = OtherSettings(t)
<1> DEFINE n == Len(t.pieces)
           p == Append(t.pieces, Section("ignore"))
           u == [pieces |-> p, ended |-> TRUE]
<1>1. n \in Nat /\ t.pieces \in [1..n -> Piece] /\ t.pieces \in Seq(Piece) /\ DOMAIN t.pieces = 1..n
  BY DEF TomlText
<1>2. /\ Section("ignore") \in Piece /\ Section("ignore").kind = "section" /\ Section("ignore").name = "ignore"
      /\ Section("ignore").muted = {}
  <2> DEFINE r == [kind |-> "section", name |-> "ignore", value |-> {}, muted |-> {}]
  <2>1. r \in Piece
    BY DEF Piece, TomlName
  <2>2. r.kind = "section" /\ r.name = "ignore" /\ r.muted = {}
    OBVIOUS
  <2>3. Section("ignore") = r
    BY DEF Section
  <2> HIDE DEF r
  <2> QED BY <2>1, <2>2, <2>3
<1>3. p \in Seq(Piece) /\ Len(p) = n + 1 /\ DOMAIN p = 1..(n + 1) /\ p[n + 1] = Section("ignore") /\ \A i \in 1..n : p[i] = t.pieces[i]
  BY <1>1, <1>2
<1>4. u \in TomlText /\ u.pieces = p /\ u.ended
  <2> HIDE DEF p
  <2> QED BY <1>3 DEF TomlText
<1> HIDE DEF p, u
<1>5. ASSUME NEW i \in 1..n PROVE SectionAt(u, i) = SectionAt(t, i)
  <2> DEFINE g == [k \in 1..n |-> k]
  <2>1. Headers(u, i) = Headers(t, i) /\ Headers(t, i) \subseteq 1..n
    BY <1>1, <1>3, <1>4 DEF Headers
  <2>2. \A x \in Headers(u, i) : g[x] = x /\ u.pieces[x].name = t.pieces[x].name
    BY <1>3, <1>4, <2>1
  <2> HIDE DEF g
  <2>3. \A x \in Headers(u, i) : g[x] \in Headers(t, i) /\ u.pieces[x].name = t.pieces[g[x]].name
    BY <2>1, <2>2
  <2>4. \A k \in Headers(t, i) : \E x \in Headers(u, i) : g[x] = k
    BY <2>1, <2>2
  <2>5. \A x, y \in Headers(u, i) : x <= y => g[x] <= g[y]
    BY <2>2
  <2>6. i \in DOMAIN t.pieces /\ i \in DOMAIN u.pieces
    BY <1>1, <1>3, <1>4
  <2> QED BY <1>4, <2>3, <2>4, <2>5, <2>6, SameSection
<1>6. IsToml(u)
  <2>1. \A i \in DOMAIN u.pieces : u.pieces[i].kind # "joined"
    BY <1>1, <1>2, <1>3, <1>4 DEF IsToml, Plainly
  <2>2. ASSUME NEW i \in DOMAIN u.pieces, NEW k \in DOMAIN u.pieces, i # k, u.pieces[i].kind = u.pieces[k].kind
        PROVE  u.pieces[i].name # u.pieces[k].name \/ (u.pieces[i].kind = "key" /\ SectionAt(u, i) # SectionAt(u, k))
    <3>1. CASE i \in 1..n /\ k \in 1..n
      <4>1. u.pieces[i] = t.pieces[i] /\ u.pieces[k] = t.pieces[k]
        BY <1>3, <1>4, <3>1
      <4>2. SectionAt(u, i) = SectionAt(t, i) /\ SectionAt(u, k) = SectionAt(t, k)
        BY <1>5, <3>1
      <4>3. IsToml(t) /\ i \in DOMAIN t.pieces /\ k \in DOMAIN t.pieces
        BY <1>1, <3>1 DEF Plainly
      <4> QED BY <2>2, <4>1, <4>2, <4>3 DEF IsToml
    <3>2. CASE i = n + 1 /\ k \in 1..n
      BY <1>1, <1>2, <1>3, <1>4, <2>2, <3>2 DEF Begins
    <3>3. CASE k = n + 1 /\ i \in 1..n
      BY <1>1, <1>2, <1>3, <1>4, <2>2, <3>3 DEF Begins
    <3>4. i \in 1..(n + 1) /\ k \in 1..(n + 1) /\ i # k
      BY <1>3, <1>4, <2>2
    <3>5. (i = n + 1 \/ i \in 1..n) /\ (k = n + 1 \/ k \in 1..n)
      BY <1>1, <3>4
    <3> QED BY <3>1, <3>2, <3>3, <3>4, <3>5
  <2> QED BY <2>1, <2>2 DEF IsToml
<1>7. \A i : ~IsList(u, i)
  <2> SUFFICES ASSUME NEW i, IsList(u, i) PROVE FALSE
    OBVIOUS
  <2>1. i \in 1..n
    BY <1>1, <1>2, <1>3, <1>4 DEF IsList
  <2>2. IsList(t, i)
    BY <1>1, <1>3, <1>4, <1>5, <2>1 DEF IsList
  <2> QED BY <2>2, NoStartNoList
<1>8. Settings(u) = Settings(t)
  <2>1. \A i \in 1..n : u.pieces[i] = t.pieces[i] /\ SectionAt(u, i) = SectionAt(t, i)
    BY <1>3, <1>4, <1>5
  <2>2. {k \in DOMAIN u.pieces : u.pieces[k].kind = "key"} = {k \in DOMAIN t.pieces : t.pieces[k].kind = "key"}
    BY <1>1, <1>2, <1>3, <1>4
  <2>3. {k \in DOMAIN t.pieces : t.pieces[k].kind = "key"} \subseteq 1..n
    BY <1>1
  <2> QED BY <2>1, <2>2, <2>3 DEF Settings
<1>9. Begins(u, n + 1)
  BY <1>1, <1>2, <1>3, <1>4 DEF Begins
<1>10. Plainly(u)
  <2>1. \A i \in DOMAIN u.pieces : u.pieces[i].muted = {}
    BY <1>1, <1>2, <1>3, <1>4 DEF Plainly
  <2> QED BY <1>4, <1>6, <2>1 DEF Plainly
<1> QED BY <1>4, <1>7, <1>8, <1>9, <1>10 DEF OtherSettings, u, p

IgnoredWith(set, named, ignored) == IF ignored THEN set \cup {named} ELSE set \ {named}

\* An edit of a text that it understands puts the rule into the list, or takes it out.
LEMMA EditLeaves ==
  ASSUME NEW t \in TomlText, Plainly(t), NEW named \in STRING, NEW ignored \in BOOLEAN
  PROVE  Leaves(t, SetRuleIgnored(t, named, ignored), IgnoredWith(Ignored(t), named, ignored))
<1> DEFINE pieces == t.pieces
           start  == First(pieces, 1, LAMBDA p : p.kind = "section" /\ p.name = "ignore")
           lists  == {i \in BodyOf(pieces, start) : pieces[i].kind = "key" /\ pieces[i].name = "rules"}
           list   == CHOOSE i \in lists : \A k \in lists : i <= k
           listed == pieces[list].value \cup pieces[list].muted
           joins  == start = Len(pieces) /\ ~t.ended
           below  == [t EXCEPT !.pieces = InsertAt(pieces, start + 1, RuleList({named}))]
           set    == IF ignored THEN listed \cup {named} ELSE listed \ {named}
           u      == SetRuleIgnored(t, named, ignored)
<1>1. /\ start = 0 /\ ignored => u = [pieces |-> pieces \o <<Section("ignore"), RuleList({named})>>, ended |-> TRUE]
      /\ start # 0 /\ lists = {} /\ ignored /\ ~joins => u = below
      /\ start # 0 /\ lists # {} /\ ignored # (named \in listed) =>
           u = [t EXCEPT !.pieces[list] = RuleList(set)]
      /\ (start = 0 \/ lists = {}) /\ ~ignored => u = t
      /\ start # 0 /\ lists # {} /\ ignored = (named \in listed) => u = t
  BY DEF SetRuleIgnored
<1>2. \/ start = 0 /\ \A i : ~Begins(t, i)
      \/ start # 0 /\ Begins(t, start)
  BY StartFound
<1>3. IsToml(t) /\ Leaves(t, t, Ignored(t))
  BY DEF Plainly, Leaves
<1>4. start # 0 => lists = {i \in DOMAIN t.pieces : IsList(t, i)}
  BY <1>2, <1>3, ListsInBody
<1> SUFFICES Leaves(t, u, IgnoredWith(Ignored(t), named, ignored))
  OBVIOUS
<1> HIDE DEF u, start, lists
<1>5. CASE start = 0
  <2>1. \A i : ~IsList(t, i)
    BY <1>2, <1>5, NoStartNoList
  <2>2. Ignored(t) = {}
    BY <2>1, NothingListed
  <2>3. CASE ~ignored
    BY <1>1, <1>3, <1>5, <2>2, <2>3 DEF IgnoredWith
  <2>4. CASE ignored
    <3> DEFINE v == [pieces |-> Append(pieces, Section("ignore")), ended |-> TRUE]
    <3>1. /\ v \in TomlText /\ Plainly(v) /\ Begins(v, Len(pieces) + 1) /\ \A i : ~IsList(v, i)
          /\ OtherSettings(v) = OtherSettings(t)
      BY <1>2, <1>5, HeaderAdded
    <3>2. v.pieces = Append(pieces, Section("ignore")) /\ pieces \in Seq(Piece) /\ Section("ignore") \in Piece
      <4>1. v.pieces = Append(pieces, Section("ignore")) /\ pieces \in Seq(Piece)
        BY DEF TomlText
      <4>2. Append(pieces, Section("ignore"))[Len(pieces) + 1] = Section("ignore")
        BY <4>1
      <4>3. v.pieces[Len(pieces) + 1] \in Piece
        <5> HIDE DEF v, pieces
        <5> QED BY <3>1 DEF Begins, TomlText
      <4> QED BY <4>1, <4>2, <4>3
    <3> DEFINE n == Len(pieces)
               w == [pieces |-> InsertAt(v.pieces, n + 2, RuleList({named})), ended |-> TRUE]
    <3>3. n \in Nat /\ Len(v.pieces) = n + 1 /\ (n + 1) + 1 = n + 2
      BY <3>2
    <3>4. Leaves(v, w, {named})
      <4>1. {named} \in SUBSET STRING /\ TRUE \in BOOLEAN
        OBVIOUS
      <4> HIDE DEF v, n
      <4>2. Leaves(v, [pieces |-> InsertAt(v.pieces, (n + 1) + 1, RuleList({named})), ended |-> TRUE], {named})
        BY <3>1, <4>1, ListInserted DEF n
      <4> QED BY <3>3, <4>2
    <3>5. w = u
      <4>1. PICK a, b : a = Section("ignore") /\ b = RuleList({named})
        OBVIOUS
      <4>2. a \in Piece /\ b \in Piece
        BY <3>2, <4>1, RuleListIs
      <4>3. SubSeq(Append(pieces, a), 1, n + 1) = Append(pieces, a) /\ SubSeq(Append(pieces, a), n + 2, n + 1) = <<>>
        BY <3>2, <4>2
      <4>4. InsertAt(Append(pieces, a), n + 2, b) = Append(pieces, a) \o <<b>> \o <<>>
        <5>1. Len(Append(pieces, a)) = n + 1 /\ (n + 2) - 1 = n + 1
          BY <3>2, <4>2
        <5> QED BY <4>3, <5>1 DEF InsertAt
      <4>5. Append(pieces, a) \o <<b>> \o <<>> = pieces \o <<a, b>>
        BY <3>2, <4>2
      <4>6. u = [pieces |-> pieces \o <<a, b>>, ended |-> TRUE]
        BY <1>1, <1>5, <2>4, <4>1
      <4> QED BY <3>2, <4>1, <4>4, <4>5, <4>6
    <3> HIDE DEF v, w
    <3>6. Leaves(t, u, {named})
      BY <3>1, <3>4, <3>5 DEF Leaves
    <3> QED BY <2>2, <2>4, <3>6 DEF IgnoredWith
  <2> QED BY <2>3, <2>4
<1>6. CASE start # 0 /\ lists = {}
  <2>1. Begins(t, start) /\ \A i : ~IsList(t, i)
    BY <1>2, <1>4, <1>6 DEF IsList
  <2>2. Ignored(t) = {}
    BY <2>1, NothingListed
  <2>3. CASE ~ignored
    BY <1>1, <1>3, <1>6, <2>2, <2>3 DEF IgnoredWith
  <2>4. CASE ignored
    <3>1. start = Len(pieces) => t.ended
      <4> SUFFICES ASSUME start = Len(pieces) PROVE t.ended
        OBVIOUS
      <4>1. Last(pieces).kind = "section" /\ pieces # <<>>
        BY <2>1 DEF Begins, Last, TomlText
      <4> QED BY <4>1 DEF Plainly
    <3>2. u = below /\ t.ended \in BOOLEAN
      BY <1>1, <1>6, <2>4, <3>1 DEF TomlText
    <3>3. below = [pieces |-> InsertAt(pieces, start + 1, RuleList({named})), ended |-> t.ended]
      BY DEF TomlText
    <3>4. Leaves(t, [pieces |-> InsertAt(pieces, start + 1, RuleList({named})), ended |-> t.ended], {named})
      <4>1. {named} \in SUBSET STRING /\ (t.ended = t.ended \/ t.ended)
        OBVIOUS
      <4> QED BY <2>1, <3>1, <3>2, <4>1, ListInserted
    <3> HIDE DEF below
    <3> QED BY <2>2, <2>4, <3>2, <3>3, <3>4 DEF IgnoredWith
  <2> QED BY <2>3, <2>4
<1>7. CASE start # 0 /\ lists # {}
  <2>1. PICK d \in DOMAIN pieces : IsList(t, d)
    BY <1>4, <1>7
  <2>2. Ignored(t) = pieces[d].value /\ \A k : IsList(t, k) => k = d
    BY <1>3, <2>1, ListedAt
  <2>3. lists = {d}
    BY <1>4, <1>7, <2>1, <2>2
  <2>4. list = d
    <3>1. d \in Nat
      BY <2>1 DEF TomlText
    <3> QED BY <2>3, <3>1
  <2>5. listed = Ignored(t)
    <3>1. pieces[d].muted = {}
      BY <2>1 DEF Plainly
    <3> QED BY <2>2, <2>4, <3>1
  <2> HIDE DEF list
  <2>6. CASE ignored = (named \in listed)
    <3>1. IgnoredWith(Ignored(t), named, ignored) = Ignored(t)
      BY <2>5, <2>6 DEF IgnoredWith
    <3> QED BY <1>1, <1>3, <1>7, <2>6, <3>1
  <2>7. CASE ignored # (named \in listed)
    <3>1. u = [t EXCEPT !.pieces[d] = RuleList(set)]
      BY <1>1, <1>7, <2>4, <2>7
    <3>2. set = IgnoredWith(Ignored(t), named, ignored) /\ set \in SUBSET STRING
      BY <1>3, <2>5, IgnoresRules DEF IgnoredWith
    <3> HIDE DEF set
    <3>3. Leaves(t, [t EXCEPT !.pieces[d] = RuleList(set)], set)
      BY <2>1, <3>2, ListReplaced
    <3> QED BY <3>1, <3>2, <3>3
  <2> QED BY <2>6, <2>7
<1> QED BY <1>5, <1>6, <1>7
-----------------------------------------------------------------------------
(* load_config *)

\* The file that is nearest to a folder has the last word.
LEMMA NearestRules ==
  ASSUME NEW n \in Nat \ {0}, NEW chain, DOMAIN chain = 1..n, Len(chain) = n,
         chain[n] \in TomlText, IsToml(chain[n]), Ignored(chain[n]) # {}
  PROVE  BuildConfig(Merged(chain)).ignored = Ignored(chain[n])
<1> DEFINE t == chain[n]
           v == Ignored(t)
<1>1. <<"ignore", "rules", v>> \in Settings(t)
  <2>1. PICK i : IsList(t, i)
    BY NothingListed
  <2>2. v = t.pieces[i].value
    BY <2>1, ListedAt
  <2> QED BY <2>1, <2>2 DEF IsList, Settings
<1>2. \A s \in Settings(t) : s[1] = "ignore" /\ s[2] = "rules" => s[3] = v
  BY <1>1, OneSetting
<1> HIDE DEF v
<1>3. <<"ignore", "rules", v>> \in Merged(chain)
  <2>1. n \in DOMAIN chain /\ (n + 1)..Len(chain) = {}
    OBVIOUS
  <2> QED BY <1>1, <2>1 DEF Merged
<1>4. ASSUME NEW s \in Merged(chain), s[1] = "ignore", s[2] = "rules" PROVE s[3] = v
  <2>1. PICK i \in 1..n : /\ s \in Settings(chain[i])
                          /\ \A k \in (i + 1)..n : \A q \in Settings(chain[k]) : <<s[1], s[2]>> # <<q[1], q[2]>>
    BY DEF Merged
  <2>2. CASE i = n
    BY <1>2, <1>4, <2>1, <2>2
  <2>3. CASE i # n
    <3>1. n \in (i + 1)..n
      BY <2>3
    <3>2. \A q \in Settings(t) : <<s[1], s[2]>> # <<q[1], q[2]>>
      BY <2>1, <3>1
    <3>3. PICK q \in Settings(t) : q = <<"ignore", "rules", v>>
      BY <1>1
    <3>4. q[1] = "ignore" /\ q[2] = "rules"
      BY <3>3
    <3> QED BY <1>4, <3>2, <3>4
  <2> QED BY <2>2, <2>3
<1>5. BuildConfig(Merged(chain)).ignored = v
  BY <1>3, <1>4, SettingIsRead
<1> QED BY <1>5 DEF v
-----------------------------------------------------------------------------
(* The edits *)

Writes(j, f) == edits[j].pc \in {"read", "open"} /\ Job(j).file = f

\* What the list of an edit's file should be when the edit is done.
Result(j) == IgnoredWith(wanted[Job(j).file], Job(j).rule, Job(j).ignored)

Opened(j, f) == edits[j].pc = "open" /\ Job(j).file = f

\* A file with one edit at a time: the file, unless it is being written, and the text of its edit.
FileInv(f) ==
  clean[f] =>
    /\ \A j, k \in DOMAIN edits : Writes(j, f) /\ Writes(k, f) => j = k
    /\ (\A j \in DOMAIN edits : ~Opened(j, f)) => Leaves(setup.toml[f], toml[f], wanted[f])
    /\ \A j \in DOMAIN edits : Writes(j, f) => Leaves(setup.toml[f], edits[j].text, Result(j))

EditTypes ==
  /\ setup \in Setups
  /\ DOMAIN edits = DOMAIN setup.edits
  /\ \A j \in DOMAIN edits : edits[j] = [pc |-> edits[j].pc, text |-> edits[j].text]
  /\ DOMAIN toml = DOMAIN setup.toml /\ DOMAIN wanted = DOMAIN setup.toml
  /\ clean \in [DOMAIN setup.toml -> BOOLEAN]

EditsInv == EditTypes /\ \A f \in DOMAIN setup.toml : FileInv(f)

\* The inductive invariant of the edits holds at first.
LEMMA EditsInit == SetInit => EditsInv
<1> SUFFICES ASSUME SetInit PROVE EditsInv
  OBVIOUS
<1>1. /\ setup \in Setups /\ toml = setup.toml
      /\ edits = [j \in DOMAIN setup.edits |-> [pc |-> "asked", text |-> Empty]]
      /\ wanted = [f \in DOMAIN setup.toml |-> BuildConfig(Settings(setup.toml[f])).ignored]
      /\ clean = [f \in DOMAIN setup.toml |-> Plainly(setup.toml[f])]
  BY DEF SetInit
<1>2. setup.toml \in [DOMAIN setup.toml -> TomlText]
  BY <1>1, SetupsAssumption
<1>3. DOMAIN edits = DOMAIN setup.edits /\ \A j \in DOMAIN edits : edits[j] = [pc |-> "asked", text |-> Empty]
  BY <1>1
<1>4. \A f \in DOMAIN setup.toml : Plainly(setup.toml[f]) \in BOOLEAN
  BY DEF Plainly
<1>5. EditTypes
  BY <1>1, <1>2, <1>3, <1>4 DEF EditTypes
<1>6. \A j \in DOMAIN edits : edits[j].pc = "asked"
  BY <1>3
<1>7. ASSUME NEW f \in DOMAIN setup.toml PROVE FileInv(f)
  <2>1. \A j \in DOMAIN edits : ~Writes(j, f)
    BY <1>6 DEF Writes
  <2>2. ASSUME clean[f] PROVE Leaves(setup.toml[f], toml[f], wanted[f])
    BY <1>1, <1>2, <2>2 DEF Leaves, Ignored
  <2> QED BY <2>1, <2>2 DEF FileInv
<1> QED BY <1>5, <1>7 DEF EditsInv

\* One edit moves on, and the files of the others are left alone.
Moves(j) ==
  /\ setup' = setup /\ DOMAIN edits' = DOMAIN edits
  /\ \A k \in DOMAIN edits : k # j => edits'[k] = edits[k]
  /\ \A g \in DOMAIN setup.toml : g # Job(j).file =>
       toml'[g] = toml[g] /\ wanted'[g] = wanted[g] /\ clean'[g] = clean[g]

\* An edit does not disturb what is true of another folder's file.
LEMMA OthersKeep ==
  ASSUME EditsInv, NEW j \in DOMAIN edits, Moves(j), NEW g \in DOMAIN setup.toml, g # Job(j).file
  PROVE  FileInv(g)'
<1>1. FileInv(g)
  BY DEF EditsInv
<1>2. setup' = setup /\ toml'[g] = toml[g] /\ wanted'[g] = wanted[g] /\ clean'[g] = clean[g]
      /\ DOMAIN edits' = DOMAIN edits
  BY DEF Moves
<1>3. \A k : Job(k)' = Job(k)
  BY <1>2 DEF Job
<1>4. \A k \in DOMAIN edits : Job(k).file = g => edits'[k] = edits[k]
  BY DEF Moves
<1>5. \A k \in DOMAIN edits : Writes(k, g)' <=> Writes(k, g)
  BY <1>3, <1>4 DEF Writes
<1>6. \A k \in DOMAIN edits : Opened(k, g)' <=> Opened(k, g)
  BY <1>3, <1>4 DEF Opened
<1>7. \A k \in DOMAIN edits : Writes(k, g) => Result(k)' = Result(k) /\ edits'[k] = edits[k]
  BY <1>2, <1>3, <1>4 DEF Writes, Result
<1> QED BY <1>1, <1>2, <1>5, <1>6, <1>7 DEF FileInv

\* The file of the edit that moves, when nobody writes it afterwards.
LEMMA AtRest ==
  ASSUME NEW f, DOMAIN edits' = DOMAIN edits,
         clean'[f] => /\ \A k \in DOMAIN edits : ~Writes(k, f)'
                      /\ Leaves(setup'.toml[f], toml'[f], wanted'[f])
  PROVE  FileInv(f)'
<1>1. \A k \in DOMAIN edits : Opened(k, f)' => Writes(k, f)'
  BY DEF Opened, Writes
<1> QED BY <1>1 DEF FileInv

\* The file of the edit that moves, when the edit is the only one that writes it.
LEMMA AloneAt ==
  ASSUME NEW j \in DOMAIN edits, NEW f, DOMAIN edits' = DOMAIN edits,
         clean'[f] => /\ \A k \in DOMAIN edits : Writes(k, f)' => k = j
                      /\ Opened(j, f)' \/ Leaves(setup'.toml[f], toml'[f], wanted'[f])
                      /\ Leaves(setup'.toml[f], edits'[j].text, Result(j)')
  PROVE  FileInv(f)'
  BY DEF FileInv

\* Two edits in a row leave what both leave.
LEMMA LeavesOn ==
  ASSUME NEW t, NEW u, NEW w, NEW a, NEW b, Leaves(t, u, a), Leaves(u, w, b)
  PROVE  Leaves(t, w, b)
  BY DEF Leaves

\* The fields of an edit.
LEMMA JobTypes ==
  ASSUME EditTypes, NEW j \in DOMAIN edits
  PROVE  /\ Job(j).file \in DOMAIN setup.toml /\ Job(j).rule \in STRING /\ Job(j).ignored \in BOOLEAN
  BY SetupsAssumption DEF EditTypes, Job

\* What becomes of the edits when one of them gets another stage.
LEMMA StageSet ==
  ASSUME EditTypes, NEW j \in DOMAIN edits, NEW pc, At(j, pc), setup' = setup
  PROVE  /\ DOMAIN edits' = DOMAIN edits
         /\ \A k \in DOMAIN edits : edits'[k] = [pc |-> edits'[k].pc, text |-> edits'[k].text]
         /\ edits'[j].pc = pc /\ edits'[j].text = edits[j].text
         /\ \A k \in DOMAIN edits : k # j => edits'[k] = edits[k]
         /\ \A k : Job(k)' = Job(k)
<1>1. edits' = [edits EXCEPT ![j].pc = pc]
  BY DEF At
<1>2. edits[j] = [pc |-> edits[j].pc, text |-> edits[j].text]
  BY DEF EditTypes
<1>3. edits'[j] = [edits[j] EXCEPT !.pc = pc] /\ DOMAIN edits' = DOMAIN edits
      /\ \A k \in DOMAIN edits : k # j => edits'[k] = edits[k]
  BY <1>1
<1>4. edits'[j] = [pc |-> pc, text |-> edits[j].text]
  BY <1>2, <1>3
<1>5. \A k \in DOMAIN edits : edits'[k] = [pc |-> edits'[k].pc, text |-> edits'[k].text]
  BY <1>3, <1>4 DEF EditTypes
<1>6. \A k : Job(k)' = Job(k)
  BY DEF Job
<1> QED BY <1>3, <1>4, <1>5, <1>6

\* An action that touches one file keeps the invariant when that file keeps it.
LEMMA OneFileMoves ==
  ASSUME EditsInv, NEW j \in DOMAIN edits, Moves(j), EditTypes', NEW f, f = Job(j).file, FileInv(f)'
  PROVE  EditsInv'
<1>1. ASSUME NEW g \in DOMAIN setup.toml PROVE FileInv(g)'
  <2>1. CASE g = f
    BY <2>1
  <2>2. CASE g # f
    BY <2>2, OthersKeep
  <2> QED BY <2>1, <2>2
<1>2. setup' = setup
  BY DEF Moves
<1>3. \A g \in DOMAIN setup'.toml : FileInv(g)'
  BY <1>1, <1>2
<1> QED BY <1>3 DEF EditsInv

\* Refusing an edit keeps the invariant.
LEMMA RefuseKeeps ==
  ASSUME EditsInv, NEW j \in DOMAIN edits, Refuse(j)
  PROVE  EditsInv'
<1>0. PICK f : f = Job(j).file
  OBVIOUS
<1>1. /\ edits[j].pc = "asked" /\ At(j, "refused") /\ setup' = setup
      /\ toml' = toml /\ wanted' = wanted /\ clean' = clean
  BY DEF Refuse
<1>2. EditTypes /\ FileInv(f) /\ f \in DOMAIN setup.toml
  BY <1>0, JobTypes DEF EditsInv
<1>3. /\ DOMAIN edits' = DOMAIN edits
      /\ \A k \in DOMAIN edits : edits'[k] = [pc |-> edits'[k].pc, text |-> edits'[k].text]
      /\ edits'[j].pc = "refused" /\ \A k \in DOMAIN edits : k # j => edits'[k] = edits[k]
      /\ \A k : Job(k)' = Job(k)
  BY <1>1, <1>2, StageSet
<1>4. \A k \in DOMAIN edits : Writes(k, f)' => Writes(k, f) /\ k # j
  BY <1>0, <1>1, <1>3 DEF Writes
<1>5. \A k \in DOMAIN edits : Opened(k, f) => Opened(k, f)'
  BY <1>0, <1>1, <1>3 DEF Opened
<1>6. \A k \in DOMAIN edits : Result(k)' = Result(k)
  BY <1>1, <1>3 DEF Result
<1>7. FileInv(f)'
  BY <1>1, <1>2, <1>3, <1>4, <1>5, <1>6 DEF FileInv
<1>8. EditTypes' /\ Moves(j)
  BY <1>0, <1>1, <1>2, <1>3 DEF EditTypes, Moves
<1> QED BY <1>0, <1>7, <1>8, OneFileMoves

\* Reading the file to be edited keeps it.
LEMMA ReadKeeps ==
  ASSUME EditsInv, NEW j \in DOMAIN edits, ReadConfig(j)
  PROVE  EditsInv'
<1>0. PICK f : f = Job(j).file
  OBVIOUS
<1> DEFINE text == SetRuleIgnored(toml[f], Job(j).rule, Job(j).ignored)
<1>1. /\ edits[j].pc = "asked" /\ setup' = setup /\ toml' = toml
      /\ clean' = [clean EXCEPT ![f] = @ /\ ~Busy(f)]
      /\ \/ text = toml[f] /\ At(j, "done") /\ Decided(j)
         \/ edits' = [edits EXCEPT ![j] = [pc |-> "read", text |-> text]] /\ wanted' = wanted
  BY <1>0 DEF ReadConfig
<1>2. EditTypes /\ FileInv(f) /\ f \in DOMAIN setup.toml /\ Job(j).rule \in STRING /\ Job(j).ignored \in BOOLEAN
  BY <1>0, JobTypes DEF EditsInv
<1>3. \A k : Job(k)' = Job(k)
  BY <1>1 DEF Job
<1> HIDE DEF text
<1>4. /\ DOMAIN edits' = DOMAIN edits /\ \A k \in DOMAIN edits : k # j => edits'[k] = edits[k]
      /\ \A k \in DOMAIN edits : edits'[k] = [pc |-> edits'[k].pc, text |-> edits'[k].text]
  <2>1. CASE At(j, "done")
    BY <1>1, <1>2, <2>1, StageSet
  <2>2. CASE edits' = [edits EXCEPT ![j] = [pc |-> "read", text |-> text]]
    <3>1. DOMAIN edits' = DOMAIN edits /\ (\A k \in DOMAIN edits : k # j => edits'[k] = edits[k])
          /\ edits'[j] = [pc |-> "read", text |-> text]
      BY <2>2
    <3> QED BY <1>2, <3>1 DEF EditTypes
  <2> QED BY <1>1, <2>1, <2>2
<1>5. DOMAIN wanted' = DOMAIN wanted /\ \A g \in DOMAIN setup.toml : g # f => wanted'[g] = wanted[g]
  BY <1>0, <1>1, <1>2 DEF Decided, EditTypes
<1>6. clean' \in [DOMAIN setup.toml -> BOOLEAN] /\ (clean'[f] => clean[f] /\ ~Busy(f))
      /\ \A g \in DOMAIN setup.toml : g # f => clean'[g] = clean[g]
  <2>1. Busy(f) \in BOOLEAN
    BY DEF Busy
  <2>2. clean \in [DOMAIN setup.toml -> BOOLEAN]
    BY <1>2 DEF EditTypes
  <2> QED BY <1>1, <1>2, <2>1, <2>2
<1>7. EditTypes' /\ Moves(j)
  BY <1>0, <1>1, <1>2, <1>4, <1>5, <1>6 DEF EditTypes, Moves
<1>8. FileInv(f)'
  <2>1. ASSUME clean'[f]
        PROVE  /\ clean[f] /\ \A k \in DOMAIN edits : k # j => ~Writes(k, f)'
               /\ Leaves(setup.toml[f], toml[f], wanted[f])
               /\ Leaves(setup.toml[f], text, Result(j))
    <3>1. clean[f] /\ \A k \in DOMAIN edits : ~Writes(k, f)
      BY <1>6, <2>1 DEF Busy, Writes
    <3>2. \A k \in DOMAIN edits : ~Opened(k, f)
      BY <3>1 DEF Opened, Writes
    <3>3. Leaves(setup.toml[f], toml[f], wanted[f])
      BY <1>2, <3>1, <3>2 DEF FileInv
    <3>4. toml[f] \in TomlText /\ Plainly(toml[f]) /\ Ignored(toml[f]) = wanted[f]
      BY <3>3 DEF Leaves
    <3>5. Leaves(toml[f], text, IgnoredWith(Ignored(toml[f]), Job(j).rule, Job(j).ignored))
      BY <1>2, <3>4, EditLeaves DEF text
    <3>6. Leaves(toml[f], text, Result(j))
      BY <1>0, <3>4, <3>5 DEF Result
    <3>7. Leaves(setup.toml[f], text, Result(j))
      BY <3>3, <3>6, LeavesOn
    <3>8. \A k \in DOMAIN edits : k # j => ~Writes(k, f)'
      BY <1>3, <1>4, <3>1 DEF Writes
    <3> QED BY <3>1, <3>3, <3>7, <3>8
  <2>2. CASE text = toml[f] /\ At(j, "done") /\ Decided(j)
    <3>1. edits'[j].pc = "done"
      BY <1>1, <1>2, <2>2, StageSet
    <3>2. ~Writes(j, f)'
      BY <3>1 DEF Writes
    <3>3. wanted'[f] = Result(j)
      BY <1>0, <1>2, <2>2 DEF Decided, Result, IgnoredWith, EditTypes
    <3>4. clean'[f] => /\ \A k \in DOMAIN edits : ~Writes(k, f)'
                       /\ Leaves(setup'.toml[f], toml'[f], wanted'[f])
      BY <1>1, <2>1, <2>2, <3>2, <3>3
    <3> QED BY <1>4, <3>4, AtRest
  <2>3. CASE edits' = [edits EXCEPT ![j] = [pc |-> "read", text |-> text]] /\ wanted' = wanted
    <3>1. edits'[j].text = text
      BY <2>3
    <3>2. Result(j)' = Result(j)
      BY <1>1, <1>3, <2>3 DEF Result
    <3>3. clean'[f] => /\ \A k \in DOMAIN edits : Writes(k, f)' => k = j
                       /\ Opened(j, f)' \/ Leaves(setup'.toml[f], toml'[f], wanted'[f])
                       /\ Leaves(setup'.toml[f], edits'[j].text, Result(j)')
      BY <1>1, <2>1, <2>3, <3>1, <3>2
    <3> QED BY <1>4, <3>3, AloneAt
  <2> QED BY <1>1, <2>2, <2>3
<1> QED BY <1>0, <1>7, <1>8, OneFileMoves

\* An edit of a file with one edit at a time is alone there, and its text is what was asked for.
LEMMA WriterAlone ==
  ASSUME EditsInv, NEW j \in DOMAIN edits, NEW f, f = Job(j).file, clean[f], edits[j].pc \in {"read", "open"}
  PROVE  /\ \A k \in DOMAIN edits : k # j => ~Writes(k, f)
         /\ Leaves(setup.toml[f], edits[j].text, Result(j))
<1>1. FileInv(f)
  BY JobTypes DEF EditsInv
<1>2. Writes(j, f)
  BY DEF Writes
<1> QED BY <1>1, <1>2 DEF FileInv

\* So does opening the file for writing, which empties it.
LEMMA OpenKeeps ==
  ASSUME EditsInv, NEW j \in DOMAIN edits, OpenConfig(j)
  PROVE  EditsInv'
<1>0. PICK f : f = Job(j).file
  OBVIOUS
<1>1. /\ edits[j].pc = "read" /\ At(j, "open") /\ setup' = setup
      /\ toml' = [toml EXCEPT ![f] = Empty] /\ wanted' = wanted /\ clean' = clean
  BY <1>0 DEF OpenConfig
<1>2. EditTypes /\ f \in DOMAIN setup.toml
  BY <1>0, JobTypes DEF EditsInv
<1>3. /\ DOMAIN edits' = DOMAIN edits
      /\ \A k \in DOMAIN edits : edits'[k] = [pc |-> edits'[k].pc, text |-> edits'[k].text]
      /\ edits'[j].pc = "open" /\ edits'[j].text = edits[j].text
      /\ \A k \in DOMAIN edits : k # j => edits'[k] = edits[k]
      /\ \A k : Job(k)' = Job(k)
  BY <1>1, <1>2, StageSet
<1>4. EditTypes' /\ Moves(j)
  BY <1>0, <1>1, <1>2, <1>3 DEF EditTypes, Moves
<1>5. Opened(j, f)'
  BY <1>0, <1>3 DEF Opened
<1>6. clean'[f] => /\ \A k \in DOMAIN edits : Writes(k, f)' => k = j
                   /\ Leaves(setup'.toml[f], edits'[j].text, Result(j)')
  <2> SUFFICES ASSUME clean[f]
               PROVE  /\ \A k \in DOMAIN edits : Writes(k, f)' => k = j
                      /\ Leaves(setup.toml[f], edits[j].text, Result(j)')
    BY <1>1, <1>3
  <2>1. (\A k \in DOMAIN edits : k # j => ~Writes(k, f)) /\ Leaves(setup.toml[f], edits[j].text, Result(j))
    BY <1>0, <1>1, WriterAlone
  <2>2. \A k \in DOMAIN edits : k # j => (Writes(k, f)' <=> Writes(k, f))
    BY <1>3 DEF Writes
  <2>3. Result(j)' = Result(j)
    BY <1>1, <1>3 DEF Result
  <2> QED BY <2>1, <2>2, <2>3
<1>7. FileInv(f)'
  BY <1>3, <1>5, <1>6, AloneAt
<1> QED BY <1>0, <1>4, <1>7, OneFileMoves

\* So does writing the edited text.
LEMMA WriteKeeps ==
  ASSUME EditsInv, NEW j \in DOMAIN edits, WriteConfig(j)
  PROVE  EditsInv'
<1>0. PICK f : f = Job(j).file
  OBVIOUS
<1>1. /\ edits[j].pc = "open" /\ At(j, "done") /\ setup' = setup /\ Decided(j)
      /\ toml' = [toml EXCEPT ![f] = edits[j].text] /\ clean' = clean
  BY <1>0 DEF WriteConfig
<1>2. EditTypes /\ f \in DOMAIN setup.toml
  BY <1>0, JobTypes DEF EditsInv
<1>3. /\ DOMAIN edits' = DOMAIN edits
      /\ \A k \in DOMAIN edits : edits'[k] = [pc |-> edits'[k].pc, text |-> edits'[k].text]
      /\ edits'[j].pc = "done" /\ \A k \in DOMAIN edits : k # j => edits'[k] = edits[k]
      /\ \A k : Job(k)' = Job(k)
  BY <1>1, <1>2, StageSet
<1>4. /\ DOMAIN wanted' = DOMAIN wanted /\ wanted'[f] = Result(j)
      /\ \A g \in DOMAIN setup.toml : g # f => wanted'[g] = wanted[g]
  BY <1>0, <1>1, <1>2 DEF Decided, EditTypes, Result, IgnoredWith
<1>5. EditTypes' /\ Moves(j)
  BY <1>0, <1>1, <1>2, <1>3, <1>4 DEF EditTypes, Moves
<1>6. clean'[f] => /\ \A k \in DOMAIN edits : ~Writes(k, f)'
                   /\ Leaves(setup'.toml[f], toml'[f], wanted'[f])
  <2> SUFFICES ASSUME clean[f]
               PROVE  /\ \A k \in DOMAIN edits : ~Writes(k, f)'
                      /\ Leaves(setup.toml[f], toml'[f], wanted'[f])
    BY <1>1
  <2>1. (\A k \in DOMAIN edits : k # j => ~Writes(k, f)) /\ Leaves(setup.toml[f], edits[j].text, Result(j))
    BY <1>0, <1>1, WriterAlone
  <2>2. \A k \in DOMAIN edits : ~Writes(k, f)'
    BY <1>3, <2>1 DEF Writes
  <2>3. toml'[f] = edits[j].text
    BY <1>1, <1>2 DEF EditTypes
  <2> QED BY <1>4, <2>1, <2>2, <2>3
<1>7. FileInv(f)'
  BY <1>3, <1>6, AtRest
<1> QED BY <1>0, <1>5, <1>7, OneFileMoves

\* So does the death of the editing process at any of these points.
LEMMA KillKeeps ==
  ASSUME EditsInv, NEW j \in DOMAIN edits, KillEdit(j)
  PROVE  EditsInv'
<1>0. PICK f : f = Job(j).file
  OBVIOUS
<1>1. /\ edits[j].pc \in {"read", "open"} /\ At(j, "killed") /\ setup' = setup
      /\ clean' = [clean EXCEPT ![f] = @ /\ edits[j].pc = "read"] /\ toml' = toml /\ wanted' = wanted
  BY <1>0 DEF KillEdit
<1>2. EditTypes /\ FileInv(f) /\ f \in DOMAIN setup.toml
  BY <1>0, JobTypes DEF EditsInv
<1>3. /\ DOMAIN edits' = DOMAIN edits
      /\ \A k \in DOMAIN edits : edits'[k] = [pc |-> edits'[k].pc, text |-> edits'[k].text]
      /\ edits'[j].pc = "killed" /\ \A k \in DOMAIN edits : k # j => edits'[k] = edits[k]
      /\ \A k : Job(k)' = Job(k)
  BY <1>1, <1>2, StageSet
<1>4. clean' \in [DOMAIN setup.toml -> BOOLEAN] /\ (clean'[f] => clean[f] /\ edits[j].pc = "read")
      /\ \A g \in DOMAIN setup.toml : g # f => clean'[g] = clean[g]
  BY <1>1, <1>2 DEF EditTypes
<1>5. EditTypes' /\ Moves(j)
  BY <1>0, <1>1, <1>2, <1>3, <1>4 DEF EditTypes, Moves
<1>6. clean'[f] => /\ \A k \in DOMAIN edits : ~Writes(k, f)'
                   /\ Leaves(setup'.toml[f], toml'[f], wanted'[f])
  <2> SUFFICES ASSUME clean[f], edits[j].pc = "read"
               PROVE  /\ \A k \in DOMAIN edits : ~Writes(k, f)'
                      /\ Leaves(setup.toml[f], toml[f], wanted[f])
    BY <1>1, <1>4
  <2>1. \A k \in DOMAIN edits : k # j => ~Writes(k, f)
    BY <1>0, <1>1, WriterAlone
  <2>2. \A k \in DOMAIN edits : ~Writes(k, f)'
    BY <1>3, <2>1 DEF Writes
  <2>3. \A k \in DOMAIN edits : ~Opened(k, f)
    BY <2>1 DEF Opened, Writes
  <2> QED BY <1>2, <2>2, <2>3 DEF FileInv
<1>7. FileInv(f)'
  BY <1>3, <1>6, AtRest
<1> QED BY <1>0, <1>5, <1>7, OneFileMoves

\* The scans read the files and leave them.
LEMMA ScanKeeps ==
  ASSUME EditsInv, UNCHANGED <<setup, toml, edits, wanted, clean>>
  PROVE  EditsInv'
<1>1. \A j : Job(j)' = Job(j) /\ Result(j)' = Result(j)
  BY DEF Job, Result
<1>2. \A j, f : (Writes(j, f)' <=> Writes(j, f)) /\ (Opened(j, f)' <=> Opened(j, f))
  BY <1>1 DEF Writes, Opened
<1>3. \A f : FileInv(f) => FileInv(f)'
  BY <1>1, <1>2 DEF FileInv
<1>4. EditTypes'
  BY DEF EditsInv, EditTypes
<1> QED BY <1>3, <1>4 DEF EditsInv

\* Every step of the specification keeps the invariant of the edits.
LEMMA EditsStep == EditsInv /\ [SetNext]_setVars => EditsInv'
<1> SUFFICES ASSUME EditsInv, [SetNext]_setVars PROVE EditsInv'
  OBVIOUS
<1>1. ASSUME NEW j \in DOMAIN edits, Refuse(j) PROVE EditsInv'
  BY <1>1, RefuseKeeps
<1>2. ASSUME NEW j \in DOMAIN edits, ReadConfig(j) PROVE EditsInv'
  BY <1>2, ReadKeeps
<1>3. ASSUME NEW j \in DOMAIN edits, OpenConfig(j) PROVE EditsInv'
  BY <1>3, OpenKeeps
<1>4. ASSUME NEW j \in DOMAIN edits, WriteConfig(j) PROVE EditsInv'
  BY <1>4, WriteKeeps
<1>5. ASSUME NEW j \in DOMAIN edits, KillEdit(j) PROVE EditsInv'
  BY <1>5, KillKeeps
<1>6. CASE \E folder \in DOMAIN setup.above : StartScan(folder)
  BY <1>6, ScanKeeps DEF StartScan
<1>7. CASE LoadPlugin \/ PluginsLoaded \/ EndScan
  BY <1>7, ScanKeeps DEF LoadPlugin, PluginsLoaded, EndScan
<1>8. CASE UNCHANGED setVars
  BY <1>8, ScanKeeps DEF setVars
<1> QED BY <1>1, <1>2, <1>3, <1>4, <1>5, <1>6, <1>7, <1>8 DEF SetNext

\* A file that is kept is one that the folders below it follow.
LEMMA InvGivesKept == EditsInv => EditsKeep
<1> SUFFICES ASSUME EditsInv, NEW f \in DOMAIN toml, clean[f], \A j \in DOMAIN edits : edits[j].pc # "open" \/ Job(j).file # f
             PROVE  /\ IsToml(toml[f]) /\ OwnConfig(f).ignored = wanted[f]
                    /\ OtherSettings(toml[f]) = OtherSettings(setup.toml[f])
                    /\ \A folder \in DOMAIN setup.above :
                         Last(setup.above[folder]) = f /\ wanted[f] # {} => FolderConfig(folder).ignored = wanted[f]
  BY DEF EditsKeep
<1>1. f \in DOMAIN setup.toml /\ FileInv(f) /\ setup \in Setups /\ DOMAIN toml = DOMAIN setup.toml
  BY DEF EditsInv, EditTypes
<1>2. Leaves(setup.toml[f], toml[f], wanted[f])
  BY <1>1 DEF FileInv, Opened
<1>3. /\ toml[f] \in TomlText /\ IsToml(toml[f]) /\ Ignored(toml[f]) = wanted[f]
      /\ OtherSettings(toml[f]) = OtherSettings(setup.toml[f])
  BY <1>2 DEF Leaves, Plainly
<1>4. OwnConfig(f).ignored = wanted[f]
  BY <1>3 DEF OwnConfig, Ignored
<1>5. ASSUME NEW folder \in DOMAIN setup.above, Last(setup.above[folder]) = f, wanted[f] # {}
      PROVE  FolderConfig(folder).ignored = wanted[f]
  <2> DEFINE above == setup.above[folder]
             chain == [i \in DOMAIN above |-> toml[above[i]]]
             n == Len(above)
  <2>1. above \in Seq(DOMAIN setup.toml) /\ above # <<>>
    BY <1>1, SetupsAssumption
  <2>2. n \in Nat \ {0} /\ DOMAIN above = 1..n
    BY <2>1
  <2>3. above[n] = f
    BY <1>5 DEF Last
  <2>4. DOMAIN chain = 1..n /\ Len(chain) = n /\ chain[n] = toml[f]
    <3> HIDE DEF n
    <3> QED BY <2>2, <2>3
  <2>5. FolderConfig(folder) = BuildConfig(Merged(chain))
    BY DEF FolderConfig
  <2> HIDE DEF chain, n
  <2>6. BuildConfig(Merged(chain)).ignored = Ignored(chain[n])
    BY <1>3, <1>5, <2>2, <2>4, NearestRules
  <2> QED BY <1>3, <2>4, <2>5, <2>6
<1> QED BY <1>3, <1>4, <1>5

\* However many commands and servers edit the configuration: a file that the edits understand, with
\* one edit of it at a time and none of them killed in the middle, lists exactly the rules that were
\* asked for, keeps its other settings, and is followed by the folders below it (set_rule_ignored,
\* load_config).
THEOREM RulesStayEdited == SetSpec => []EditsKeep
<1>1. EditsInv => EditsKeep
  BY InvGivesKept
<1> QED BY <1>1, EditsInit, EditsStep, PTL DEF SetSpec
-----------------------------------------------------------------------------
(* The rule registry and its plugins *)

\* Some places of a sequence, as a recursion says it.
Keeping(f, q, places) ==
  /\ f[0] = <<>>
  /\ \A k \in 1..Len(q) : f[k] = IF k \in places THEN Append(f[k - 1], q[k]) ELSE f[k - 1]

\* Sieving a sequence by places is a fold over its prefixes.
LEMMA KeptIsKeeping ==
  ASSUME NEW T, NEW q \in Seq(T), NEW places
  PROVE  \E f \in [0..Len(q) -> Seq(T)] : Keeping(f, q, places) /\ Kept(q, places) = f[Len(q)]
<1> DEFINE N == Len(q)
           E(r, k) == IF k \in places THEN Append(r, q[k]) ELSE r
           Body(f, k) == IF k = 0 THEN <<>> ELSE IF k \in places THEN Append(f[k - 1], q[k]) ELSE f[k - 1]
           step == [p \in Seq(T) \X (1..N) |-> E(p[1], p[2])]
           G == CHOOSE f : f = [k \in 0..N |-> Body(f, k)]
<1>1. N \in Nat /\ \A k \in 1..N : q[k] \in T
  OBVIOUS
<1>2. \A r \in Seq(T), k \in 1..N : E(r, k) \in Seq(T)
  BY <1>1
<1>3. step \in [Seq(T) \X (1..N) -> Seq(T)] /\ \A r \in Seq(T), k \in 1..N : step[<<r, k>>] = E(r, k)
  <2> HIDE DEF E, N
  <2> QED BY <1>2
<1>4. PICK f \in [0..N -> Seq(T)] : Recursive(f, 0..N, <<>>, step)
  <2>1. <<>> \in Seq(T)
    OBVIOUS
  <2> HIDE DEF step, N
  <2> QED BY <1>1, <1>3, <2>1, IntervalRecursion
<1>5. ASSUME NEW k \in 0..N PROVE f[k] = Body(f, k)
  <2>1. CASE k = 0
    <3> HIDE DEF step
    <3> QED BY <1>4, <2>1 DEF Recursive
  <2>2. CASE k # 0
    <3>1. k \in 1..N /\ k - 1 \in 0..N
      BY <1>1, <2>2
    <3>2. f[k - 1] \in Seq(T)
      BY <1>4, <3>1
    <3>3. f[k] = step[<<f[k - 1], k>>]
      <4> HIDE DEF step
      <4> QED BY <1>4, <2>2 DEF Recursive
    <3>4. f[k] = E(f[k - 1], k)
      <4> HIDE DEF step, E, N
      <4> QED BY <1>3, <3>1, <3>2, <3>3
    <3> QED BY <2>2, <3>4
  <2> QED BY <2>1, <2>2
<1>6. f = [k \in 0..N |-> Body(f, k)]
  <2> HIDE DEF step, Body, N
  <2>1. f = [k \in 0..N |-> f[k]]
    BY <1>4
  <2> QED BY <1>5, <2>1
<1>7. G = [k \in 0..N |-> Body(G, k)]
  <2> HIDE DEF Body, N
  <2> QED BY <1>6
<1>8. Kept(q, places) = G[N]
  BY DEF Kept, G
<1> HIDE DEF G
<1>9. \A k \in 0..N : G[k] = Body(G, k)
  <2> HIDE DEF Body, N
  <2> QED BY <1>7
<1> DEFINE P == {k \in 0..N : G[k] \in Seq(T)}
<1>10. 0 \in P
  <2>1. G[0] = <<>> /\ 0 \in 0..N
    BY <1>1, <1>9
  <2>2. <<>> \in Seq(T)
    OBVIOUS
  <2> QED BY <2>1, <2>2
<1>11. ASSUME NEW k \in 1..N, k - 1 \in P PROVE k \in P
  <2>1. k \in 0..N /\ G[k] = E(G[k - 1], k)
    BY <1>1, <1>9
  <2> QED BY <1>2, <1>11, <2>1
<1>12. 0..N \subseteq P
  <2> HIDE DEF P, N
  <2> QED BY <1>1, <1>10, <1>11, IntervalInduction
<1>13. G \in [0..N -> Seq(T)]
  <2>1. \A k \in 0..N : G[k] \in Seq(T)
    BY <1>12
  <2> HIDE DEF N, Body
  <2> QED BY <1>7, <2>1
<1>14. Keeping(G, q, places)
  BY <1>1, <1>9 DEF Keeping
<1> QED BY <1>8, <1>13, <1>14

\* What is sieved out of a sequence is a sequence of the same items.
LEMMA KeptTypes ==
  ASSUME NEW T, NEW q \in Seq(T), NEW places
  PROVE  Kept(q, places) \in Seq(T)
<1>1. PICK f \in [0..Len(q) -> Seq(T)] : Kept(q, places) = f[Len(q)]
  BY KeptIsKeeping
<1> QED BY <1>1

\* To keep the first places is to cut a sequence.
LEMMA KeptFirst ==
  ASSUME NEW T, NEW q \in Seq(T), NEW places, NEW n \in 0..Len(q), \A k \in 1..Len(q) : k \in places <=> k <= n
  PROVE  Kept(q, places) = SubSeq(q, 1, n)
<1> DEFINE N == Len(q)
           cut(k) == SubSeq(q, 1, IF k <= n THEN k ELSE n)
<1>1. PICK f \in [0..N -> Seq(T)] : Keeping(f, q, places) /\ Kept(q, places) = f[N]
  BY KeptIsKeeping
<1> DEFINE P == {k \in 0..N : f[k] = cut(k)}
<1>2. N \in Nat /\ n \in 0..N
  OBVIOUS
<1>3. 0 \in P
  <2>1. SubSeq(q, 1, 0) = <<>>
    OBVIOUS
  <2> QED BY <1>1, <1>2, <2>1 DEF Keeping
<1>4. ASSUME NEW k \in 1..N, k - 1 \in P PROVE k \in P
  <2>1. k \in 0..N /\ k - 1 \in 0..N /\ f[k - 1] = cut(k - 1)
    BY <1>2, <1>4
  <2>2. CASE k <= n
    <3>1. f[k] = Append(SubSeq(q, 1, k - 1), q[k])
      <4>1. k \in places /\ cut(k - 1) = SubSeq(q, 1, k - 1)
        BY <1>2, <2>2
      <4>2. f[k] = Append(f[k - 1], q[k])
        BY <1>1, <4>1 DEF Keeping
      <4> QED BY <2>1, <4>1, <4>2
    <3>2. SubSeq(q, 1, k) = Append(SubSeq(q, 1, k - 1), q[k])
      BY <1>2
    <3> QED BY <2>1, <2>2, <3>1, <3>2
  <2>3. CASE ~(k <= n)
    <3>1. f[k] = f[k - 1]
      BY <1>1, <1>2, <2>3 DEF Keeping
    <3>2. cut(k) = cut(k - 1)
      <4>1. k - 1 <= n => k - 1 = n
        BY <1>2, <2>3
      <4> QED BY <2>3, <4>1
    <3> QED BY <2>1, <3>1, <3>2
  <2> QED BY <2>2, <2>3
<1>5. 0..N \subseteq P
  <2> HIDE DEF P, N
  <2> QED BY <1>2, <1>3, <1>4, IntervalInduction
<1>6. f[N] = cut(N)
  BY <1>2, <1>5
<1>7. cut(N) = SubSeq(q, 1, n)
  BY <1>2
<1> QED BY <1>1, <1>6, <1>7

RuleSeq      == Seq([name : STRING, valid : BOOLEAN])

\* The fields of the interpreter's state.
LEMMA InterpreterTypes ==
  ASSUME NEW s \in Interpreter
  PROVE  /\ s.registry \in Seq(Registration) /\ s.modules \in SUBSET STRING /\ s.ok \in BOOLEAN
         /\ s = [registry |-> s.registry, modules |-> s.modules, ok |-> s.ok]
         /\ Len(s.registry) \in Nat /\ DOMAIN s.registry = 1..Len(s.registry)
<1>1. s.registry \in Seq(Registration) /\ s.modules \in SUBSET STRING /\ s.ok \in BOOLEAN
  BY DEF Interpreter, Registration
<1>2. s = [registry |-> s.registry, modules |-> s.modules, ok |-> s.ok]
  BY DEF Interpreter
<1> QED BY <1>1, <1>2

\* What one registration does.
Fits(s, r) == r.valid /\ r.name \notin RuleNames(s.registry)

Adds(s, m, r, t) ==
  /\ t \in Interpreter /\ t.modules = s.modules /\ (t.ok <=> s.ok /\ Fits(s, r))
  /\ t.registry = IF s.ok /\ Fits(s, r) THEN Append(s.registry, [name |-> r.name, by |-> m]) ELSE s.registry

\* Registering a rule appends it, or fails and appends nothing.
LEMMA RegisterIs ==
  ASSUME NEW s \in Interpreter, NEW m \in STRING, NEW r \in [name : STRING, valid : BOOLEAN]
  PROVE  Adds(s, m, r, Register(s, m, r))
<1> DEFINE n == [name |-> r.name, by |-> m]
           t == Register(s, m, r)
<1>1. n \in Registration /\ s.registry \in Seq(Registration) /\ s.modules \in SUBSET STRING /\ s.ok \in BOOLEAN
  BY InterpreterTypes DEF Registration
<1>2. Append(s.registry, n) \in Seq(Registration)
  BY <1>1
<1>3. s = [registry |-> s.registry, modules |-> s.modules, ok |-> s.ok]
  BY InterpreterTypes
<1>4. t = IF ~s.ok THEN s ELSE IF ~Fits(s, r) THEN [s EXCEPT !.ok = FALSE] ELSE [s EXCEPT !.registry = Append(@, n)]
  BY DEF Register, Fits
<1>0. SUFFICES /\ t \in Interpreter /\ t.modules = s.modules
               /\ t.ok <=> s.ok /\ Fits(s, r)
               /\ t.registry = IF s.ok /\ Fits(s, r) THEN Append(s.registry, n) ELSE s.registry
  BY DEF Adds
<1> HIDE DEF t, n
<1>5. CASE ~s.ok
  BY <1>4, <1>5
<1>6. CASE s.ok /\ ~Fits(s, r)
  <2>1. t = [registry |-> s.registry, modules |-> s.modules, ok |-> FALSE]
    BY <1>3, <1>4, <1>6
  <2>2. t \in Interpreter
    BY <1>1, <2>1 DEF Interpreter, Registration
  <2> QED BY <1>6, <2>1, <2>2
<1>7. CASE s.ok /\ Fits(s, r)
  <2>1. t = [registry |-> Append(s.registry, n), modules |-> s.modules, ok |-> s.ok]
    BY <1>3, <1>4, <1>7
  <2>2. t \in Interpreter
    BY <1>1, <1>2, <2>1 DEF Interpreter, Registration
  <2> QED BY <1>7, <2>1, <2>2
<1> QED BY <1>5, <1>6, <1>7

\* The rules of a module, one registration at a time.
Registering(f, rules, s, module) ==
  f[0] = s /\ \A k \in 1..Len(rules) : f[k] = Register(f[k - 1], module, rules[k])

\* Registering a module's rules is a fold over its rules, one at a time.
LEMMA RegisteredIs ==
  ASSUME NEW rules \in RuleSeq, NEW s \in Interpreter, NEW m \in STRING
  PROVE  \E f \in [0..Len(rules) -> Interpreter] :
           Registering(f, rules, s, m) /\ Registered(rules, s, m) = f[Len(rules)]
<1> DEFINE N == Len(rules)
           Body(f, k) == IF k = 0 THEN s ELSE Register(f[k - 1], m, rules[k])
           step == [p \in Interpreter \X (1..N) |-> Register(p[1], m, rules[p[2]])]
           G == CHOOSE f : f = [k \in 0..N |-> Body(f, k)]
<1>1. N \in Nat /\ \A k \in 1..N : rules[k] \in [name : STRING, valid : BOOLEAN]
  <2> DEFINE R == [name : STRING, valid : BOOLEAN]
  <2>1. rules \in Seq(R)
    BY DEF RuleSeq
  <2> HIDE DEF R
  <2>2. N \in Nat /\ \A k \in 1..N : rules[k] \in R
    BY <2>1
  <2> QED BY <2>2 DEF R
<1>2. \A r \in Interpreter, k \in 1..N : Register(r, m, rules[k]) \in Interpreter
  BY <1>1, RegisterIs DEF Adds
<1>3. step \in [Interpreter \X (1..N) -> Interpreter]
      /\ \A r \in Interpreter, k \in 1..N : step[<<r, k>>] = Register(r, m, rules[k])
  <2> HIDE DEF N
  <2> QED BY <1>2
<1>4. PICK f \in [0..N -> Interpreter] : Recursive(f, 0..N, s, step)
  <2> HIDE DEF step, N
  <2> QED BY <1>1, <1>3, IntervalRecursion
<1>5. ASSUME NEW k \in 0..N PROVE f[k] = Body(f, k)
  <2>1. CASE k = 0
    <3> HIDE DEF step
    <3> QED BY <1>4, <2>1 DEF Recursive
  <2>2. CASE k # 0
    <3>1. k \in 1..N /\ k - 1 \in 0..N
      BY <1>1, <2>2
    <3>2. f[k - 1] \in Interpreter
      BY <1>4, <3>1
    <3>3. f[k] = step[<<f[k - 1], k>>]
      <4> HIDE DEF step
      <4> QED BY <1>4, <2>2 DEF Recursive
    <3>4. f[k] = Register(f[k - 1], m, rules[k])
      <4> HIDE DEF step, N
      <4> QED BY <1>3, <3>1, <3>2, <3>3
    <3> QED BY <2>2, <3>4
  <2> QED BY <2>1, <2>2
<1>6. f = [k \in 0..N |-> Body(f, k)]
  <2> HIDE DEF step, Body, N
  <2>1. f = [k \in 0..N |-> f[k]]
    BY <1>4
  <2> QED BY <1>5, <2>1
<1>7. G = [k \in 0..N |-> Body(G, k)]
  <2> HIDE DEF Body, N
  <2> QED BY <1>6
<1>8. Registered(rules, s, m) = G[N]
  BY DEF Registered, G
<1> HIDE DEF G
<1>9. \A k \in 0..N : G[k] = Body(G, k)
  <2> HIDE DEF Body, N
  <2> QED BY <1>7
<1> DEFINE P == {k \in 0..N : G[k] \in Interpreter}
<1>10. 0 \in P
  BY <1>1, <1>9
<1>11. ASSUME NEW k \in 1..N, k - 1 \in P PROVE k \in P
  <2>1. k \in 0..N /\ G[k] = Register(G[k - 1], m, rules[k])
    BY <1>1, <1>9
  <2> QED BY <1>2, <1>11, <2>1
<1>12. 0..N \subseteq P
  <2> HIDE DEF P, N
  <2> QED BY <1>1, <1>10, <1>11, IntervalInduction
<1>13. G \in [0..N -> Interpreter]
  <2>1. \A k \in 0..N : G[k] \in Interpreter
    BY <1>12
  <2> HIDE DEF N, Body
  <2> QED BY <1>7, <2>1
<1>14. Registering(G, rules, s, m)
  <2>1. \A k \in 1..N : k \in 0..N /\ k # 0
    BY <1>1
  <2>2. 0 \in 0..N
    BY <1>1
  <2> QED BY <1>9, <2>1, <2>2 DEF Registering
<1> QED BY <1>8, <1>13, <1>14

\* The imports of a module, one at a time.
Using(f, uses, s, import) ==
  f[0] = s /\ \A k \in 1..Len(uses) : f[k] = import[<<uses[k], f[k - 1]>>]

Uses(f, uses, s, import) == Using(f, uses, s, import) /\ Used(uses, s, import) = f[Len(uses)]

\* Importing the modules a module uses is a fold over its import lines.
LEMMA UsedIs ==
  ASSUME NEW D, NEW uses \in Seq(D), NEW s \in Interpreter,
         NEW Q, Q = D \X Interpreter, NEW import \in [Q -> Interpreter]
  PROVE  \E f \in [0..Len(uses) -> Interpreter] : Uses(f, uses, s, import)
<1> DEFINE N == Len(uses)
           Body(f, k) == IF k = 0 THEN s ELSE import[<<uses[k], f[k - 1]>>]
           step == [p \in Interpreter \X (1..N) |-> import[<<uses[p[2]], p[1]>>]]
           G == CHOOSE f : f = [k \in 0..N |-> Body(f, k)]
<1>1. N \in Nat /\ \A k \in 1..N : uses[k] \in D
  OBVIOUS
<1>2. \A r \in Interpreter, k \in 1..N : import[<<uses[k], r>>] \in Interpreter
  BY <1>1
<1>3. step \in [Interpreter \X (1..N) -> Interpreter]
      /\ \A r \in Interpreter, k \in 1..N : step[<<r, k>>] = import[<<uses[k], r>>]
  <2> HIDE DEF N
  <2> QED BY <1>2
<1>4. PICK f \in [0..N -> Interpreter] : Recursive(f, 0..N, s, step)
  <2> HIDE DEF step, N
  <2> QED BY <1>1, <1>3, IntervalRecursion
<1>5. ASSUME NEW k \in 0..N PROVE f[k] = Body(f, k)
  <2>1. CASE k = 0
    <3> HIDE DEF step
    <3> QED BY <1>4, <2>1 DEF Recursive
  <2>2. CASE k # 0
    <3>1. k \in 1..N /\ k - 1 \in 0..N
      BY <1>1, <2>2
    <3>2. f[k - 1] \in Interpreter
      BY <1>4, <3>1
    <3>3. f[k] = step[<<f[k - 1], k>>]
      <4> HIDE DEF step
      <4> QED BY <1>4, <2>2 DEF Recursive
    <3>4. f[k] = import[<<uses[k], f[k - 1]>>]
      <4> HIDE DEF step, N
      <4> QED BY <1>3, <3>1, <3>2, <3>3
    <3> QED BY <2>2, <3>4
  <2> QED BY <2>1, <2>2
<1>6. f = [k \in 0..N |-> Body(f, k)]
  <2> HIDE DEF step, Body, N
  <2>1. f = [k \in 0..N |-> f[k]]
    BY <1>4
  <2> QED BY <1>5, <2>1
<1>7. G = [k \in 0..N |-> Body(G, k)]
  <2> HIDE DEF Body, N
  <2> QED BY <1>6
<1>8. Used(uses, s, import) = G[N]
  BY DEF Used, G
<1> HIDE DEF G
<1>9. \A k \in 0..N : G[k] = Body(G, k)
  <2> HIDE DEF Body, N
  <2> QED BY <1>7
<1> DEFINE P == {k \in 0..N : G[k] \in Interpreter}
<1>10. 0 \in P
  <2>1. 0 \in 0..N
    BY <1>1
  <2>2. G[0] = s
    BY <1>9, <2>1
  <2> QED BY <2>1, <2>2
<1>11. ASSUME NEW k \in 1..N, k - 1 \in P PROVE k \in P
  <2>1. k \in 0..N /\ G[k] = import[<<uses[k], G[k - 1]>>]
    BY <1>1, <1>9
  <2> QED BY <1>2, <1>11, <2>1
<1>12. 0..N \subseteq P
  <2> HIDE DEF P, N
  <2> QED BY <1>1, <1>10, <1>11, IntervalInduction
<1>13. G \in [0..N -> Interpreter]
  <2>1. \A k \in 0..N : G[k] \in Interpreter
    BY <1>12
  <2> HIDE DEF N, Body
  <2> QED BY <1>7, <2>1
<1>14. Using(G, uses, s, import)
  <2>1. \A k \in 1..N : k \in 0..N /\ k # 0
    BY <1>1
  <2>2. 0 \in 0..N
    BY <1>1
  <2> QED BY <1>9, <2>1, <2>2 DEF Using
<1>15. Uses(G, uses, s, import)
  BY <1>8, <1>14 DEF Uses
<1> QED BY <1>13, <1>15

\* Code without import cycles.
CodeOk(code, rank, B) ==
  /\ DOMAIN code \subseteq STRING /\ code \in [DOMAIN code -> PluginModule(DOMAIN code)]
  /\ B \in Nat /\ rank \in [DOMAIN code -> 0..B]
  /\ \A m \in DOMAIN code : \A u \in ToSet(code[m].uses) : rank[u] < rank[m]

\* The fields of a module.
LEMMA ModuleTypes ==
  ASSUME NEW code, NEW rank, NEW B, CodeOk(code, rank, B), NEW m \in DOMAIN code
  PROVE  /\ m \in STRING /\ code[m].uses \in Seq(DOMAIN code) /\ code[m].rules \in RuleSeq
         /\ Len(code[m].uses) \in Nat /\ Len(code[m].rules) \in Nat
         /\ code[m].raises \in BOOLEAN
         /\ \A k \in 1..Len(code[m].uses) : code[m].uses[k] \in ToSet(code[m].uses)
         /\ \A u \in ToSet(code[m].uses) : u \in DOMAIN code /\ \E k \in 1..Len(code[m].uses) : u = code[m].uses[k]
<1>1. code[m] \in PluginModule(DOMAIN code) /\ m \in STRING
  BY DEF CodeOk
<1>2. code[m].uses \in Seq(DOMAIN code) /\ code[m].rules \in RuleSeq /\ code[m].raises \in BOOLEAN
  BY <1>1 DEF PluginModule, RuleSeq
<1>3. Len(code[m].uses) \in Nat /\ DOMAIN code[m].uses = 1..Len(code[m].uses)
      /\ \A k \in 1..Len(code[m].uses) : code[m].uses[k] \in DOMAIN code
  BY <1>2
<1>4. Len(code[m].rules) \in Nat
  <2> DEFINE R == [name : STRING, valid : BOOLEAN]
  <2>1. code[m].rules \in Seq(R)
    BY <1>2 DEF RuleSeq
  <2> HIDE DEF R
  <2> QED BY <2>1
<1>5. ToSet(code[m].uses) = {code[m].uses[k] : k \in 1..Len(code[m].uses)}
  BY <1>3 DEF ToSet
<1> QED BY <1>1, <1>2, <1>3, <1>4, <1>5

\* The state in which a module's own code ends.
RunLast(code, s, m, import) == Registered(code[m].rules, Used(code[m].uses, s, import), m)

Ends(code, m, last, t) ==
  /\ t \in Interpreter /\ t.registry = last.registry /\ (t.ok <=> last.ok /\ ~code[m].raises)
  /\ t.modules = IF t.ok THEN last.modules \cup {m} ELSE last.modules

\* Running a module's body ends in a failure or with the module loaded.
LEMMA RunIs ==
  ASSUME NEW code, NEW rank, NEW B, CodeOk(code, rank, B), NEW s \in Interpreter, NEW m \in DOMAIN code,
         NEW import \in [(DOMAIN code) \X Interpreter -> Interpreter]
  PROVE  Ends(code, m, RunLast(code, s, m, import), Run(code, s, m, import))
<1> DEFINE t == RunLast(code, s, m, import)
           ok == t.ok /\ ~code[m].raises
           r == Run(code, s, m, import)
<1>1. code[m].uses \in Seq(DOMAIN code) /\ code[m].rules \in RuleSeq /\ m \in STRING
  BY ModuleTypes
<1>2. Used(code[m].uses, s, import) \in Interpreter
  <2> DEFINE q == code[m].uses
             D == DOMAIN code
             Q == D \X Interpreter
  <2>1. q \in Seq(D) /\ Q = D \X Interpreter /\ import \in [Q -> Interpreter]
    BY <1>1
  <2>2. Len(q) \in 0..Len(q)
    BY ModuleTypes
  <2> HIDE DEF q, D, Q
  <2>3. PICK f \in [0..Len(q) -> Interpreter] : Uses(f, q, s, import)
    BY <2>1, UsedIs
  <2>4. Used(q, s, import) \in Interpreter
    BY <2>2, <2>3 DEF Uses
  <2> QED BY <2>4 DEF q
<1>3. t \in Interpreter
  <2> DEFINE u == Used(code[m].uses, s, import)
  <2>1. PICK f \in [0..Len(code[m].rules) -> Interpreter] : Registered(code[m].rules, u, m) = f[Len(code[m].rules)]
    BY <1>1, <1>2, RegisteredIs
  <2>2. Len(code[m].rules) \in 0..Len(code[m].rules)
    BY ModuleTypes
  <2> QED BY <2>1, <2>2 DEF RunLast
<1>4. r = [t EXCEPT !.ok = ok, !.modules = IF ok THEN @ \cup {m} ELSE @]
  BY DEF Run, RunLast
<1> SUFFICES r \in Interpreter /\ r.registry = t.registry /\ (r.ok <=> ok)
             /\ r.modules = (IF r.ok THEN t.modules \cup {m} ELSE t.modules)
  BY DEF Ends
<1> HIDE DEF r, t
<1>5. t = [registry |-> t.registry, modules |-> t.modules, ok |-> t.ok]
      /\ t.registry \in Seq(Registration) /\ t.modules \in SUBSET STRING
  BY <1>3, InterpreterTypes
<1> HIDE DEF ok
<1>6. r = [registry |-> t.registry, modules |-> IF ok THEN t.modules \cup {m} ELSE t.modules, ok |-> ok]
  BY <1>4, <1>5
<1>7. ok \in BOOLEAN
  BY DEF ok
<1>8. (IF ok THEN t.modules \cup {m} ELSE t.modules) \in SUBSET STRING
  BY <1>1, <1>5
<1>9. r \in Interpreter
  BY <1>5, <1>6, <1>7, <1>8 DEF Interpreter, Registration
<1> QED BY <1>3, <1>6, <1>9

\* A run asks the imports of what the module uses, and no other.
LEMMA RunLocal ==
  ASSUME NEW code, NEW rank, NEW B, CodeOk(code, rank, B), NEW s \in Interpreter, NEW m \in DOMAIN code,
         NEW f \in [(DOMAIN code) \X Interpreter -> Interpreter], NEW g,
         \A u \in ToSet(code[m].uses), x \in Interpreter : f[<<u, x>>] = g[<<u, x>>]
  PROVE  Run(code, s, m, f) = Run(code, s, m, g)
<1> DEFINE q == code[m].uses
           N == Len(q)
           D == DOMAIN code
           Body(h, k) == IF k = 0 THEN s ELSE g[<<q[k], h[k - 1]>>]
           G == CHOOSE h : h = [k \in 0..N |-> Body(h, k)]
<1>1. q \in Seq(D) /\ N \in Nat /\ \A k \in 1..N : q[k] \in ToSet(q)
  BY ModuleTypes
<1>2. \E a \in [0..N -> Interpreter] : Uses(a, q, s, f)
  <2> DEFINE Q == D \X Interpreter
  <2>1. Q = D \X Interpreter /\ f \in [Q -> Interpreter]
    OBVIOUS
  <2> HIDE DEF q, D, Q
  <2> QED BY <1>1, <2>1, UsedIs
<1>20. PICK a \in [0..N -> Interpreter] : Using(a, q, s, f) /\ Used(q, s, f) = a[N]
  BY <1>2 DEF Uses
<1>3. ASSUME NEW k \in 0..N PROVE a[k] = Body(a, k)
  <2>1. CASE k = 0
    BY <1>20, <2>1 DEF Using
  <2>2. CASE k # 0
    <3>1. k \in 1..N /\ k - 1 \in 0..N /\ a[k - 1] \in Interpreter
      BY <1>1, <1>20, <2>2
    <3>2. a[k] = f[<<q[k], a[k - 1]>>]
      BY <1>20, <3>1 DEF Using
    <3>3. f[<<q[k], a[k - 1]>>] = g[<<q[k], a[k - 1]>>]
      BY <1>1, <3>1
    <3> QED BY <2>2, <3>2, <3>3
  <2> QED BY <2>1, <2>2
<1>4. a = [k \in 0..N |-> Body(a, k)]
  <2> HIDE DEF Body, N
  <2>1. a = [k \in 0..N |-> a[k]]
    BY <1>20
  <2> QED BY <1>3, <2>1
<1>5. G = [k \in 0..N |-> Body(G, k)]
  <2> HIDE DEF Body, N
  <2> QED BY <1>4
<1>6. Used(q, s, g) = G[N]
  BY DEF Used, G
<1> HIDE DEF G
<1>7. \A k \in 0..N : G[k] = Body(G, k)
  <2> HIDE DEF Body, N
  <2> QED BY <1>5
<1> DEFINE P == {k \in 0..N : a[k] = G[k]}
<1>8. 0 \in P
  <2>1. 0 \in 0..N
    BY <1>1
  <2>2. a[0] = s /\ G[0] = s
    BY <1>3, <1>7, <2>1
  <2> QED BY <2>1, <2>2
<1>9. ASSUME NEW k \in 1..N, k - 1 \in P PROVE k \in P
  <2>1. k \in 0..N /\ k # 0 /\ a[k - 1] = G[k - 1]
    BY <1>1, <1>9
  <2>2. a[k] = Body(a, k) /\ G[k] = Body(G, k)
    BY <1>3, <1>7, <2>1
  <2> QED BY <2>1, <2>2
<1>10. 0..N \subseteq P
  <2> HIDE DEF P, N
  <2> QED BY <1>1, <1>8, <1>9, IntervalInduction
<1>11. a[N] = G[N]
  BY <1>1, <1>10
<1>12. Used(q, s, f) = Used(q, s, g)
  BY <1>20, <1>6, <1>11
<1> HIDE DEF G
<1> QED BY <1>12 DEF Run

\* What an import does, by what the imports below it do.
Importing(import, code) ==
  \A m \in DOMAIN code, s \in Interpreter :
    import[<<m, s>>] = IF ~s.ok \/ m \in s.modules THEN s ELSE Run(code, s, m, import)

Imports(import, code) == Importing(import, code) /\ \A m, s : Import(code, s, m) = import[<<m, s>>]

\* The recursive function of the import satisfies its own equation: imports run in rank order.
LEMMA ImportIs ==
  ASSUME NEW code, NEW rank, NEW B, CodeOk(code, rank, B)
  PROVE  \E import \in [(DOMAIN code) \X Interpreter -> Interpreter] :
           Imports(import, code)
<1> DEFINE D == (DOMAIN code) \X Interpreter
           Body(f, p) == IF ~p[2].ok \/ p[1] \in p[2].modules THEN p[2] ELSE Run(code, p[2], p[1], f)
           F == [D -> Interpreter]
           step == [x \in F \X D |-> Body(x[1], x[2])]
           height == [p \in D |-> rank[p[1]]]
           start == [p \in D |-> p[2]]
           G == CHOOSE f : f = [p \in D |-> Body(f, p)]
<1>1. B \in Nat /\ rank \in [DOMAIN code -> 0..B]
      /\ \A m \in DOMAIN code : \A u \in ToSet(code[m].uses) : rank[u] < rank[m]
  BY DEF CodeOk
<1>2. \A p \in D : p[1] \in DOMAIN code /\ p[2] \in Interpreter /\ p = <<p[1], p[2]>>
  OBVIOUS
<1>3. ASSUME NEW f \in F, NEW p \in D PROVE Body(f, p) \in Interpreter
  <2>1. Run(code, p[2], p[1], f) \in Interpreter
    BY <1>2, RunIs DEF Ends
  <2> QED BY <1>2, <2>1
<1>4. step \in [F \X D -> Interpreter] /\ \A f \in F, p \in D : step[<<f, p>>] = Body(f, p)
  <2> HIDE DEF D, F, Body
  <2> QED BY <1>3
<1>5. height \in [D -> 0..B] /\ \A p \in D : height[p] = rank[p[1]]
  <2> HIDE DEF D
  <2> QED BY <1>1, <1>2
<1>6. start \in F
  <2> HIDE DEF D
  <2> QED BY <1>2
<1>7. ASSUME NEW f \in F, NEW g, NEW p \in D, \A e \in D : height[e] < height[p] => f[e] = g[e]
      PROVE  Body(f, p) = Body(g, p)
  <2>1. p[1] \in DOMAIN code /\ p[2] \in Interpreter
    BY <1>2
  <2>2. \A u \in ToSet(code[p[1]].uses), x \in Interpreter : f[<<u, x>>] = g[<<u, x>>]
    <3> SUFFICES ASSUME NEW u \in ToSet(code[p[1]].uses), NEW x \in Interpreter PROVE f[<<u, x>>] = g[<<u, x>>]
      OBVIOUS
    <3>1. u \in DOMAIN code /\ rank[u] < rank[p[1]]
      BY <1>1, <2>1, ModuleTypes
    <3>2. <<u, x>> \in D /\ <<u, x>>[1] = u
      BY <3>1
    <3>3. height[<<u, x>>] < height[p]
      <4> HIDE DEF height, D
      <4>1. height[<<u, x>>] = rank[u] /\ height[p] = rank[p[1]]
        BY <1>5, <3>2
      <4> QED BY <3>1, <4>1
    <3> HIDE DEF height, D
    <3> QED BY <1>7, <3>2, <3>3
  <2>3. Run(code, p[2], p[1], f) = Run(code, p[2], p[1], g)
    BY <2>1, <2>2, RunLocal
  <2> QED BY <2>3
<1>8. Local(step, D, Interpreter, height)
  <2> SUFFICES ASSUME NEW f \in F, NEW g \in F, NEW p \in D, \A e \in D : height[e] < height[p] => f[e] = g[e]
               PROVE  step[<<f, p>>] = step[<<g, p>>]
    BY DEF Local
  <2> HIDE DEF D, F, Body, step, height
  <2>1. Body(f, p) = Body(g, p)
    BY <1>7
  <2> QED BY <1>4, <2>1
<1>9. PICK f \in F : \A p \in D : f[p] = step[<<f, p>>]
  <2>1. step \in [F \X D -> Interpreter] /\ start \in F /\ F = [D -> Interpreter]
    BY <1>4, <1>6
  <2> HIDE DEF D, step, height, start, F
  <2>2. \E f \in F : Solves(f, step, D)
    <3>1. B \in Nat
      BY <1>1
    <3>2. height \in [D -> 0..B]
      BY <1>5
    <3> QED BY <1>8, <2>1, <3>1, <3>2, RankRecursion
  <2> QED BY <2>2 DEF Solves
<1>10. f = [p \in D |-> Body(f, p)]
  <2>1. \A p \in D : f[p] = Body(f, p)
    <3> HIDE DEF step, D, F, Body
    <3> QED BY <1>4, <1>9
  <2>2. f = [p \in D |-> f[p]]
    OBVIOUS
  <2> HIDE DEF Body, D
  <2> QED BY <2>1, <2>2
<1>11. G = [p \in D |-> Body(G, p)]
  <2> HIDE DEF Body, D
  <2> QED BY <1>10
<1>12. \A m, s : Import(code, s, m) = G[<<m, s>>]
  BY DEF Import, G
<1> HIDE DEF G
<1> DEFINE P == {p \in D : f[p] = G[p]}
<1>13. ASSUME NEW p \in D, \A e \in D : height[e] < height[p] => e \in P PROVE p \in P
  <2>1. \A e \in D : height[e] < height[p] => f[e] = G[e]
    BY <1>13
  <2> HIDE DEF D, F, Body, height
  <2>2. Body(f, p) = Body(G, p)
    BY <1>7, <2>1
  <2>3. f[p] = Body(f, p) /\ G[p] = Body(G, p)
    BY <1>10, <1>11
  <2> QED BY <2>2, <2>3
<1>14. D \subseteq P
  <2>1. height \in [D -> Nat]
    BY <1>1, <1>5
  <2> HIDE DEF D, P, height
  <2> QED BY <1>13, <2>1, RankInduction
<1>15. G = f
  <2> HIDE DEF Body, D
  <2>1. \A p \in D : f[p] = G[p]
    BY <1>14
  <2>2. f = [p \in D |-> f[p]] /\ G = [p \in D |-> G[p]]
    BY <1>10, <1>11
  <2> QED BY <2>1, <2>2
<1>16. Importing(G, code)
  <2> SUFFICES ASSUME NEW m \in DOMAIN code, NEW s \in Interpreter
               PROVE  G[<<m, s>>] = IF ~s.ok \/ m \in s.modules THEN s ELSE Run(code, s, m, G)
    BY DEF Importing
  <2>1. <<m, s>> \in D /\ <<m, s>>[1] = m /\ <<m, s>>[2] = s
    OBVIOUS
  <2>2. G[<<m, s>>] = Body(G, <<m, s>>)
    <3> HIDE DEF D, Body
    <3> QED BY <1>11, <2>1
  <2> QED BY <2>1, <2>2
<1>17. Imports(G, code)
  BY <1>12, <1>16 DEF Imports
<1> QED BY <1>15, <1>17

\* What is reached from a module.
LEMMA ReachesIs ==
  ASSUME NEW code, NEW rank, NEW B, CodeOk(code, rank, B), NEW m \in DOMAIN code
  PROVE  /\ Reaches(code, m) = {m} \cup UNION {Reaches(code, u) : u \in ToSet(code[m].uses)}
         /\ Reaches(code, m) \in SUBSET (DOMAIN code)
<1> DEFINE D == DOMAIN code
           V == SUBSET D
           Body(f, d) == {d} \cup UNION {f[u] : u \in ToSet(code[d].uses)}
           F == [D -> V]
           step == [x \in F \X D |-> Body(x[1], x[2])]
           start == [d \in D |-> {}]
           G == CHOOSE f : f = [d \in D |-> Body(f, d)]
<1>1. B \in Nat /\ rank \in [D -> 0..B]
      /\ \A d \in D : \A u \in ToSet(code[d].uses) : u \in D /\ rank[u] < rank[d]
  BY ModuleTypes DEF CodeOk
<1>2. ASSUME NEW f \in F, NEW d \in D PROVE Body(f, d) \in V
  <2>1. \A u \in ToSet(code[d].uses) : f[u] \in V
    BY <1>1
  <2> QED BY <2>1
<1>3. step \in [F \X D -> V] /\ \A f \in F, d \in D : step[<<f, d>>] = Body(f, d)
  <2> HIDE DEF D, V, F, Body
  <2> QED BY <1>2
<1>4. start \in F
  OBVIOUS
<1>5. ASSUME NEW f, NEW g, NEW d \in D, \A e \in D : rank[e] < rank[d] => f[e] = g[e]
      PROVE  Body(f, d) = Body(g, d)
  <2>1. \A u \in ToSet(code[d].uses) : f[u] = g[u]
    BY <1>1, <1>5
  <2> HIDE DEF D
  <2> QED BY <2>1
<1>6. Local(step, D, V, rank)
  <2> SUFFICES ASSUME NEW f \in F, NEW g \in F, NEW d \in D, \A e \in D : rank[e] < rank[d] => f[e] = g[e]
               PROVE  step[<<f, d>>] = step[<<g, d>>]
    BY DEF Local
  <2> HIDE DEF D, F, V, Body, step
  <2>1. Body(f, d) = Body(g, d)
    BY <1>5
  <2> QED BY <1>3, <2>1
<1>7. PICK f \in F : \A d \in D : f[d] = step[<<f, d>>]
  <2>1. F = [D -> V]
    OBVIOUS
  <2> HIDE DEF D, V, step, start, F
  <2>2. \E f \in F : Solves(f, step, D)
    <3>1. B \in Nat /\ rank \in [D -> 0..B]
      BY <1>1
    <3> QED BY <1>3, <1>4, <1>6, <2>1, <3>1, RankRecursion
  <2> QED BY <2>2 DEF Solves
<1>8. f = [d \in D |-> Body(f, d)]
  <2>1. \A d \in D : f[d] = Body(f, d)
    <3> HIDE DEF step, D, F, V, Body
    <3> QED BY <1>3, <1>7
  <2>2. f = [d \in D |-> f[d]]
    OBVIOUS
  <2> HIDE DEF Body, D
  <2> QED BY <2>1, <2>2
<1>9. G = [d \in D |-> Body(G, d)]
  <2> HIDE DEF Body, D
  <2> QED BY <1>8
<1>10. \A d : Reaches(code, d) = G[d]
  BY DEF Reaches, G
<1> HIDE DEF G
<1> DEFINE P == {d \in D : f[d] = G[d]}
<1>11. ASSUME NEW d \in D, \A e \in D : rank[e] < rank[d] => e \in P PROVE d \in P
  <2>1. \A e \in D : rank[e] < rank[d] => f[e] = G[e]
    BY <1>11
  <2> HIDE DEF D, F, Body
  <2>2. Body(f, d) = Body(G, d)
    BY <1>5, <2>1
  <2>3. f[d] = Body(f, d) /\ G[d] = Body(G, d)
    BY <1>8, <1>9
  <2> QED BY <2>2, <2>3
<1>12. D \subseteq P
  <2>1. rank \in [D -> Nat]
    BY <1>1
  <2> HIDE DEF D, P
  <2> QED BY <1>11, <2>1, RankInduction
<1>13. Reaches(code, m) = Body(G, m) /\ Reaches(code, m) = f[m]
  <2>1. m \in D
    OBVIOUS
  <2> HIDE DEF Body, D
  <2>2. G[m] = Body(G, m)
    BY <1>9, <2>1
  <2>3. f[m] = G[m]
    BY <1>12, <2>1
  <2> QED BY <1>10, <2>2, <2>3
<1>14. {G[u] : u \in ToSet(code[m].uses)} = {Reaches(code, u) : u \in ToSet(code[m].uses)}
  BY <1>10
<1>15. f[m] \in V
  <2> HIDE DEF V
  <2> QED OBVIOUS
<1> QED BY <1>13, <1>14, <1>15

\* What a module reaches is closed under use, and no module it uses reaches it back.
LEMMA ReachesFacts ==
  ASSUME NEW code, NEW rank, NEW B, CodeOk(code, rank, B), NEW m \in DOMAIN code
  PROVE  /\ m \in Reaches(code, m) /\ Reaches(code, m) \subseteq DOMAIN code
         /\ \A u \in ToSet(code[m].uses) : Reaches(code, u) \subseteq Reaches(code, m) /\ m \notin Reaches(code, u)
         /\ \A x \in Reaches(code, m) : ToSet(code[x].uses) \subseteq Reaches(code, m)
<1> DEFINE D == DOMAIN code
           P == {d \in D : \A x \in Reaches(code, d) : rank[x] <= rank[d] /\ ToSet(code[x].uses) \subseteq Reaches(code, d)}
<1>1. B \in Nat /\ rank \in [D -> 0..B]
      /\ \A d \in D : \A u \in ToSet(code[d].uses) : u \in D /\ rank[u] < rank[d]
  BY ModuleTypes DEF CodeOk
<1>2. \A d \in D : Reaches(code, d) = {d} \cup UNION {Reaches(code, u) : u \in ToSet(code[d].uses)} /\ Reaches(code, d) \subseteq D
  BY ReachesIs
<1>3. \A d \in D : rank[d] \in Nat
  BY <1>1
<1>4. \A d \in D : d \in Reaches(code, d)
  BY <1>2
<1>5. \A d \in D : \A u \in ToSet(code[d].uses) : Reaches(code, u) \subseteq Reaches(code, d)
  BY <1>2
<1>6. ASSUME NEW d \in D, \A e \in D : rank[e] < rank[d] => e \in P PROVE d \in P
  <2> SUFFICES ASSUME NEW x \in Reaches(code, d)
               PROVE  rank[x] <= rank[d] /\ ToSet(code[x].uses) \subseteq Reaches(code, d)
    OBVIOUS
  <2>1. CASE x = d
    <3>1. \A u \in ToSet(code[d].uses) : u \in Reaches(code, u) /\ Reaches(code, u) \subseteq Reaches(code, d)
      BY <1>1, <1>4, <1>5
    <3> QED BY <1>3, <2>1, <3>1
  <2>2. CASE x # d
    <3>1. PICK u \in ToSet(code[d].uses) : x \in Reaches(code, u)
      BY <1>2, <2>2
    <3>2. u \in D /\ rank[u] < rank[d] /\ u \in P
      BY <1>1, <1>6
    <3>3. rank[x] <= rank[u] /\ ToSet(code[x].uses) \subseteq Reaches(code, u)
      BY <3>1, <3>2
    <3>4. rank[x] \in Nat /\ rank[u] \in Nat /\ rank[d] \in Nat
      BY <1>2, <1>3, <3>1, <3>2
    <3>5. Reaches(code, u) \subseteq Reaches(code, d)
      BY <1>5
    <3> QED BY <3>2, <3>3, <3>4, <3>5
  <2> QED BY <2>1, <2>2
<1>7. D \subseteq P
  <2>1. rank \in [D -> Nat]
    BY <1>1
  <2> HIDE DEF D, P
  <2> QED BY <1>6, <2>1, RankInduction
<1>8. \A u \in ToSet(code[m].uses) : m \notin Reaches(code, u)
  <2> SUFFICES ASSUME NEW u \in ToSet(code[m].uses), m \in Reaches(code, u) PROVE FALSE
    OBVIOUS
  <2>1. u \in D /\ rank[u] < rank[m] /\ rank[u] \in Nat /\ rank[m] \in Nat
    BY <1>1, <1>3
  <2>2. rank[m] <= rank[u]
    BY <1>7, <2>1
  <2> QED BY <2>1, <2>2
<1> QED BY <1>2, <1>4, <1>5, <1>7, <1>8

(* What an import adds *)

Unique(registry) == \A i, k \in 1..Len(registry) : registry[i].name = registry[k].name => i = k
Has(code, m, name) == \E k \in 1..Len(code[m].rules) : code[m].rules[k].name = name

\* The registry goes on by rules of the modules in X, and nothing is forgotten.
Grown(code, X, s, t) ==
  /\ s \in Interpreter /\ t \in Interpreter
  /\ Len(s.registry) <= Len(t.registry) /\ \A i \in 1..Len(s.registry) : t.registry[i] = s.registry[i]
  /\ Unique(s.registry) => Unique(t.registry)
  /\ \A i \in 1..Len(t.registry) : i > Len(s.registry) =>
       t.registry[i].by \in X /\ Has(code, t.registry[i].by, t.registry[i].name)
  /\ s.modules \subseteq t.modules /\ t.modules \subseteq s.modules \cup X
  /\ t.ok => s.ok

\* A state has grown from itself by nothing.
LEMMA GrownSelf ==
  ASSUME NEW code, NEW X, NEW s \in Interpreter
  PROVE  Grown(code, X, s, s)
<1>1. Len(s.registry) \in Nat
  BY InterpreterTypes
<1>2. \A i \in 1..Len(s.registry) : ~(i > Len(s.registry))
  BY <1>1
<1> QED BY <1>1, <1>2 DEF Grown

\* Growing by two sets of modules is growing by any set that has both.
LEMMA GrownTwice ==
  ASSUME NEW code, NEW X, NEW Y, NEW Z, X \subseteq Z, Y \subseteq Z, NEW s, NEW t, NEW u,
         Grown(code, X, s, t), Grown(code, Y, t, u)
  PROVE  Grown(code, Z, s, u)
<1>1. /\ s \in Interpreter /\ t \in Interpreter /\ u \in Interpreter
      /\ Len(s.registry) \in Nat /\ Len(t.registry) \in Nat /\ Len(u.registry) \in Nat
      /\ Len(s.registry) <= Len(t.registry) /\ Len(t.registry) <= Len(u.registry)
  BY InterpreterTypes DEF Grown
<1>2. ASSUME NEW i \in 1..Len(s.registry) PROVE u.registry[i] = s.registry[i]
  <2>1. i \in 1..Len(t.registry)
    BY <1>1
  <2> QED BY <2>1 DEF Grown
<1>3. ASSUME NEW i \in 1..Len(u.registry), i > Len(s.registry)
      PROVE  u.registry[i].by \in Z /\ Has(code, u.registry[i].by, u.registry[i].name)
  <2>1. CASE i <= Len(t.registry)
    <3>1. i \in 1..Len(t.registry)
      BY <1>1, <2>1
    <3>2. u.registry[i] = t.registry[i]
      BY <3>1 DEF Grown
    <3>3. t.registry[i].by \in X /\ Has(code, t.registry[i].by, t.registry[i].name)
      BY <1>3, <3>1 DEF Grown
    <3> QED BY <3>2, <3>3
  <2>2. CASE ~(i <= Len(t.registry))
    <3>1. i > Len(t.registry)
      BY <1>1, <2>2
    <3>2. u.registry[i].by \in Y /\ Has(code, u.registry[i].by, u.registry[i].name)
      BY <3>1 DEF Grown
    <3> QED BY <3>2
  <2> QED BY <2>1, <2>2
<1>4. Unique(s.registry) => Unique(u.registry)
  BY DEF Grown
<1>5. s.modules \subseteq u.modules /\ u.modules \subseteq s.modules \cup Z /\ (u.ok => s.ok)
  BY DEF Grown
<1>6. Len(s.registry) <= Len(u.registry)
  BY <1>1
<1> QED BY <1>1, <1>2, <1>3, <1>4, <1>5, <1>6 DEF Grown

\* The names of a registry are those of its entries.
LEMMA NamesAre ==
  ASSUME NEW s \in Interpreter
  PROVE  \A x : x \in RuleNames(s.registry) <=> \E i \in 1..Len(s.registry) : s.registry[i].name = x
  BY InterpreterTypes DEF RuleNames

\* Registering a rule of a module grows the registry by that module only.
LEMMA RegisterGrows ==
  ASSUME NEW code, NEW s \in Interpreter, NEW m \in STRING, NEW r \in [name : STRING, valid : BOOLEAN],
         Has(code, m, r.name)
  PROVE  Grown(code, {m}, s, Register(s, m, r))
<1> DEFINE t == Register(s, m, r)
           new == [name |-> r.name, by |-> m]
           N == Len(s.registry)
<1>1. /\ t \in Interpreter /\ t.modules = s.modules
      /\ t.ok <=> s.ok /\ Fits(s, r)
      /\ t.registry = IF s.ok /\ Fits(s, r) THEN Append(s.registry, new) ELSE s.registry
  <2>1. Adds(s, m, r, t)
    BY RegisterIs
  <2> QED BY <2>1 DEF Adds
<1>2. N \in Nat /\ s.registry \in Seq(Registration) /\ new \in Registration
  BY InterpreterTypes DEF Registration
<1> HIDE DEF t
<1>3. CASE ~(s.ok /\ Fits(s, r))
  <2>1. t.registry = s.registry
    BY <1>1, <1>3
  <2>2. \A i \in 1..N : ~(i > N)
    BY <1>2
  <2>3. Grown(code, {m}, s, t)
    BY <1>1, <1>2, <2>1, <2>2 DEF Grown
  <2> QED BY <2>3 DEF t
<1>4. CASE s.ok /\ Fits(s, r)
  <2>1. t.registry = Append(s.registry, new)
    BY <1>1, <1>4
  <2> HIDE DEF new
  <2>2. Len(t.registry) = N + 1 /\ t.registry[N + 1] = new /\ \A i \in 1..N : t.registry[i] = s.registry[i]
    BY <1>2, <2>1
  <2>3. new.name = r.name /\ new.by = m
    BY DEF new
  <2>4. \A i \in 1..N : s.registry[i].name # r.name
    BY <1>4, NamesAre DEF Fits
  <2>5. ASSUME Unique(s.registry), NEW i \in 1..(N + 1), NEW k \in 1..(N + 1), t.registry[i].name = t.registry[k].name
        PROVE  i = k
    <3>1. \A j \in 1..(N + 1) : j \in 1..N \/ j = N + 1
      BY <1>2
    <3>2. CASE i \in 1..N /\ k \in 1..N
      <4>1. s.registry[i].name = s.registry[k].name
        BY <2>2, <2>5, <3>2
      <4> QED BY <2>5, <3>2, <4>1 DEF Unique
    <3>3. CASE i \in 1..N /\ k = N + 1
      BY <2>2, <2>3, <2>4, <2>5, <3>3
    <3>4. CASE i = N + 1 /\ k \in 1..N
      BY <2>2, <2>3, <2>4, <2>5, <3>4
    <3>5. CASE i = N + 1 /\ k = N + 1
      BY <3>5
    <3> QED BY <3>1, <3>2, <3>3, <3>4, <3>5
  <2>6. Unique(s.registry) => Unique(t.registry)
    BY <2>2, <2>5 DEF Unique
  <2>7. \A i \in 1..Len(t.registry) : i > N => i = N + 1
    BY <1>2, <2>2
  <2>8. \A i \in 1..Len(t.registry) : i > N => t.registry[i].by \in {m} /\ Has(code, t.registry[i].by, t.registry[i].name)
    BY <2>2, <2>3, <2>7
  <2>9. N <= Len(t.registry)
    BY <1>2, <2>2
  <2>10. Grown(code, {m}, s, t)
    BY <1>1, <1>4, <2>2, <2>6, <2>8, <2>9 DEF Grown
  <2> QED BY <2>10 DEF t
<1> QED BY <1>3, <1>4

\* The registrations of a module, as far as they go.
LEMMA RegisteredGrows ==
  ASSUME NEW code, NEW rank, NEW B, CodeOk(code, rank, B), NEW s \in Interpreter, NEW m \in DOMAIN code
  PROVE  Grown(code, {m}, s, Registered(code[m].rules, s, m))
<1> DEFINE rules == code[m].rules
           N == Len(rules)
<1>1. rules \in RuleSeq /\ N \in Nat /\ m \in STRING
  BY ModuleTypes
<1>2. \A k \in 1..N : rules[k] \in [name : STRING, valid : BOOLEAN]
  <2> DEFINE R == [name : STRING, valid : BOOLEAN]
  <2>1. rules \in Seq(R)
    BY <1>1 DEF RuleSeq
  <2> HIDE DEF R, rules
  <2>2. \A k \in 1..N : rules[k] \in R
    BY <2>1
  <2> QED BY <2>2 DEF R
<1>3. PICK f \in [0..N -> Interpreter] : Registering(f, rules, s, m) /\ Registered(rules, s, m) = f[N]
  BY <1>1, RegisteredIs
<1> DEFINE P == {k \in 0..N : Grown(code, {m}, s, f[k])}
<1>4. 0 \in P
  <2>1. f[0] = s /\ 0 \in 0..N
    BY <1>1, <1>3 DEF Registering
  <2> QED BY <2>1, GrownSelf
<1>5. ASSUME NEW k \in 1..N, k - 1 \in P PROVE k \in P
  <2>1. k \in 0..N /\ k - 1 \in 0..N /\ Grown(code, {m}, s, f[k - 1]) /\ f[k - 1] \in Interpreter
    BY <1>1, <1>3, <1>5
  <2>2. f[k] = Register(f[k - 1], m, rules[k])
    BY <1>3 DEF Registering
  <2>3. Has(code, m, rules[k].name)
    BY DEF Has
  <2>4. Grown(code, {m}, f[k - 1], f[k])
    BY <1>1, <1>2, <2>1, <2>2, <2>3, RegisterGrows
  <2>5. Grown(code, {m}, s, f[k])
    BY <2>1, <2>4, GrownTwice
  <2> QED BY <2>1, <2>5
<1>6. 0..N \subseteq P
  <2> HIDE DEF P, N
  <2> QED BY <1>1, <1>4, <1>5, IntervalInduction
<1>7. Grown(code, {m}, s, f[N])
  BY <1>1, <1>6
<1> QED BY <1>3, <1>7

\* Registering rules loads no module.
LEMMA RegisteredModules ==
  ASSUME NEW code, NEW rank, NEW B, CodeOk(code, rank, B), NEW s \in Interpreter, NEW m \in DOMAIN code
  PROVE  Registered(code[m].rules, s, m).modules = s.modules
<1> DEFINE rules == code[m].rules
           N == Len(rules)
<1>1. rules \in RuleSeq /\ N \in Nat /\ m \in STRING
  BY ModuleTypes
<1>2. \A k \in 1..N : rules[k] \in [name : STRING, valid : BOOLEAN]
  <2> DEFINE R == [name : STRING, valid : BOOLEAN]
  <2>1. rules \in Seq(R)
    BY <1>1 DEF RuleSeq
  <2> HIDE DEF R, rules
  <2>2. \A k \in 1..N : rules[k] \in R
    BY <2>1
  <2> QED BY <2>2 DEF R
<1>3. PICK f \in [0..N -> Interpreter] : Registering(f, rules, s, m) /\ Registered(rules, s, m) = f[N]
  BY <1>1, RegisteredIs
<1> DEFINE P == {k \in 0..N : f[k].modules = s.modules}
<1>4. 0 \in P
  <2>1. f[0] = s /\ 0 \in 0..N
    BY <1>1, <1>3 DEF Registering
  <2> QED BY <2>1
<1>5. ASSUME NEW k \in 1..N, k - 1 \in P PROVE k \in P
  <2>1. k \in 0..N /\ f[k - 1].modules = s.modules
    BY <1>1, <1>5
  <2>2. f[k - 1] \in Interpreter
    <3>1. k - 1 \in 0..N
      BY <1>1
    <3> QED BY <1>3, <3>1
  <2>3. f[k] = Register(f[k - 1], m, rules[k])
    BY <1>3 DEF Registering
  <2>4. Adds(f[k - 1], m, rules[k], f[k])
    BY <1>1, <1>2, <2>2, <2>3, RegisterIs
  <2> QED BY <2>1, <2>4 DEF Adds
<1>6. 0..N \subseteq P
  <2> HIDE DEF P, N
  <2> QED BY <1>1, <1>4, <1>5, IntervalInduction
<1>7. f[N].modules = s.modules
  BY <1>1, <1>6
<1> QED BY <1>3, <1>7

\* The imports of a module, where each of them adds what X allows.
LEMMA UsedGrows ==
  ASSUME NEW code, NEW D, NEW uses \in Seq(D), NEW s \in Interpreter,
         NEW Q, Q = D \X Interpreter, NEW import \in [Q -> Interpreter], NEW X,
         \A u \in ToSet(uses), x \in Interpreter :
           Grown(code, X, x, import[<<u, x>>]) /\ (import[<<u, x>>].ok => u \in import[<<u, x>>].modules)
  PROVE  Grown(code, X, s, Used(uses, s, import))
         /\ (Used(uses, s, import).ok => ToSet(uses) \subseteq Used(uses, s, import).modules)
<1> DEFINE N == Len(uses)
<1>1. N \in Nat /\ ToSet(uses) = {uses[k] : k \in 1..N}
  BY DEF ToSet
<1>2. \E f \in [0..Len(uses) -> Interpreter] : Uses(f, uses, s, import)
  BY UsedIs
<1>3. PICK f \in [0..N -> Interpreter] : Using(f, uses, s, import) /\ Used(uses, s, import) = f[N]
  BY <1>2 DEF Uses
<1> DEFINE P == {k \in 0..N : Grown(code, X, s, f[k]) /\ (f[k].ok => \A j \in 1..k : uses[j] \in f[k].modules)}
<1>4. 0 \in P
  <2>1. f[0] = s /\ 0 \in 0..N
    BY <1>1, <1>3 DEF Using
  <2> QED BY <2>1, GrownSelf
<1>5. ASSUME NEW k \in 1..N, k - 1 \in P PROVE k \in P
  <2>1. k \in 0..N /\ k - 1 \in 0..N /\ Grown(code, X, s, f[k - 1]) /\ f[k - 1] \in Interpreter
        /\ (f[k - 1].ok => \A j \in 1..(k - 1) : uses[j] \in f[k - 1].modules)
    BY <1>1, <1>3, <1>5
  <2>2. f[k] = import[<<uses[k], f[k - 1]>>]
    BY <1>3 DEF Using
  <2>3. uses[k] \in ToSet(uses)
    BY <1>1
  <2>4. Grown(code, X, f[k - 1], f[k]) /\ (f[k].ok => uses[k] \in f[k].modules)
    BY <2>1, <2>2, <2>3
  <2>5. Grown(code, X, s, f[k])
    BY <2>1, <2>4, GrownTwice
  <2>6. ASSUME f[k].ok, NEW j \in 1..k PROVE uses[j] \in f[k].modules
    <3>1. j \in 1..(k - 1) \/ j = k
      BY <1>1
    <3>2. f[k - 1].ok /\ f[k - 1].modules \subseteq f[k].modules
      BY <2>4, <2>6 DEF Grown
    <3> QED BY <2>1, <2>4, <2>6, <3>1, <3>2
  <2> QED BY <2>1, <2>5, <2>6
<1>6. 0..N \subseteq P
  <2> HIDE DEF P, N
  <2> QED BY <1>1, <1>4, <1>5, IntervalInduction
<1>7. N \in P
  BY <1>1, <1>6
<1>8. Grown(code, X, s, f[N]) /\ (f[N].ok => \A j \in 1..N : uses[j] \in f[N].modules)
  BY <1>7
<1> QED BY <1>1, <1>3, <1>8

\* An import adds rules of what its module reaches, and says so when it succeeds.
LEMMA ImportGrows ==
  ASSUME NEW code, NEW rank, NEW B, CodeOk(code, rank, B), NEW Q, Q = (DOMAIN code) \X Interpreter,
         NEW import \in [Q -> Interpreter], Importing(import, code)
  PROVE  \A m \in DOMAIN code : \A s \in Interpreter :
           Grown(code, Reaches(code, m), s, import[<<m, s>>]) /\ (import[<<m, s>>].ok => m \in import[<<m, s>>].modules)
<1> DEFINE D == DOMAIN code
           Good(m) == \A s \in Interpreter :
             Grown(code, Reaches(code, m), s, import[<<m, s>>]) /\ (import[<<m, s>>].ok => m \in import[<<m, s>>].modules)
           P == {m \in D : Good(m)}
<1>1. rank \in [D -> Nat] /\ \A d \in D : \A u \in ToSet(code[d].uses) : u \in D /\ rank[u] < rank[d]
  <2>1. B \in Nat /\ rank \in [D -> 0..B]
        /\ \A d \in D : \A u \in ToSet(code[d].uses) : u \in D /\ rank[u] < rank[d]
    BY ModuleTypes DEF CodeOk
  <2> HIDE DEF D
  <2> QED BY <2>1
<1>2. ASSUME NEW m \in D, \A e \in D : rank[e] < rank[m] => e \in P PROVE m \in P
  <2> SUFFICES ASSUME NEW s \in Interpreter
               PROVE  Grown(code, Reaches(code, m), s, import[<<m, s>>])
                      /\ (import[<<m, s>>].ok => m \in import[<<m, s>>].modules)
    OBVIOUS
  <2> DEFINE X == Reaches(code, m)
             uses == code[m].uses
             t == import[<<m, s>>]
  <2>1. t = IF ~s.ok \/ m \in s.modules THEN s ELSE Run(code, s, m, import)
    BY DEF Importing
  <2>2. CASE ~s.ok \/ m \in s.modules
    <3>1. t = s
      BY <2>1, <2>2
    <3>2. Grown(code, X, s, s)
      BY GrownSelf
    <3> QED BY <2>2, <3>1, <3>2
  <2>3. CASE ~(~s.ok \/ m \in s.modules)
    <3>1. t = Run(code, s, m, import)
      BY <2>1, <2>3
    <3> DEFINE a == Used(uses, s, import)
               b == Registered(code[m].rules, a, m)
    <3>2. \A u \in ToSet(uses) : Reaches(code, u) \subseteq X /\ u \in P
      BY <1>1, <1>2, ReachesFacts
    <3>3. \A u \in ToSet(uses), x \in Interpreter :
            Grown(code, X, x, import[<<u, x>>]) /\ (import[<<u, x>>].ok => u \in import[<<u, x>>].modules)
      <4> SUFFICES ASSUME NEW u \in ToSet(uses), NEW x \in Interpreter
                   PROVE  Grown(code, X, x, import[<<u, x>>]) /\ (import[<<u, x>>].ok => u \in import[<<u, x>>].modules)
        OBVIOUS
      <4>1. Reaches(code, u) \subseteq X /\ Good(u)
        BY <3>2
      <4>2. Grown(code, Reaches(code, u), x, import[<<u, x>>]) /\ (import[<<u, x>>].ok => u \in import[<<u, x>>].modules)
        BY <4>1
      <4>3. Grown(code, X, x, x)
        BY GrownSelf
      <4>4. Grown(code, X, x, import[<<u, x>>])
        BY <4>1, <4>2, <4>3, GrownTwice
      <4> QED BY <4>2, <4>4
    <3>4. uses \in Seq(D)
      BY ModuleTypes
    <3>5. Grown(code, X, s, a)
      <4>1. Q = D \X Interpreter
        OBVIOUS
      <4> HIDE DEF D, X, uses
      <4> QED BY <3>3, <3>4, <4>1, UsedGrows
    <3>6. a \in Interpreter
      BY <3>5 DEF Grown
    <3>7. Grown(code, {m}, a, b)
      BY <3>6, RegisteredGrows
    <3>8. m \in X
      BY ReachesFacts
    <3>9. Grown(code, X, s, b)
      BY <3>5, <3>7, <3>8, GrownTwice
    <3>10. b = RunLast(code, s, m, import)
      BY DEF RunLast
    <3>11. /\ t \in Interpreter /\ t.registry = b.registry
           /\ t.ok <=> b.ok /\ ~code[m].raises
           /\ t.modules = IF t.ok THEN b.modules \cup {m} ELSE b.modules
      <4>1. import \in [(DOMAIN code) \X Interpreter -> Interpreter]
        OBVIOUS
      <4>2. Ends(code, m, RunLast(code, s, m, import), Run(code, s, m, import))
        BY <4>1, RunIs
      <4> QED BY <3>1, <3>10, <4>2 DEF Ends
    <3> HIDE DEF t, b, a, X
    <3>12. Grown(code, X, s, t)
      BY <3>8, <3>9, <3>11 DEF Grown
    <3>13. t.ok => m \in t.modules
      BY <3>11
    <3> QED BY <3>12, <3>13 DEF t, X
  <2> QED BY <2>2, <2>3
<1>3. D \subseteq P
  <2> HIDE DEF D, P
  <2> QED BY <1>1, <1>2, RankInduction
<1> QED BY <1>3

\* A module's rules stand at the end of the registry, in order, when all of them were registered.
RulesAdded(rules, k, m, s, t) ==
  /\ s.ok /\ t.modules = s.modules /\ Len(t.registry) = Len(s.registry) + k
  /\ \A j \in 1..k : rules[j].valid /\ t.registry[Len(s.registry) + j] = [name |-> rules[j].name, by |-> m]

RulesFit(rules, s) ==
  /\ \A k \in 1..Len(rules) : rules[k].valid /\ rules[k].name \notin RuleNames(s.registry)
  /\ \A j, k \in 1..Len(rules) : rules[j].name = rules[k].name => j = k

\* Registering a module's rules succeeds with all of them in place; it does succeed when all fit.
LEMMA RegisteredAll ==
  ASSUME NEW code, NEW rank, NEW B, CodeOk(code, rank, B), NEW s \in Interpreter, NEW m \in DOMAIN code
  PROVE  /\ Registered(code[m].rules, s, m).ok =>
              /\ RulesAdded(code[m].rules, Len(code[m].rules), m, s, Registered(code[m].rules, s, m))
              /\ \A j, k \in 1..Len(code[m].rules) : code[m].rules[j].name = code[m].rules[k].name => j = k
         /\ s.ok /\ RulesFit(code[m].rules, s) => Registered(code[m].rules, s, m).ok
<1> DEFINE rules == code[m].rules
           N == Len(rules)
           n == Len(s.registry)
<1>1. rules \in RuleSeq /\ N \in Nat /\ m \in STRING /\ n \in Nat
  BY ModuleTypes, InterpreterTypes
<1>2. \A k \in 1..N : rules[k] \in [name : STRING, valid : BOOLEAN]
  <2> DEFINE R == [name : STRING, valid : BOOLEAN]
  <2>1. rules \in Seq(R)
    BY <1>1 DEF RuleSeq
  <2> HIDE DEF R, rules
  <2>2. \A k \in 1..N : rules[k] \in R
    BY <2>1
  <2> QED BY <2>2 DEF R
<1>3. PICK f \in [0..N -> Interpreter] : Registering(f, rules, s, m) /\ Registered(rules, s, m) = f[N]
  BY <1>1, RegisteredIs
<1> DEFINE Distinct(k) == \A i, j \in 1..k : rules[i].name = rules[j].name => i = j
           Same(k) == \A i \in 1..n : f[k].registry[i] = s.registry[i]
           Good(k) == /\ f[k].ok => RulesAdded(rules, k, m, s, f[k]) /\ Distinct(k) /\ Same(k)
                      /\ s.ok /\ RulesFit(rules, s) => f[k].ok
           P == {k \in 0..N : Good(k)}
<1>4. 0 \in P
  <2>1. f[0] = s /\ 0 \in 0..N
    BY <1>1, <1>3 DEF Registering
  <2>2. s.ok => RulesAdded(rules, 0, m, s, s)
    BY <1>1 DEF RulesAdded
  <2> QED BY <2>1, <2>2
<1>5. ASSUME NEW k \in 1..N, k - 1 \in P PROVE k \in P
  <2> DEFINE r == rules[k]
             a == f[k - 1]
             t == f[k]
             new == [name |-> r.name, by |-> m]
  <2>1. k \in 0..N /\ k - 1 \in 0..N /\ k \in Nat /\ a \in Interpreter /\ t = Register(a, m, r)
        /\ r \in [name : STRING, valid : BOOLEAN]
    <3>1. k \in 0..N /\ k - 1 \in 0..N /\ k \in Nat
      BY <1>1
    <3>2. a \in Interpreter
      BY <3>1
    <3>3. t = Register(a, m, r)
      BY <1>3 DEF Registering
    <3> QED BY <1>2, <3>1, <3>2, <3>3
  <2>0. Good(k - 1)
    BY <1>5
  <2>2. /\ t.modules = a.modules /\ (t.ok <=> a.ok /\ Fits(a, r))
        /\ t.registry = IF a.ok /\ Fits(a, r) THEN Append(a.registry, new) ELSE a.registry
    <3>1. Adds(a, m, r, Register(a, m, r))
      BY <1>1, <2>1, RegisterIs
    <3> QED BY <2>1, <3>1 DEF Adds
  <2>3. a.registry \in Seq(Registration) /\ Len(a.registry) \in Nat /\ new \in Registration
    BY <1>1, <2>1, InterpreterTypes DEF Registration
  <2> HIDE DEF t, a
  <2>4. a.ok => /\ s.ok /\ a.modules = s.modules /\ Len(a.registry) = n + (k - 1)
                /\ \A j \in 1..(k - 1) : rules[j].valid /\ a.registry[n + j] = [name |-> rules[j].name, by |-> m]
                /\ Distinct(k - 1) /\ \A i \in 1..n : a.registry[i] = s.registry[i]
    BY <2>0 DEF RulesAdded, a
  <2>5. ASSUME t.ok PROVE RulesAdded(rules, k, m, s, t) /\ Distinct(k) /\ Same(k)
    <3>1. a.ok /\ Fits(a, r) /\ t.registry = Append(a.registry, new)
      BY <2>2, <2>5
    <3> HIDE DEF new
    <3>2. Len(t.registry) = n + k /\ t.registry[n + k] = new /\ \A i \in 1..(n + (k - 1)) : t.registry[i] = a.registry[i]
      <4>1. Len(t.registry) = Len(a.registry) + 1 /\ t.registry[Len(a.registry) + 1] = new
            /\ \A i \in 1..Len(a.registry) : t.registry[i] = a.registry[i]
        BY <2>3, <3>1
      <4>2. Len(a.registry) = n + (k - 1) /\ (n + (k - 1)) + 1 = n + k
        BY <1>1, <2>1, <2>4, <3>1
      <4> QED BY <4>1, <4>2
    <3>3. \A j \in 1..(k - 1) : n + j \in 1..(n + (k - 1))
      BY <1>1, <2>1
    <3>4. \A j \in 1..k : j \in 1..(k - 1) \/ j = k
      BY <2>1
    <3>5. r.valid /\ r.name \notin RuleNames(a.registry)
      BY <3>1 DEF Fits
    <3>6. \A j \in 1..k : rules[j].valid /\ t.registry[n + j] = [name |-> rules[j].name, by |-> m]
      <4> SUFFICES ASSUME NEW j \in 1..k
                   PROVE  rules[j].valid /\ t.registry[n + j] = [name |-> rules[j].name, by |-> m]
        OBVIOUS
      <4>1. CASE j = k
        BY <3>2, <3>5, <4>1 DEF new
      <4>2. CASE j \in 1..(k - 1)
        <5>1. t.registry[n + j] = a.registry[n + j]
          BY <3>2, <3>3, <4>2
        <5> QED BY <2>4, <3>1, <4>2, <5>1
      <4> QED BY <3>4, <4>1, <4>2
    <3>7. RulesAdded(rules, k, m, s, t)
      BY <2>2, <2>4, <3>1, <3>2, <3>6 DEF RulesAdded
    <3>8. \A j \in 1..(k - 1) : rules[j].name # r.name
      <4> SUFFICES ASSUME NEW j \in 1..(k - 1) PROVE rules[j].name # r.name
        OBVIOUS
      <4>0. Len(a.registry) = n + (k - 1) /\ n + j \in 1..(n + (k - 1))
        BY <2>4, <3>1, <3>3
      <4>2. a.registry[n + j] = [name |-> rules[j].name, by |-> m]
        BY <2>4, <3>1
      <4>1. n + j \in 1..Len(a.registry) /\ a.registry[n + j].name = rules[j].name
        BY <4>0, <4>2
      <4> QED BY <2>1, <3>5, <4>1, NamesAre DEF a
    <3>9. Distinct(k)
      <4> SUFFICES ASSUME NEW i \in 1..k, NEW j \in 1..k, rules[i].name = rules[j].name PROVE i = j
        OBVIOUS
      <4>1. CASE i \in 1..(k - 1) /\ j \in 1..(k - 1)
        BY <2>4, <3>1, <4>1
      <4>2. CASE i \in 1..(k - 1) /\ j = k
        BY <3>8, <4>2
      <4>3. CASE i = k /\ j \in 1..(k - 1)
        BY <3>8, <4>3
      <4> QED BY <3>4, <4>1, <4>2, <4>3
    <3>10. \A i \in 1..n : i \in 1..(n + (k - 1))
      BY <1>1, <2>1
    <3>11. Same(k)
      <4>1. \A i \in 1..n : t.registry[i] = s.registry[i]
        BY <2>4, <3>1, <3>2, <3>10
      <4> QED BY <4>1 DEF t
    <3> QED BY <3>7, <3>9, <3>11
  <2>6. ASSUME s.ok, RulesFit(rules, s) PROVE t.ok
    <3>1. a.ok
      BY <2>0, <2>6 DEF a
    <3>2. r.valid /\ r.name \notin RuleNames(s.registry) /\ \A j \in 1..N : rules[j].name = r.name => j = k
      BY <2>6 DEF RulesFit
    <3>3. r.name \notin RuleNames(a.registry)
      <4> SUFFICES ASSUME NEW i \in 1..Len(a.registry), a.registry[i].name = r.name PROVE FALSE
        BY <2>1, NamesAre DEF a
      <4>1. CASE i \in 1..n
        <5>1. s.registry[i].name = r.name
          BY <2>4, <3>1, <4>1
        <5> QED BY <3>2, <4>1, <5>1, NamesAre
      <4>2. CASE ~(i \in 1..n)
        <5>1. i - n \in 1..(k - 1) /\ i = n + (i - n)
          BY <1>1, <2>1, <2>4, <3>1, <4>2
        <5>2. PICK j \in 1..(k - 1) : i = n + j
          BY <5>1
        <5>3. a.registry[i] = [name |-> rules[j].name, by |-> m]
          BY <2>4, <3>1, <5>2
        <5>4. a.registry[i].name = rules[j].name
          BY <5>3
        <5>5. j \in 1..N /\ j # k
          BY <1>1, <2>1
        <5> QED BY <3>2, <5>4, <5>5
      <4> QED BY <4>1, <4>2
    <3> QED BY <2>2, <3>1, <3>2, <3>3 DEF Fits
  <2> QED BY <2>1, <2>5, <2>6 DEF t
<1>6. 0..N \subseteq P
  <2> HIDE DEF P, N
  <2> QED BY <1>1, <1>4, <1>5, IntervalInduction
<1>7. N \in P
  BY <1>1, <1>6
<1>8. Good(N)
  BY <1>7
<1> QED BY <1>3, <1>8

(* A plugin that runs to its end, and one that does not *)

\* All that m registers stands behind the first n rules, and what it uses is imported.
Complete(code, m, n, s) ==
  /\ ~code[m].raises /\ ToSet(code[m].uses) \subseteq s.modules
  /\ \A k \in 1..Len(code[m].rules) :
       /\ code[m].rules[k].valid
       /\ \E i \in 1..Len(s.registry) : i > n /\ s.registry[i] = [name |-> code[m].rules[k].name, by |-> m]
  /\ \A j, k \in 1..Len(code[m].rules) : code[m].rules[j].name = code[m].rules[k].name => j = k

\* While the code in C is imported behind the first n rules, and nothing has failed.
Base(code, C, n, taken, s) ==
  /\ s \in Interpreter /\ s.ok /\ n <= Len(s.registry) /\ \A i \in 1..n : s.registry[i].name \in taken
  /\ \A i \in 1..Len(s.registry) : i > n =>
       s.registry[i].by \in C /\ s.registry[i].by \in s.modules /\ Has(code, s.registry[i].by, s.registry[i].name)
  /\ \A m \in s.modules \cap C : Complete(code, m, n, s)

\* Nothing in C can fail.
Fine(code, C, taken) ==
  /\ \A m \in C : /\ ~code[m].raises
                  /\ \A k \in 1..Len(code[m].rules) : code[m].rules[k].valid /\ code[m].rules[k].name \notin taken
                  /\ \A j, k \in 1..Len(code[m].rules) : code[m].rules[j].name = code[m].rules[k].name => j = k
  /\ \A m, o \in C : \A name : Has(code, m, name) /\ Has(code, o, name) => m = o

Holds(code, C, n, taken, t) == (t.ok => Base(code, C, n, taken, t)) /\ (Fine(code, C, taken) => t.ok)

\* A module whose rules are all registered stays so as the registry grows.
LEMMA CompleteStays ==
  ASSUME NEW code, NEW X, NEW s, NEW t, Grown(code, X, s, t), NEW n, NEW m, Complete(code, m, n, s)
  PROVE  Complete(code, m, n, t)
<1>1. /\ s.modules \subseteq t.modules /\ \A i \in 1..Len(s.registry) : t.registry[i] = s.registry[i]
      /\ Len(s.registry) \in Nat /\ Len(t.registry) \in Nat /\ Len(s.registry) <= Len(t.registry)
  BY InterpreterTypes DEF Grown
<1>2. \A i \in 1..Len(s.registry) : i \in 1..Len(t.registry)
  BY <1>1
<1>3. ASSUME NEW k \in 1..Len(code[m].rules)
      PROVE  \E i \in 1..Len(t.registry) : i > n /\ t.registry[i] = [name |-> code[m].rules[k].name, by |-> m]
  <2>1. PICK i \in 1..Len(s.registry) : i > n /\ s.registry[i] = [name |-> code[m].rules[k].name, by |-> m]
    BY DEF Complete
  <2> QED BY <1>1, <1>2, <2>1
<1> QED BY <1>1, <1>3 DEF Complete

\* The body of a module keeps the invariant of the imports once those it uses have kept it.
LEMMA RunHolds ==
  ASSUME NEW code, NEW rank, NEW B, CodeOk(code, rank, B), NEW C, NEW n \in Nat, NEW taken, NEW m \in DOMAIN code, m \in C,
         NEW s, Base(code, C, n, taken, s), m \notin s.modules,
         NEW X, m \notin X, NEW a, Grown(code, X, s, a), Holds(code, C, n, taken, a),
         a.ok => ToSet(code[m].uses) \subseteq a.modules,
         NEW t, Ends(code, m, Registered(code[m].rules, a, m), t)
  PROVE  Holds(code, C, n, taken, t)
<1> DEFINE rules == code[m].rules
           b == Registered(rules, a, m)
           la == Len(a.registry)
<1>1. a \in Interpreter /\ la \in Nat /\ Len(rules) \in Nat
  BY InterpreterTypes, ModuleTypes DEF Grown
<1>2. Grown(code, {m}, a, b) /\ b \in Interpreter /\ Len(b.registry) \in Nat
  <2>1. Grown(code, {m}, a, b)
    BY <1>1, RegisteredGrows
  <2> QED BY <2>1, InterpreterTypes DEF Grown
<1>3. /\ b.ok => RulesAdded(rules, Len(rules), m, a, b) /\ \A j, k \in 1..Len(rules) : rules[j].name = rules[k].name => j = k
      /\ a.ok /\ RulesFit(rules, a) => b.ok
  BY <1>1, RegisteredAll
<1> HIDE DEF b
<1>4. /\ t \in Interpreter /\ t.registry = b.registry /\ (t.ok <=> b.ok /\ ~code[m].raises)
      /\ t.modules = IF t.ok THEN b.modules \cup {m} ELSE b.modules
  BY DEF Ends, b
<1>5. ASSUME t.ok PROVE Base(code, C, n, taken, t)
  <2>1. b.ok /\ a.ok /\ ~code[m].raises /\ t.modules = b.modules \cup {m}
    BY <1>2, <1>4, <1>5 DEF Grown
  <2>2. Base(code, C, n, taken, a)
    BY <2>1 DEF Holds
  <2>3. /\ b.modules = a.modules /\ Len(b.registry) = la + Len(rules)
        /\ \A j \in 1..Len(rules) : rules[j].valid /\ b.registry[la + j] = [name |-> rules[j].name, by |-> m]
        /\ \A j, k \in 1..Len(rules) : rules[j].name = rules[k].name => j = k
    BY <1>3, <2>1 DEF RulesAdded
  <2>4. /\ n <= la /\ \A i \in 1..n : a.registry[i].name \in taken
        /\ \A i \in 1..la : i > n =>
             a.registry[i].by \in C /\ a.registry[i].by \in a.modules /\ Has(code, a.registry[i].by, a.registry[i].name)
        /\ \A y \in a.modules \cap C : Complete(code, y, n, a)
    BY <2>2 DEF Base
  <2>5. /\ \A i \in 1..la : b.registry[i] = a.registry[i]
        /\ \A i \in 1..Len(b.registry) : i > la => b.registry[i].by = m /\ Has(code, b.registry[i].by, b.registry[i].name)
    BY <1>2 DEF Grown
  <2>6. n <= Len(b.registry) /\ \A i \in 1..n : i \in 1..la
    <3>1. Len(b.registry) = la + Len(rules) /\ n <= la /\ la \in Nat /\ Len(rules) \in Nat /\ n \in Nat
      BY <1>1, <2>3, <2>4
    <3> HIDE DEF la, rules
    <3> QED BY <3>1
  <2>7. \A i \in 1..n : b.registry[i].name \in taken
    BY <2>4, <2>5, <2>6
  <2>8. ASSUME NEW i \in 1..Len(b.registry), i > n
        PROVE  b.registry[i].by \in C /\ b.registry[i].by \in t.modules /\ Has(code, b.registry[i].by, b.registry[i].name)
    <3>1. CASE i > la
      BY <2>1, <2>5, <3>1
    <3>2. CASE ~(i > la)
      <4>1. i \in 1..la
        BY <1>1, <1>2, <3>2
      <4>2. b.registry[i] = a.registry[i]
        BY <2>5, <4>1
      <4>3. a.registry[i].by \in C /\ a.registry[i].by \in a.modules /\ Has(code, a.registry[i].by, a.registry[i].name)
        BY <2>4, <2>8, <4>1
      <4> QED BY <2>1, <2>3, <4>2, <4>3
    <3> QED BY <3>1, <3>2
  <2>9. Grown(code, {m}, a, t)
    BY <1>2, <1>4, <2>1, <2>3 DEF Grown
  <2>10. ASSUME NEW y \in t.modules \cap C PROVE Complete(code, y, n, t)
    <3>1. CASE y = m
      <4>0. Len(b.registry) = la + Len(rules) /\ n <= la /\ la \in Nat /\ Len(rules) \in Nat /\ n \in Nat
        BY <1>1, <2>3, <2>4
      <4>1. \A k \in 1..Len(rules) : la + k \in 1..Len(b.registry) /\ la + k > n
        <5> HIDE DEF la, rules
        <5> QED BY <4>0
      <4>2. \A k \in 1..Len(rules) :
              \E i \in 1..Len(t.registry) : i > n /\ t.registry[i] = [name |-> rules[k].name, by |-> m]
        <5> SUFFICES ASSUME NEW k \in 1..Len(rules)
                     PROVE  \E i \in 1..Len(t.registry) : i > n /\ t.registry[i] = [name |-> rules[k].name, by |-> m]
          OBVIOUS
        <5>1. t.registry = b.registry /\ b.registry[la + k] = [name |-> rules[k].name, by |-> m]
          BY <1>4, <2>3
        <5>2. la + k \in 1..Len(t.registry) /\ la + k > n
          BY <4>1, <5>1
        <5> QED BY <5>1, <5>2
      <4>3. ToSet(code[m].uses) \subseteq t.modules
        BY <2>1, <2>3
      <4> QED BY <2>1, <2>3, <3>1, <4>2, <4>3 DEF Complete
    <3>2. CASE y # m
      <4>1. y \in a.modules \cap C
        BY <2>1, <2>3, <3>2
      <4>2. Complete(code, y, n, a)
        BY <2>4, <4>1
      <4> QED BY <2>9, <4>2, CompleteStays
    <3> QED BY <3>1, <3>2
  <2> QED BY <1>4, <1>5, <2>6, <2>7, <2>8, <2>10 DEF Base
<1>6. ASSUME Fine(code, C, taken) PROVE t.ok
  <2>1. a.ok /\ Base(code, C, n, taken, a)
    BY <1>6 DEF Holds
  <2>2. /\ ~code[m].raises
        /\ \A k \in 1..Len(rules) : rules[k].valid /\ rules[k].name \notin taken
        /\ \A j, k \in 1..Len(rules) : rules[j].name = rules[k].name => j = k
    BY <1>6 DEF Fine
  <2>3. ASSUME NEW k \in 1..Len(rules), NEW i \in 1..la, a.registry[i].name = rules[k].name PROVE FALSE
    <3>1. CASE i <= n
      <4>1. i \in 1..n
        BY <1>1, <3>1
      <4> QED BY <2>1, <2>2, <2>3, <4>1 DEF Base
    <3>2. CASE ~(i <= n)
      <4>1. i > n
        BY <1>1, <3>2
      <4>2. a.registry[i].by \in C /\ Has(code, a.registry[i].by, a.registry[i].name)
        BY <2>1, <4>1 DEF Base
      <4>3. Has(code, m, a.registry[i].name)
        BY <2>3 DEF Has
      <4>4. a.registry[i].by = m
        BY <1>6, <4>2, <4>3 DEF Fine
      <4>5. CASE i > Len(s.registry)
        BY <4>4, <4>5 DEF Grown
      <4>6. CASE ~(i > Len(s.registry))
        <5>1. Len(s.registry) \in Nat
          BY InterpreterTypes DEF Base
        <5>2. i \in 1..Len(s.registry)
          BY <1>1, <4>6, <5>1
        <5>3. a.registry[i] = s.registry[i] /\ s.registry[i].by \in s.modules
          BY <4>1, <5>2 DEF Grown, Base
        <5> QED BY <4>4, <5>3
      <4> QED BY <4>5, <4>6
    <3> QED BY <3>1, <3>2
  <2>4. \A k \in 1..Len(rules) : rules[k].name \notin RuleNames(a.registry)
    <3>1. \A x : x \in RuleNames(a.registry) => \E i \in 1..la : a.registry[i].name = x
      BY <1>1, NamesAre
    <3> HIDE DEF la
    <3> QED BY <2>3, <3>1
  <2>5. RulesFit(rules, a)
    BY <2>2, <2>4 DEF RulesFit
  <2> QED BY <1>3, <1>4, <2>1, <2>2, <2>5
<1> QED BY <1>5, <1>6 DEF Holds

\* So do its import lines, when each of the imports does.
LEMMA UsedHolds ==
  ASSUME NEW code, NEW C, NEW n, NEW taken, NEW D, NEW uses \in Seq(D),
         NEW Q, Q = D \X Interpreter, NEW import \in [Q -> Interpreter],
         NEW s \in Interpreter, Base(code, C, n, taken, s),
         \A u \in ToSet(uses), x \in Interpreter :
           /\ Base(code, C, n, taken, x) => Holds(code, C, n, taken, import[<<u, x>>])
           /\ import[<<u, x>>].ok => x.ok
  PROVE  Holds(code, C, n, taken, Used(uses, s, import))
<1> DEFINE N == Len(uses)
<1>1. N \in Nat /\ ToSet(uses) = {uses[k] : k \in 1..N}
  BY DEF ToSet
<1>2. \E f \in [0..Len(uses) -> Interpreter] : Uses(f, uses, s, import)
  BY UsedIs
<1>3. PICK f \in [0..N -> Interpreter] : Using(f, uses, s, import) /\ Used(uses, s, import) = f[N]
  BY <1>2 DEF Uses
<1> DEFINE P == {k \in 0..N : Holds(code, C, n, taken, f[k])}
<1>4. 0 \in P
  <2>1. f[0] = s /\ 0 \in 0..N
    BY <1>1, <1>3 DEF Using
  <2>2. Holds(code, C, n, taken, s)
    BY DEF Holds, Base
  <2> QED BY <2>1, <2>2
<1>5. ASSUME NEW k \in 1..N, k - 1 \in P PROVE k \in P
  <2>1. k \in 0..N /\ k - 1 \in 0..N /\ f[k - 1] \in Interpreter /\ Holds(code, C, n, taken, f[k - 1])
    BY <1>1, <1>3, <1>5
  <2>2. f[k] = import[<<uses[k], f[k - 1]>>]
    BY <1>3 DEF Using
  <2>3. uses[k] \in ToSet(uses)
    BY <1>1
  <2>4. (Base(code, C, n, taken, f[k - 1]) => Holds(code, C, n, taken, f[k])) /\ (f[k].ok => f[k - 1].ok)
    BY <2>1, <2>2, <2>3
  <2>5. Holds(code, C, n, taken, f[k])
    BY <2>1, <2>4 DEF Holds
  <2> QED BY <2>1, <2>5
<1>6. 0..N \subseteq P
  <2> HIDE DEF P, N
  <2> QED BY <1>1, <1>4, <1>5, IntervalInduction
<1>7. N \in P
  BY <1>1, <1>6
<1> QED BY <1>3, <1>7

\* Code that is closed under imports.
Closed(code, C) == \A m \in C : m \in DOMAIN code /\ ToSet(code[m].uses) \subseteq C

\* A set closed under use holds all that its modules reach.
LEMMA ClosedReaches ==
  ASSUME NEW code, NEW rank, NEW B, CodeOk(code, rank, B), NEW C, Closed(code, C)
  PROVE  \A m \in C : Reaches(code, m) \subseteq C
<1> DEFINE D == DOMAIN code
           P == {m \in D : m \in C => Reaches(code, m) \subseteq C}
<1>1. rank \in [D -> Nat] /\ \A d \in D : \A u \in ToSet(code[d].uses) : u \in D /\ rank[u] < rank[d]
  <2>1. B \in Nat /\ rank \in [D -> 0..B]
        /\ \A d \in D : \A u \in ToSet(code[d].uses) : u \in D /\ rank[u] < rank[d]
    BY ModuleTypes DEF CodeOk
  <2> HIDE DEF D
  <2> QED BY <2>1
<1>2. ASSUME NEW m \in D, \A e \in D : rank[e] < rank[m] => e \in P PROVE m \in P
  <2> SUFFICES ASSUME m \in C PROVE Reaches(code, m) \subseteq C
    OBVIOUS
  <2>1. \A u \in ToSet(code[m].uses) : Reaches(code, u) \subseteq C
    BY <1>1, <1>2 DEF Closed
  <2>2. Reaches(code, m) = {m} \cup UNION {Reaches(code, u) : u \in ToSet(code[m].uses)}
    BY ReachesIs
  <2> QED BY <2>1, <2>2
<1>3. D \subseteq P
  <2> HIDE DEF D, P
  <2> QED BY <1>1, <1>2, RankInduction
<1> QED BY <1>3 DEF Closed

\* Importing a module keeps the invariant, by induction over the rank of the module.
LEMMA ImportHolds ==
  ASSUME NEW code, NEW rank, NEW B, CodeOk(code, rank, B), NEW Q, Q = (DOMAIN code) \X Interpreter,
         NEW import \in [Q -> Interpreter], Importing(import, code),
         NEW C, Closed(code, C), NEW n \in Nat, NEW taken
  PROVE  \A m \in C : \A s \in Interpreter : Base(code, C, n, taken, s) => Holds(code, C, n, taken, import[<<m, s>>])
<1> DEFINE D == DOMAIN code
           Good(m) == \A s \in Interpreter : Base(code, C, n, taken, s) => Holds(code, C, n, taken, import[<<m, s>>])
           P == {m \in D : m \in C => Good(m)}
<1>1. rank \in [D -> Nat] /\ \A d \in D : \A u \in ToSet(code[d].uses) : u \in D /\ rank[u] < rank[d]
  <2>1. B \in Nat /\ rank \in [D -> 0..B]
        /\ \A d \in D : \A u \in ToSet(code[d].uses) : u \in D /\ rank[u] < rank[d]
    BY ModuleTypes DEF CodeOk
  <2> HIDE DEF D
  <2> QED BY <2>1
<1>2. ASSUME NEW m \in D, \A e \in D : rank[e] < rank[m] => e \in P PROVE m \in P
  <2> SUFFICES ASSUME m \in C, NEW s \in Interpreter, Base(code, C, n, taken, s)
               PROVE  Holds(code, C, n, taken, import[<<m, s>>])
    OBVIOUS
  <2> DEFINE uses == code[m].uses
             t == import[<<m, s>>]
             a == Used(uses, s, import)
             X == UNION {Reaches(code, u) : u \in ToSet(uses)}
  <2>1. t = IF ~s.ok \/ m \in s.modules THEN s ELSE Run(code, s, m, import)
    BY DEF Importing
  <2>2. CASE m \in s.modules
    <3>1. t = s
      BY <2>1, <2>2
    <3>2. Holds(code, C, n, taken, s)
      BY DEF Holds, Base
    <3> QED BY <3>1, <3>2
  <2>3. CASE m \notin s.modules
    <3>1. t = Run(code, s, m, import)
      BY <2>1, <2>3 DEF Base
    <3>2. uses \in Seq(D) /\ Q = D \X Interpreter
      BY ModuleTypes
    <3>3. \A u \in D : \A x \in Interpreter :
            Grown(code, Reaches(code, u), x, import[<<u, x>>]) /\ (import[<<u, x>>].ok => u \in import[<<u, x>>].modules)
      BY ImportGrows
    <3>4. \A u \in ToSet(uses) : u \in D /\ u \in C /\ Good(u)
      BY <1>1, <1>2 DEF Closed
    <3>5. \A u \in ToSet(uses), x \in Interpreter :
            Grown(code, X, x, import[<<u, x>>]) /\ (import[<<u, x>>].ok => u \in import[<<u, x>>].modules)
      <4> SUFFICES ASSUME NEW u \in ToSet(uses), NEW x \in Interpreter
                   PROVE  Grown(code, X, x, import[<<u, x>>]) /\ (import[<<u, x>>].ok => u \in import[<<u, x>>].modules)
        OBVIOUS
      <4>1. Reaches(code, u) \subseteq X
        OBVIOUS
      <4>2. Grown(code, Reaches(code, u), x, import[<<u, x>>]) /\ (import[<<u, x>>].ok => u \in import[<<u, x>>].modules)
        BY <3>3, <3>4
      <4>3. Grown(code, X, x, x)
        BY GrownSelf
      <4> HIDE DEF X
      <4>4. Grown(code, X, x, import[<<u, x>>])
        BY <4>1, <4>2, <4>3, GrownTwice
      <4> QED BY <4>2, <4>4
    <3>6. Grown(code, X, s, a) /\ (a.ok => ToSet(uses) \subseteq a.modules)
      <4> HIDE DEF D, X, uses
      <4> QED BY <3>2, <3>5, UsedGrows
    <3>7. \A u \in ToSet(uses), x \in Interpreter :
            /\ Base(code, C, n, taken, x) => Holds(code, C, n, taken, import[<<u, x>>])
            /\ import[<<u, x>>].ok => x.ok
      <4>1. \A u \in ToSet(uses), x \in Interpreter : import[<<u, x>>].ok => x.ok
        <5> HIDE DEF X
        <5> QED BY <3>5 DEF Grown
      <4> QED BY <3>4, <4>1
    <3>8. Holds(code, C, n, taken, a)
      <4> HIDE DEF D, X, uses
      <4> QED BY <3>2, <3>7, UsedHolds
    <3>9. m \notin X
      BY ReachesFacts
    <3>10. Ends(code, m, Registered(code[m].rules, a, m), t)
      <4>1. import \in [(DOMAIN code) \X Interpreter -> Interpreter]
        OBVIOUS
      <4>2. Ends(code, m, RunLast(code, s, m, import), Run(code, s, m, import))
        BY <4>1, RunIs
      <4> QED BY <3>1, <4>2 DEF RunLast
    <3> HIDE DEF t, a, X
    <3>11. Holds(code, C, n, taken, t)
      BY <2>3, <3>6, <3>8, <3>9, <3>10, RunHolds
    <3> QED BY <3>11 DEF t
  <2> QED BY <2>2, <2>3
<1>3. D \subseteq P
  <2> HIDE DEF D, P
  <2> QED BY <1>1, <1>2, RankInduction
<1> QED BY <1>3 DEF Closed

RuleSeqIs(q) ==
  /\ Len(q) \in Nat /\ DOMAIN q = 1..Len(q) /\ ToSet(q) = {q[k] : k \in 1..Len(q)}
  /\ \A k \in 1..Len(q) : q[k] \in [name : STRING, valid : BOOLEAN]

\* The items of a sequence of rules.
LEMMA RuleSeqFacts ==
  ASSUME NEW q \in RuleSeq
  PROVE  RuleSeqIs(q)
<1> DEFINE R == [name : STRING, valid : BOOLEAN]
<1>1. q \in Seq(R)
  BY DEF RuleSeq
<1> SUFFICES Len(q) \in Nat /\ DOMAIN q = 1..Len(q) /\ ToSet(q) = {q[k] : k \in 1..Len(q)} /\ \A k \in 1..Len(q) : q[k] \in R
  BY DEF RuleSeqIs
<1> HIDE DEF R
<1> QED BY <1>1 DEF ToSet

\* The rules of a module are those of the modules it reaches.
LEMMA RulesOfAre ==
  ASSUME NEW code, NEW rank, NEW B, CodeOk(code, rank, B), NEW m \in DOMAIN code
  PROVE  \A x : x \in RulesOf(code, m) <=>
           \E y \in Reaches(code, m) : \E k \in 1..Len(code[y].rules) : x = [name |-> code[y].rules[k].name, by |-> y]
<1>1. \A y \in Reaches(code, m) : code[y].rules \in RuleSeq
  BY ReachesFacts, ModuleTypes
<1>2. \A y \in Reaches(code, m) : ToSet(code[y].rules) = {code[y].rules[k] : k \in 1..Len(code[y].rules)}
  BY <1>1, RuleSeqFacts DEF RuleSeqIs
<1>3. RulesOf(code, m) = UNION {{[name |-> r.name, by |-> y] : r \in ToSet(code[y].rules)} : y \in Reaches(code, m)}
  BY DEF RulesOf
<1> SUFFICES ASSUME NEW x
             PROVE  x \in RulesOf(code, m) <=>
                      \E y \in Reaches(code, m) : \E k \in 1..Len(code[y].rules) : x = [name |-> code[y].rules[k].name, by |-> y]
  OBVIOUS
<1>4. x \in RulesOf(code, m) <=> \E y \in Reaches(code, m) : \E r \in ToSet(code[y].rules) : x = [name |-> r.name, by |-> y]
  BY <1>3
<1>5. ASSUME NEW y \in Reaches(code, m)
      PROVE  (\E r \in ToSet(code[y].rules) : x = [name |-> r.name, by |-> y])
             <=> \E k \in 1..Len(code[y].rules) : x = [name |-> code[y].rules[k].name, by |-> y]
  <2>1. ToSet(code[y].rules) = {code[y].rules[k] : k \in 1..Len(code[y].rules)}
    BY <1>2
  <2> QED BY <2>1
<1> QED BY <1>4, <1>5

\* What one import does: it grows by what it reaches, does nothing twice, and keeps the invariant.
LEMMA ImportResult ==
  ASSUME NEW code, NEW rank, NEW B, CodeOk(code, rank, B), NEW m \in DOMAIN code, NEW s \in Interpreter
  PROVE  /\ Grown(code, Reaches(code, m), s, Import(code, s, m))
         /\ m \in s.modules => Import(code, s, m) = s
         /\ \A C, taken : \A n \in Nat : Closed(code, C) /\ m \in C /\ Base(code, C, n, taken, s) =>
                                          Holds(code, C, n, taken, Import(code, s, m))
         /\ Import(code, s, m).ok => m \in Import(code, s, m).modules
<1> DEFINE Q == (DOMAIN code) \X Interpreter
<1>1. \E import \in [Q -> Interpreter] : Imports(import, code)
  BY ImportIs
<1>2. PICK import \in [Q -> Interpreter] : Imports(import, code)
  BY <1>1
<1>3. Importing(import, code) /\ Import(code, s, m) = import[<<m, s>>] /\ Q = (DOMAIN code) \X Interpreter
  BY <1>2 DEF Imports
<1> HIDE DEF Q
<1>4. Grown(code, Reaches(code, m), s, import[<<m, s>>]) /\ (import[<<m, s>>].ok => m \in import[<<m, s>>].modules)
  BY <1>3, ImportGrows
<1>5. m \in s.modules => import[<<m, s>>] = s
  BY <1>3 DEF Importing
<1>6. ASSUME NEW C, NEW taken, NEW n \in Nat, Closed(code, C), m \in C, Base(code, C, n, taken, s)
      PROVE  Holds(code, C, n, taken, import[<<m, s>>])
  BY <1>3, <1>6, ImportHolds
<1> QED BY <1>3, <1>4, <1>5, <1>6

\* The rules that a registry got behind the first n.
Behind(registry, n) == {registry[i] : i \in (n + 1)..Len(registry)}

\* A plugin whose code is new runs to its end just when it is sound, and leaves all its rules.
LEMMA ImportSound ==
  ASSUME NEW code, NEW rank, NEW B, CodeOk(code, rank, B), NEW m \in DOMAIN code,
         NEW s \in Interpreter, s.ok, Unique(s.registry), s.modules \cap Reaches(code, m) = {}
  PROVE  LET t == Import(code, s, m)
         IN /\ t.ok /\ VersionFits(code, m) <=> Sound(code, m, RuleNames(s.registry))
            /\ t.ok => Behind(t.registry, Len(s.registry)) = RulesOf(code, m)
<1> DEFINE t == Import(code, s, m)
           C == Reaches(code, m)
           n == Len(s.registry)
           taken == RuleNames(s.registry)
<1>1. /\ n \in Nat /\ Closed(code, C) /\ m \in C /\ C \subseteq DOMAIN code
      /\ \A y \in C : Len(code[y].rules) \in Nat /\ DOMAIN code[y].rules = 1..Len(code[y].rules)
                      /\ ToSet(code[y].rules) = {code[y].rules[k] : k \in 1..Len(code[y].rules)}
                      /\ \A k \in 1..Len(code[y].rules) : code[y].rules[k] \in [name : STRING, valid : BOOLEAN]
  <2>1. C \subseteq DOMAIN code /\ m \in C /\ Closed(code, C)
    BY ReachesFacts DEF Closed
  <2>2. \A y \in C : code[y].rules \in RuleSeq
    BY <2>1, ModuleTypes
  <2>3. \A y \in C : RuleSeqIs(code[y].rules)
    <3> HIDE DEF C
    <3> QED BY <2>2, RuleSeqFacts
  <2> HIDE DEF C
  <2> QED BY <2>1, <2>3, InterpreterTypes DEF RuleSeqIs
<1>2. \A x : x \in RulesOf(code, m) <=>
        \E y \in C : \E k \in 1..Len(code[y].rules) : x = [name |-> code[y].rules[k].name, by |-> y]
  BY RulesOfAre
<1>3. Grown(code, C, s, t) /\ (t.ok => m \in t.modules)
  BY ImportResult
<1>4. Base(code, C, n, taken, s)
  <2>1. \A i \in 1..n : s.registry[i].name \in taken
    BY NamesAre
  <2>2. \A i \in 1..n : ~(i > n)
    BY <1>1
  <2>3. n <= n /\ s.modules \cap C = {}
    BY <1>1
  <2> HIDE DEF C, taken
  <2> QED BY <2>1, <2>2, <2>3 DEF Base
<1>5. Holds(code, C, n, taken, t)
  <2> HIDE DEF C, taken, n, t
  <2>1. Holds(code, C, n, taken, Import(code, s, m))
    BY <1>1, <1>4, ImportResult
  <2> QED BY <2>1 DEF t
<1> HIDE DEF t, C, taken
<1>6. t \in Interpreter /\ Len(t.registry) \in Nat /\ n <= Len(t.registry) /\ Unique(t.registry)
      /\ \A i \in 1..n : t.registry[i] = s.registry[i]
  BY <1>3, InterpreterTypes DEF Grown
<1>7. ASSUME t.ok
      PROVE  /\ C \subseteq t.modules /\ \A y \in C : Complete(code, y, n, t)
             /\ \A i \in 1..Len(t.registry) : i > n => t.registry[i].by \in C /\ Has(code, t.registry[i].by, t.registry[i].name)
  <2>1. Base(code, C, n, taken, t)
    BY <1>5, <1>7 DEF Holds
  <2>2. Closed(code, t.modules \cap C)
    BY <1>1, <2>1 DEF Closed, Base, Complete
  <2>3. Reaches(code, m) \subseteq t.modules \cap C
    BY <1>1, <1>3, <1>7, <2>2, ClosedReaches
  <2> QED BY <2>1, <2>3 DEF Base, C
<1>8. ASSUME t.ok PROVE Behind(t.registry, n) = RulesOf(code, m)
  <2>1. ASSUME NEW i \in (n + 1)..Len(t.registry) PROVE t.registry[i] \in RulesOf(code, m)
    <3>1. i \in 1..Len(t.registry) /\ i > n
      BY <1>1, <1>6
    <3>2. t.registry[i].by \in C /\ Has(code, t.registry[i].by, t.registry[i].name)
      BY <1>7, <1>8, <3>1
    <3>3. PICK k \in 1..Len(code[t.registry[i].by].rules) : code[t.registry[i].by].rules[k].name = t.registry[i].name
      BY <3>2 DEF Has
    <3>4. t.registry[i] = [name |-> t.registry[i].name, by |-> t.registry[i].by]
      <4>1. t.registry[i] \in Registration
        BY <1>6, <3>1, InterpreterTypes
      <4> QED BY <4>1 DEF Registration
    <3> QED BY <1>2, <3>2, <3>3, <3>4
  <2>2. ASSUME NEW x \in RulesOf(code, m) PROVE x \in Behind(t.registry, n)
    <3>0. PICK y \in C : \E k \in 1..Len(code[y].rules) : x = [name |-> code[y].rules[k].name, by |-> y]
      BY <1>2
    <3>1. PICK k \in 1..Len(code[y].rules) : x = [name |-> code[y].rules[k].name, by |-> y]
      BY <3>0
    <3>2. Complete(code, y, n, t)
      BY <1>7, <1>8
    <3>3. PICK i \in 1..Len(t.registry) : i > n /\ t.registry[i] = x
      BY <3>1, <3>2 DEF Complete
    <3>4. i \in (n + 1)..Len(t.registry)
      BY <1>1, <1>6, <3>3
    <3> QED BY <3>3, <3>4 DEF Behind
  <2> QED BY <2>1, <2>2 DEF Behind
<1>9. ASSUME t.ok, VersionFits(code, m) PROVE Sound(code, m, taken)
  <2>1. ASSUME NEW y \in C, NEW k \in 1..Len(code[y].rules)
        PROVE  \E i \in 1..Len(t.registry) : i > n /\ t.registry[i] = [name |-> code[y].rules[k].name, by |-> y]
    <3>1. Complete(code, y, n, t)
      BY <1>7, <1>9
    <3>2. \A j \in 1..Len(code[y].rules) :
            \E i \in 1..Len(t.registry) : i > n /\ t.registry[i] = [name |-> code[y].rules[j].name, by |-> y]
      BY <3>1 DEF Complete
    <3> QED BY <3>2
  <2>2. ASSUME NEW y \in C, NEW k \in 1..Len(code[y].rules), code[y].rules[k].name \in taken PROVE FALSE
    <3>0. PICK i \in 1..Len(t.registry) : i > n /\ t.registry[i] = [name |-> code[y].rules[k].name, by |-> y]
      BY <2>1
    <3>1. i > n /\ t.registry[i].name = code[y].rules[k].name
      BY <3>0
    <3>2. PICK j \in 1..n : s.registry[j].name = code[y].rules[k].name
      BY <2>2, NamesAre DEF taken
    <3>3. j \in 1..Len(t.registry) /\ t.registry[j].name = t.registry[i].name
      BY <1>1, <1>6, <3>1, <3>2
    <3>4. j = i
      BY <1>6, <3>3 DEF Unique
    <3> QED BY <1>1, <3>1, <3>4
  <2>3. \A y \in C : ~code[y].raises /\ \A r \in ToSet(code[y].rules) : r.valid /\ r.name \notin taken
    <3> SUFFICES ASSUME NEW y \in C PROVE ~code[y].raises /\ \A r \in ToSet(code[y].rules) : r.valid /\ r.name \notin taken
      OBVIOUS
    <3>1. Complete(code, y, n, t)
      BY <1>7, <1>9
    <3>2. ~code[y].raises /\ \A k \in 1..Len(code[y].rules) : code[y].rules[k].valid
      BY <3>1 DEF Complete
    <3>3. ToSet(code[y].rules) = {code[y].rules[k] : k \in 1..Len(code[y].rules)}
      BY <1>1
    <3>4. \A k \in 1..Len(code[y].rules) : code[y].rules[k].name \notin taken
      BY <2>2
    <3> QED BY <3>2, <3>3, <3>4
  <2>4. ASSUME NEW r \in RulesOf(code, m), NEW q \in RulesOf(code, m), r.name = q.name PROVE r = q
    <3>1. PICK i \in (n + 1)..Len(t.registry) : r = t.registry[i]
      BY <1>8, <1>9 DEF Behind
    <3>2. PICK j \in (n + 1)..Len(t.registry) : q = t.registry[j]
      BY <1>8, <1>9 DEF Behind
    <3>3. i \in 1..Len(t.registry) /\ j \in 1..Len(t.registry)
      BY <1>1, <1>6
    <3>4. i = j
      BY <1>6, <2>4, <3>1, <3>2, <3>3 DEF Unique
    <3> QED BY <3>1, <3>2, <3>4
  <2>5. ASSUME NEW y \in C PROVE IsInjective(code[y].rules)
    <3>1. \A j, k \in 1..Len(code[y].rules) : code[y].rules[j].name = code[y].rules[k].name => j = k
      BY <1>7, <1>9 DEF Complete
    <3> QED BY <1>1, <3>1 DEF IsInjective
  <2> QED BY <1>9, <2>3, <2>4, <2>5 DEF Sound, C
<1>10. ASSUME Sound(code, m, taken) PROVE t.ok
  <2>1. /\ \A y \in C : ~code[y].raises /\ \A r \in ToSet(code[y].rules) : r.valid /\ r.name \notin taken
        /\ \A r, q \in RulesOf(code, m) : r.name = q.name => r = q
        /\ \A y \in C : IsInjective(code[y].rules)
    BY <1>10 DEF Sound, C
  <2>2. \A y \in C : \A k \in 1..Len(code[y].rules) : code[y].rules[k].valid /\ code[y].rules[k].name \notin taken
    <3> SUFFICES ASSUME NEW y \in C, NEW k \in 1..Len(code[y].rules)
                 PROVE  code[y].rules[k].valid /\ code[y].rules[k].name \notin taken
      OBVIOUS
    <3>1. code[y].rules[k] \in ToSet(code[y].rules)
      <4>1. ToSet(code[y].rules) = {code[y].rules[j] : j \in 1..Len(code[y].rules)}
        BY <1>1
      <4> QED BY <4>1
    <3> QED BY <2>1, <3>1
  <2>3. ASSUME NEW y \in C, NEW j \in 1..Len(code[y].rules), NEW k \in 1..Len(code[y].rules),
               code[y].rules[j].name = code[y].rules[k].name
        PROVE  j = k
    <3>1. code[y].rules[j].valid /\ code[y].rules[k].valid
      BY <2>2
    <3>2. code[y].rules[j] \in [name : STRING, valid : BOOLEAN] /\ code[y].rules[k] \in [name : STRING, valid : BOOLEAN]
      BY <1>1
    <3>3. code[y].rules[j] = code[y].rules[k]
      BY <2>3, <3>1, <3>2
    <3> QED BY <1>1, <2>1, <3>3 DEF IsInjective
  <2>4. ASSUME NEW y \in C, NEW o \in C, NEW name, Has(code, y, name), Has(code, o, name) PROVE y = o
    <3>1. [name |-> name, by |-> y] \in RulesOf(code, m) /\ [name |-> name, by |-> o] \in RulesOf(code, m)
      BY <1>2, <2>4 DEF Has
    <3>2. [name |-> name, by |-> y] = [name |-> name, by |-> o]
      BY <2>1, <3>1
    <3>3. [name |-> name, by |-> y].by = y /\ [name |-> name, by |-> o].by = o
      OBVIOUS
    <3> QED BY <3>2, <3>3
  <2>5. Fine(code, C, taken)
    BY <2>1, <2>2, <2>3, <2>4 DEF Fine
  <2> QED BY <1>5, <2>5 DEF Holds
<1>11. Sound(code, m, taken) => VersionFits(code, m)
  BY DEF Sound
<1> QED BY <1>8, <1>9, <1>10, <1>11 DEF t, taken

\* A rollback takes out what an import added, and nothing else.
LEMMA RollbackUndoes ==
  ASSUME NEW code, NEW X, NEW m, NEW s, NEW t, Grown(code, X, s, t), Unique(s.registry)
  PROVE  Rollback(t.registry, RuleNames(s.registry), code, m) = s.registry
<1> DEFINE n == Len(s.registry)
           q == t.registry
           places == {i \in DOMAIN q : q[i].name \in RuleNames(s.registry)}
<1>1. /\ s \in Interpreter /\ n \in Nat /\ n <= Len(q) /\ Len(q) \in Nat /\ \A i \in 1..n : q[i] = s.registry[i]
      /\ Unique(q) /\ q \in Seq(Registration) /\ s.registry \in Seq(Registration) /\ DOMAIN q = 1..Len(q)
  BY InterpreterTypes DEF Grown
<1>2. ASSUME NEW k \in 1..Len(q) PROVE k \in places <=> k <= n
  <2>1. CASE k <= n
    <3>1. k \in 1..n
      BY <1>1, <2>1
    <3>2. q[k].name \in RuleNames(s.registry)
      BY <1>1, <3>1, NamesAre
    <3> QED BY <1>1, <2>1, <3>2
  <2>2. ASSUME k \in places PROVE k <= n
    <3>1. PICK j \in 1..n : s.registry[j].name = q[k].name
      BY <1>1, <2>2, NamesAre
    <3>2. j \in 1..Len(q) /\ q[j].name = q[k].name
      BY <1>1, <3>1
    <3>3. j = k
      BY <1>1, <3>2 DEF Unique
    <3> QED BY <1>1, <3>3
  <2> QED BY <2>1, <2>2
<1>3. Rollback(q, RuleNames(s.registry), code, m) = Kept(q, places)
  BY DEF Rollback
<1> HIDE DEF q, places
<1>4. n \in 0..Len(q)
  BY <1>1
<1>5. Kept(q, places) = SubSeq(q, 1, n)
  BY <1>1, <1>2, <1>4, KeptFirst
<1>6. SubSeq(q, 1, n) = s.registry
  <2>1. SubSeq(q, 1, n) \in Seq(Registration) /\ Len(SubSeq(q, 1, n)) = n /\ \A i \in 1..n : SubSeq(q, 1, n)[i] = q[i]
    BY <1>1, <1>4
  <2> DEFINE w == SubSeq(q, 1, n)
  <2>2. w \in Seq(Registration) /\ s.registry \in Seq(Registration) /\ Len(w) = Len(s.registry)
        /\ \A i \in 1..Len(w) : w[i] = s.registry[i]
    BY <1>1, <2>1
  <2> HIDE DEF w
  <2>3. w = s.registry
    BY <2>2, SeqEqual
  <2> QED BY <2>3 DEF w
<1> QED BY <1>3, <1>5, <1>6 DEF q

\* One entry point: all of its plugin, or nothing of it.
LEMMA EntryLoaded ==
  ASSUME NEW code, NEW rank, NEW B, CodeOk(code, rank, B), NEW m \in DOMAIN code,
         NEW s \in Interpreter, s.ok, Unique(s.registry)
  PROVE  LET t == Import(code, s, m)
             u == LoadEntry(code, s, m)
         IN /\ Grown(code, Reaches(code, m), s, t)
            /\ u \in Interpreter /\ u.ok /\ u.modules = t.modules
            /\ u.registry = IF t.ok /\ VersionFits(code, m) THEN t.registry ELSE s.registry
<1> DEFINE t == Import(code, s, m)
           u == LoadEntry(code, s, m)
<1>1. Grown(code, Reaches(code, m), s, t)
  BY ImportResult
<1>2. t \in Interpreter /\ t = [registry |-> t.registry, modules |-> t.modules, ok |-> t.ok] /\ t.modules \in SUBSET STRING
      /\ s.registry \in Seq(Registration)
  BY <1>1, InterpreterTypes DEF Grown
<1>3. Rollback(t.registry, RuleNames(s.registry), code, m) = s.registry
  BY <1>1, RollbackUndoes
<1>4. u = IF t.ok /\ VersionFits(code, m) THEN t
          ELSE [t EXCEPT !.ok = TRUE, !.registry = Rollback(@, RuleNames(s.registry), code, m)]
  BY DEF LoadEntry
<1> HIDE DEF t, u
<1>5. CASE t.ok /\ VersionFits(code, m)
  BY <1>1, <1>2, <1>4, <1>5 DEF t, u
<1>6. CASE ~(t.ok /\ VersionFits(code, m))
  <2>1. u = [registry |-> s.registry, modules |-> t.modules, ok |-> TRUE]
    BY <1>2, <1>3, <1>4, <1>6
  <2>2. u \in Interpreter
    BY <1>2, <2>1 DEF Interpreter, Registration
  <2> QED BY <1>1, <1>6, <2>1, <2>2 DEF t, u
<1> QED BY <1>5, <1>6 DEF t, u

\* SoundOnes, an entry point at a time.
OneByOne(code, entries, builtin) ==
  /\ SoundOnes(code, entries, 0, builtin) = {}
  /\ \A k \in 1..Len(entries) :
       SoundOnes(code, entries, k, builtin) =
         SoundOnes(code, entries, k - 1, builtin)
         \cup {m \in {entries[k].module} :
                 Sound(code, m, builtin \cup TakenBy(code, SoundOnes(code, entries, k - 1, builtin) \ {m}))}

\* Judging the entry points one by one decides each from those before it.
LEMMA SoundOnesAre ==
  ASSUME NEW code, NEW T, NEW entries \in Seq(T), NEW builtin
  PROVE  OneByOne(code, entries, builtin)
<1> DEFINE N == Len(entries)
           V == SUBSET {entries[k].module : k \in 1..N}
           E(g, k) == g \cup {m \in {entries[k].module} : Sound(code, m, builtin \cup TakenBy(code, g \ {m}))}
           Body(f, k) == IF k = 0 THEN {}
                         ELSE f[k - 1] \cup {m \in {entries[k].module} : Sound(code, m, builtin \cup TakenBy(code, f[k - 1] \ {m}))}
           step == [p \in V \X (1..N) |-> E(p[1], p[2])]
           G == CHOOSE f : f = [k \in 0..N |-> Body(f, k)]
<1>1. N \in Nat
  OBVIOUS
<1>2. \A g \in V, k \in 1..N : E(g, k) \in V
  OBVIOUS
<1>3. step \in [V \X (1..N) -> V] /\ \A g \in V, k \in 1..N : step[<<g, k>>] = E(g, k)
  <2> HIDE DEF E, N, V
  <2> QED BY <1>2
<1>4. PICK f \in [0..N -> V] : Recursive(f, 0..N, {}, step)
  <2>1. {} \in V
    OBVIOUS
  <2> HIDE DEF step, N, V
  <2> QED BY <1>1, <1>3, <2>1, IntervalRecursion
<1>5. ASSUME NEW k \in 0..N PROVE f[k] = Body(f, k)
  <2>1. CASE k = 0
    <3> HIDE DEF step
    <3> QED BY <1>4, <2>1 DEF Recursive
  <2>2. CASE k # 0
    <3>1. k \in 1..N /\ k - 1 \in 0..N
      BY <1>1, <2>2
    <3>2. f[k - 1] \in V
      BY <1>4, <3>1
    <3>3. f[k] = step[<<f[k - 1], k>>]
      <4> HIDE DEF step
      <4> QED BY <1>4, <2>2 DEF Recursive
    <3>4. f[k] = E(f[k - 1], k)
      <4> HIDE DEF step, E, N, V
      <4> QED BY <1>3, <3>1, <3>2, <3>3
    <3> QED BY <2>2, <3>4
  <2> QED BY <2>1, <2>2
<1>6. f = [k \in 0..N |-> Body(f, k)]
  <2> HIDE DEF step, Body, N, V
  <2>1. f = [k \in 0..N |-> f[k]]
    BY <1>4
  <2> QED BY <1>5, <2>1
<1>7. G = [k \in 0..N |-> Body(G, k)]
  <2> HIDE DEF Body, N
  <2> QED BY <1>6
<1>8. \A k : SoundOnes(code, entries, k, builtin) = G[k]
  BY DEF SoundOnes, G
<1> HIDE DEF G
<1>9. \A k \in 0..N : G[k] = Body(G, k)
  <2> HIDE DEF Body, N
  <2> QED BY <1>7
<1>10. G[0] = {}
  <2>1. 0 \in 0..N
    BY <1>1
  <2> QED BY <1>9, <2>1
<1>11. ASSUME NEW k \in 1..N
       PROVE  G[k] = G[k - 1] \cup {m \in {entries[k].module} : Sound(code, m, builtin \cup TakenBy(code, G[k - 1] \ {m}))}
  <2>1. k \in 0..N /\ k # 0
    BY <1>1
  <2> QED BY <1>9, <2>1
<1> QED BY <1>8, <1>10, <1>11 DEF OneByOne

\* A module that fails is not imported, whatever it imported itself.
LEMMA FailedIsOut ==
  ASSUME NEW code, NEW rank, NEW B, CodeOk(code, rank, B), NEW m \in DOMAIN code,
         NEW s \in Interpreter, s.ok, m \notin s.modules, ~Import(code, s, m).ok
  PROVE  m \notin Import(code, s, m).modules
<1> DEFINE D == DOMAIN code
           Q == D \X Interpreter
           X == Reaches(code, m) \ {m}
           uses == code[m].uses
<1>1. \E import \in [Q -> Interpreter] : Imports(import, code)
  BY ImportIs
<1>2. PICK import \in [Q -> Interpreter] : Imports(import, code)
  BY <1>1
<1>3. Importing(import, code) /\ Import(code, s, m) = import[<<m, s>>] /\ Q = D \X Interpreter
  BY <1>2 DEF Imports
<1> DEFINE t == import[<<m, s>>]
           a == Used(uses, s, import)
           b == Registered(code[m].rules, a, m)
<1>4. t = Run(code, s, m, import)
  BY <1>3 DEF Importing
<1>5. uses \in Seq(D) /\ \A u \in ToSet(uses) : u \in D /\ Reaches(code, u) \subseteq X
  <2>1. uses \in Seq(D) /\ \A u \in ToSet(uses) : u \in D
    BY ModuleTypes
  <2>2. \A u \in ToSet(uses) : Reaches(code, u) \subseteq Reaches(code, m) /\ m \notin Reaches(code, u)
    BY ReachesFacts
  <2> QED BY <2>1, <2>2
<1>6. ASSUME NEW u \in ToSet(uses), NEW x \in Interpreter
      PROVE  Grown(code, X, x, import[<<u, x>>]) /\ (import[<<u, x>>].ok => u \in import[<<u, x>>].modules)
  <2>1. u \in D /\ Reaches(code, u) \subseteq X
    BY <1>5
  <2>2. Grown(code, Reaches(code, u), x, import[<<u, x>>]) /\ (import[<<u, x>>].ok => u \in import[<<u, x>>].modules)
    <3> HIDE DEF Q
    <3> QED BY <1>3, <2>1, ImportGrows
  <2>3. Grown(code, X, x, x)
    BY GrownSelf
  <2>4. Grown(code, X, x, import[<<u, x>>])
    BY <2>1, <2>2, <2>3, GrownTwice
  <2> QED BY <2>2, <2>4
<1>7. Grown(code, X, s, a)
  <2> HIDE DEF D, X, uses, Q
  <2> QED BY <1>3, <1>5, <1>6, UsedGrows
<1>8. b.modules = a.modules
  <2>1. a \in Interpreter
    BY <1>7 DEF Grown
  <2> HIDE DEF a
  <2> QED BY <2>1, RegisteredModules
<1>9. t.modules = IF t.ok THEN b.modules \cup {m} ELSE b.modules
  <2>1. import \in [(DOMAIN code) \X Interpreter -> Interpreter]
    OBVIOUS
  <2>2. Ends(code, m, RunLast(code, s, m, import), Run(code, s, m, import))
    BY <2>1, RunIs
  <2>3. b = RunLast(code, s, m, import)
    BY DEF RunLast
  <2> QED BY <1>4, <2>2, <2>3 DEF Ends
<1>10. ~t.ok
  BY <1>3
<1>11. m \notin a.modules
  BY <1>7 DEF Grown
<1> HIDE DEF a, b, t
<1> QED BY <1>3, <1>8, <1>9, <1>10, <1>11 DEF t

\* The registry after the entry points so far: the built-in rules as they were, no name twice, and
\* behind them what the sound ones of the plugins register.  A plugin that is imported was listed,
\* with its code, and counts as sound when its API fits.
GoodOnes(code, entries, n) == SoundOnes(code, entries, n, ToSet(BuiltinRules))

Parted(code, entries, n, s) ==
  /\ Behind(s.registry, Len(BuiltinRules)) = UNION {RulesOf(code, m) : m \in GoodOnes(code, entries, n)}
  /\ GoodOnes(code, entries, n) \subseteq s.modules
  /\ \A x \in s.modules : \E i \in 1..n : x \in Reaches(code, entries[i].module)
  /\ \A i \in 1..n : entries[i].module \in s.modules /\ VersionFits(code, entries[i].module)
                       => entries[i].module \in GoodOnes(code, entries, n)

Based(s) ==
  /\ s \in Interpreter /\ s.ok /\ Unique(s.registry)
  /\ Len(BuiltinRules) <= Len(s.registry)
  /\ \A i \in 1..Len(BuiltinRules) : s.registry[i] = BuiltIns.registry[i]

SoFar(code, entries, n, s) == Based(s) /\ (Apart(code, entries) => Parted(code, entries, n, s))

\* The names taken so far: the built-in ones and those of the plugins that were sound.
LEMMA NamesSoFar ==
  ASSUME NEW code, NEW good, NEW s, Based(s),
         Behind(s.registry, Len(BuiltinRules)) = UNION {RulesOf(code, m) : m \in good}
  PROVE  RuleNames(s.registry) = ToSet(BuiltinRules) \cup TakenBy(code, good)
<1> DEFINE K == Len(BuiltinRules)
           N == Len(s.registry)
<1>1. K \in Nat /\ DOMAIN BuiltinRules = 1..K /\ N \in Nat /\ K <= N
  BY BuiltinRulesAssumption, InterpreterTypes DEF Based
<1>2. \A i \in 1..K : s.registry[i].name = BuiltinRules[i]
  <2>1. \A i \in 1..K : BuiltIns.registry[i].name = BuiltinRules[i]
    BY <1>1 DEF BuiltIns
  <2>2. \A i \in 1..K : s.registry[i] = BuiltIns.registry[i]
    BY DEF Based
  <2> QED BY <2>1, <2>2
<1>3. \A x : x \in ToSet(BuiltinRules) <=> \E i \in 1..K : s.registry[i].name = x
  <2>1. ToSet(BuiltinRules) = {BuiltinRules[i] : i \in 1..K}
    BY <1>1 DEF ToSet
  <2> HIDE DEF K
  <2> QED BY <1>2, <2>1
<1>4. \A x : x \in TakenBy(code, good) <=> \E i \in (K + 1)..N : s.registry[i].name = x
  <2>1. TakenBy(code, good) = {r.name : r \in Behind(s.registry, K)}
    BY DEF TakenBy
  <2>2. Behind(s.registry, K) = {s.registry[i] : i \in (K + 1)..N}
    BY DEF Behind
  <2> HIDE DEF K, N
  <2> QED BY <2>1, <2>2
<1>5. \A x : x \in RuleNames(s.registry) <=> \E i \in 1..N : s.registry[i].name = x
  BY NamesAre DEF Based
<1>6. 1..N = (1..K) \cup ((K + 1)..N)
  <2> HIDE DEF K, N
  <2> QED BY <1>1
<1> HIDE DEF K, N
<1>7. ASSUME NEW x PROVE x \in RuleNames(s.registry) <=> x \in ToSet(BuiltinRules) \/ x \in TakenBy(code, good)
  BY <1>3, <1>4, <1>5, <1>6
<1> QED BY <1>7

\* What one entry point leaves of that.
LEMMA EntrySoFar ==
  ASSUME NEW code, NEW rank, NEW B, CodeOk(code, rank, B),
         NEW entries \in Seq([name : STRING, module : DOMAIN code]), NEW k \in 1..Len(entries),
         NEW s, SoFar(code, entries, k - 1, s)
  PROVE  SoFar(code, entries, k, LoadEntry(code, s, entries[k].module))
<1> DEFINE m == entries[k].module
           t == Import(code, s, m)
           u == LoadEntry(code, s, m)
           K == Len(BuiltinRules)
           C == Reaches(code, m)
           old == GoodOnes(code, entries, k - 1)
           new == GoodOnes(code, entries, k)
<1>1. Len(entries) \in Nat /\ m \in DOMAIN code /\ \A i \in 1..Len(entries) : entries[i].module \in DOMAIN code
  <2> DEFINE T == [name : STRING, module : DOMAIN code]
  <2>1. entries \in Seq(T)
    OBVIOUS
  <2>2. \A x \in T : x.module \in DOMAIN code
    OBVIOUS
  <2> HIDE DEF T
  <2>3. Len(entries) \in Nat /\ \A i \in 1..Len(entries) : entries[i] \in T
    BY <2>1
  <2> QED BY <2>2, <2>3
<1>2. K \in Nat /\ Based(s) /\ s \in Interpreter /\ s.ok /\ Unique(s.registry) /\ Len(s.registry) \in Nat /\ K <= Len(s.registry)
  BY BuiltinRulesAssumption, InterpreterTypes DEF SoFar, Based
<1>3. /\ Grown(code, C, s, t)
      /\ u \in Interpreter /\ u.ok /\ u.modules = t.modules
      /\ u.registry = IF t.ok /\ VersionFits(code, m) THEN t.registry ELSE s.registry
  BY <1>1, <1>2, EntryLoaded
<1> HIDE DEF t, u, m
<1>4. Based(u)
  <2>1. CASE t.ok /\ VersionFits(code, m)
    <3>1. u.registry = t.registry /\ Unique(t.registry) /\ Len(s.registry) <= Len(t.registry) /\ Len(t.registry) \in Nat
      BY <1>2, <1>3, <2>1, InterpreterTypes DEF Grown
    <3>2. \A i \in 1..K : u.registry[i] = BuiltIns.registry[i]
      <4>1. \A i \in 1..K : i \in 1..Len(s.registry)
        BY <1>2
      <4>2. \A i \in 1..K : t.registry[i] = s.registry[i]
        BY <1>3, <4>1 DEF Grown
      <4> QED BY <1>2, <3>1, <4>2 DEF Based
    <3> QED BY <1>2, <1>3, <3>1, <3>2 DEF Based
  <2>2. CASE ~(t.ok /\ VersionFits(code, m))
    <3>1. u.registry = s.registry
      BY <1>3, <2>2
    <3> QED BY <1>2, <1>3, <3>1 DEF Based
  <2> QED BY <2>1, <2>2
<1> SUFFICES ASSUME Apart(code, entries) PROVE Parted(code, entries, k, u)
  BY <1>4 DEF SoFar, u, m
<1>5. Parted(code, entries, k - 1, s)
  BY DEF SoFar
<1>6. new = old \cup {x \in {m} : Sound(code, x, ToSet(BuiltinRules) \cup TakenBy(code, old \ {x}))}
  <2> DEFINE T == [name : STRING, module : DOMAIN code]
  <2>1. entries \in Seq(T)
    OBVIOUS
  <2> HIDE DEF T
  <2>2. OneByOne(code, entries, ToSet(BuiltinRules))
    BY <2>1, SoundOnesAre
  <2> QED BY <2>2 DEF OneByOne, GoodOnes, m
<1>7. \A i \in 1..k : i \in 1..Len(entries) /\ (i \in 1..(k - 1) \/ i = k)
  BY <1>1
<1>8. \A i \in 1..(k - 1) : i \in 1..k /\ i \in 1..Len(entries) /\ i # k
  BY <1>1
<1>9. k \in 1..k
  BY <1>1
<1>10. \A y \in DOMAIN code : y \in Reaches(code, y)
  BY ReachesFacts
<1>11. ASSUME NEW i \in 1..(k - 1), NEW x \in Reaches(code, entries[i].module), x \in C
       PROVE  entries[i].module = m /\ C = {m}
  <2>1. i \in DOMAIN entries /\ k \in DOMAIN entries /\ i # k
    BY <1>1, <1>8
  <2>2. entries[i].module = m /\ code[entries[i].module].uses = <<>>
    BY <1>11, <2>1 DEF Apart, m
  <2>3. C = {m} \cup UNION {Reaches(code, v) : v \in ToSet(code[m].uses)}
    BY <1>1, ReachesIs DEF m
  <2>4. ToSet(code[m].uses) = {}
    BY <2>2 DEF ToSet
  <2> QED BY <2>2, <2>3, <2>4
<1>12. ASSUME NEW x \in u.modules PROVE \E i \in 1..k : x \in Reaches(code, entries[i].module)
  <2>1. x \in s.modules \/ x \in C
    BY <1>3 DEF Grown
  <2>2. x \in s.modules => \E i \in 1..(k - 1) : x \in Reaches(code, entries[i].module)
    BY <1>5 DEF Parted
  <2> QED BY <1>8, <1>9, <2>1, <2>2 DEF m
<1>13. CASE m \in s.modules
  <2>1. t = s
    BY <1>1, <1>2, <1>13, ImportResult DEF t, m
  <2>2. u.registry = s.registry /\ u.modules = s.modules
    BY <1>3, <2>1
  <2>3. PICK i \in 1..(k - 1) : m \in Reaches(code, entries[i].module)
    BY <1>5, <1>13 DEF Parted
  <2>4. entries[i].module = m
    BY <1>1, <1>10, <1>11, <2>3 DEF m
  <2>5. VersionFits(code, m) => m \in old
    BY <1>5, <1>13, <2>4 DEF Parted
  <2>6. new = old
    BY <1>6, <2>5 DEF Sound
  <2>7. \A j \in 1..k : entries[j].module \in u.modules /\ VersionFits(code, entries[j].module) => entries[j].module \in new
    BY <1>5, <1>7, <2>2, <2>5, <2>6 DEF Parted, m
  <2> QED BY <1>5, <1>12, <2>2, <2>6, <2>7 DEF Parted
<1>14. CASE m \notin s.modules
  <2>1. ASSUME NEW x \in s.modules, x \in C PROVE FALSE
    <3>1. PICK i \in 1..(k - 1) : x \in Reaches(code, entries[i].module)
      BY <1>5 DEF Parted
    <3>2. C = {m}
      BY <1>11, <2>1, <3>1
    <3> QED BY <1>14, <2>1, <3>2
  <2>2. s.modules \cap C = {}
    BY <2>1
  <2>3. m \notin old
    BY <1>5, <1>14 DEF Parted
  <2>4. RuleNames(s.registry) = ToSet(BuiltinRules) \cup TakenBy(code, old)
    BY <1>2, <1>5, NamesSoFar DEF Parted
  <2>5. /\ t.ok /\ VersionFits(code, m) <=> Sound(code, m, RuleNames(s.registry))
        /\ t.ok => Behind(t.registry, Len(s.registry)) = RulesOf(code, m)
    BY <1>1, <1>2, <2>2, ImportSound DEF t, m
  <2>6. t.ok => m \in t.modules
    BY <1>1, <1>2, ImportResult DEF t, m
  <2>7. ~t.ok => m \notin t.modules
    BY <1>1, <1>2, <1>14, FailedIsOut DEF t, m
  <2>8. old \ {m} = old
    BY <2>3
  <2>9. new = IF t.ok /\ VersionFits(code, m) THEN old \cup {m} ELSE old
    BY <1>6, <2>4, <2>5, <2>8
  <2>10. s.modules \subseteq u.modules
    BY <1>3 DEF Grown
  <2>11. old \subseteq s.modules
    BY <1>5 DEF Parted
  <2>12. new \subseteq u.modules
    BY <1>3, <2>6, <2>9, <2>10, <2>11
  <2>13. ASSUME NEW i \in 1..k, entries[i].module \in u.modules, VersionFits(code, entries[i].module)
         PROVE  entries[i].module \in new
    <3> DEFINE x == entries[i].module
    <3>1. CASE x = m
      BY <1>3, <2>7, <2>9, <2>13, <3>1
    <3>2. CASE x # m
      <4>1. i \in 1..(k - 1)
        BY <1>7, <3>2 DEF m
      <4>2. x \in s.modules \/ x \in C
        BY <1>3, <2>13 DEF Grown
      <4>3. x \notin C
        <5>1. x \in Reaches(code, x)
          BY <1>1, <1>7, <1>10
        <5> QED BY <1>11, <3>2, <4>1, <5>1
      <4>4. x \in old
        BY <1>5, <2>13, <4>1, <4>2, <4>3 DEF Parted
      <4> QED BY <2>9, <4>4
    <3> QED BY <3>1, <3>2
  <2>14. Behind(u.registry, K) = UNION {RulesOf(code, x) : x \in new}
    <3>1. CASE ~(t.ok /\ VersionFits(code, m))
      BY <1>3, <1>5, <2>9, <3>1 DEF Parted
    <3>2. CASE t.ok /\ VersionFits(code, m)
      <4> DEFINE n == Len(s.registry)
                 N == Len(t.registry)
      <4>1. N \in Nat /\ n <= N /\ \A i \in 1..n : t.registry[i] = s.registry[i]
        BY <1>3, InterpreterTypes DEF Grown
      <4>2. \A x : x \in Behind(s.registry, K) <=> \E i \in (K + 1)..n : t.registry[i] = x
        <5>1. \A i \in (K + 1)..n : i \in 1..n
          BY <1>2
        <5> QED BY <4>1, <5>1 DEF Behind
      <4>3. \A x : x \in Behind(t.registry, n) <=> \E i \in (n + 1)..N : t.registry[i] = x
        BY DEF Behind
      <4>4. \A x : x \in Behind(t.registry, K) <=> \E i \in (K + 1)..N : t.registry[i] = x
        BY DEF Behind
      <4>5. (K + 1)..N = ((K + 1)..n) \cup ((n + 1)..N)
        BY <1>2, <4>1
      <4> HIDE DEF n, N
      <4>6. Behind(t.registry, K) = Behind(s.registry, K) \cup Behind(t.registry, n)
        BY <4>2, <4>3, <4>4, <4>5
      <4>7. Behind(t.registry, n) = RulesOf(code, m)
        BY <2>5, <3>2 DEF n
      <4>8. new = old \cup {m} /\ u.registry = t.registry
        BY <1>3, <2>9, <3>2
      <4>9. Behind(s.registry, K) = UNION {RulesOf(code, x) : x \in old}
        BY <1>5 DEF Parted
      <4> HIDE DEF K, old, new
      <4> QED BY <4>6, <4>7, <4>8, <4>9
    <3> QED BY <3>1, <3>2
  <2> QED BY <1>12, <2>12, <2>13, <2>14 DEF Parted
<1> QED BY <1>13, <1>14

\* Loading, at any moment: what is left are the last of the entry points that are let through, and
\* the registry is as the ones before them leave it.
LoadTypes ==
  /\ setup \in Setups
  /\ permitted \in Seq([name : STRING, module : DOMAIN setup.code])
  /\ worker = [pc |-> worker.pc, config |-> worker.config, left |-> worker.left]
  /\ worker.left \in Seq([name : STRING, module : DOMAIN setup.code])

LoadInv ==
  /\ LoadTypes
  /\ Len(worker.left) <= Len(permitted)
  /\ \A i \in 1..Len(worker.left) : worker.left[i] = permitted[(Len(permitted) - Len(worker.left)) + i]
  /\ worker.pc # "loading" => worker.left = <<>> /\ (~loaded => permitted = <<>>)
  /\ SoFar(setup.code, permitted, Len(permitted) - Len(worker.left), interpreter)

\* The code of every setup has an import order without a cycle.
LEMMA SetupCode ==
  ASSUME NEW s \in Setups
  PROVE  /\ s.entries \in Seq([name : STRING, module : DOMAIN s.code])
         /\ \E B \in Nat : \E rank \in [DOMAIN s.code -> 0..B] : CodeOk(s.code, rank, B)
<1>1. /\ DOMAIN s.code \subseteq STRING /\ IsFiniteSet(DOMAIN s.code)
      /\ s.code \in [DOMAIN s.code -> PluginModule(DOMAIN s.code)] /\ Layered(s.code)
      /\ s.entries \in Seq([name : STRING, module : DOMAIN s.code])
  BY SetupsAssumption
<1> DEFINE B == Cardinality(DOMAIN s.code)
<1>2. B \in Nat
  BY <1>1, FS_CardinalityType
<1>3. PICK rank \in [DOMAIN s.code -> 0..B] : \A m \in DOMAIN s.code : \A u \in ToSet(s.code[m].uses) : rank[u] < rank[m]
  BY <1>1 DEF Layered
<1>4. CodeOk(s.code, rank, B)
  BY <1>1, <1>2, <1>3 DEF CodeOk
<1> QED BY <1>1, <1>2, <1>4

\* Nothing is sound or imported before the first entry point.
LEMMA NothingYet ==
  ASSUME NEW code, NEW T, NEW entries \in Seq(T), NEW s, Based(s), s.modules = {},
         Behind(s.registry, Len(BuiltinRules)) = {}
  PROVE  SoFar(code, entries, 0, s)
<1>1. OneByOne(code, entries, ToSet(BuiltinRules))
  BY SoundOnesAre
<1>2. GoodOnes(code, entries, 0) = {}
  BY <1>1 DEF OneByOne, GoodOnes
<1>3. 1..0 = {}
  OBVIOUS
<1> QED BY <1>2, <1>3 DEF SoFar, Parted

\* The inductive invariant of the loading holds at first.
LEMMA LoadInit == SetInit => LoadInv
<1> SUFFICES ASSUME SetInit PROVE LoadInv
  OBVIOUS
<1> DEFINE K == Len(BuiltinRules)
<1>1. setup \in Setups /\ interpreter = BuiltIns /\ worker = Resting /\ permitted = <<>>
  BY DEF SetInit
<1>2. worker.pc = "idle" /\ worker.left = <<>> /\ worker = [pc |-> worker.pc, config |-> worker.config, left |-> worker.left]
  BY <1>1 DEF Resting
<1>3. <<>> \in Seq([name : STRING, module : DOMAIN setup.code]) /\ Len(permitted) = 0 /\ Len(worker.left) = 0
  BY <1>1, <1>2
<1>4. K \in Nat /\ DOMAIN BuiltinRules = 1..K /\ \A i \in 1..K : BuiltinRules[i] \in STRING
  BY BuiltinRulesAssumption
<1>5. BuiltIns.registry = [i \in 1..K |-> [name |-> BuiltinRules[i], by |-> "builtin"]]
      /\ BuiltIns.modules = {} /\ BuiltIns.ok
  BY <1>4 DEF BuiltIns
<1>6. BuiltIns.registry \in Seq(Registration) /\ Len(BuiltIns.registry) = K
  <2> HIDE DEF K
  <2>1. \A i \in 1..K : [name |-> BuiltinRules[i], by |-> "builtin"] \in Registration
    BY <1>4 DEF Registration
  <2>2. BuiltIns.registry \in [1..K -> Registration]
    BY <1>5, <2>1
  <2> QED BY <1>4, <2>2
<1>7. BuiltIns \in Interpreter
  BY <1>5, <1>6 DEF BuiltIns, Interpreter, Registration
<1>8. Unique(BuiltIns.registry)
  <2>1. \A i \in 1..K : BuiltIns.registry[i].name = BuiltinRules[i]
    BY <1>5
  <2>2. \A i, j \in 1..K : BuiltinRules[i] = BuiltinRules[j] => i = j
    BY <1>4, BuiltinRulesAssumption DEF IsInjective
  <2> HIDE DEF K
  <2> QED BY <1>6, <2>1, <2>2 DEF Unique
<1>9. Based(BuiltIns)
  BY <1>4, <1>5, <1>6, <1>7, <1>8 DEF Based
<1>10. Behind(BuiltIns.registry, K) = {}
  <2> HIDE DEF K
  <2>1. (K + 1)..K = {}
    BY <1>4
  <2> QED BY <1>6, <2>1 DEF Behind
<1>11. SoFar(setup.code, permitted, 0, interpreter)
  BY <1>1, <1>3, <1>5, <1>9, <1>10, NothingYet
<1> QED BY <1>1, <1>2, <1>3, <1>11 DEF LoadInv, LoadTypes

\* A scan that starts to load plugins is the first one to do so.
LEMMA StartLoads ==
  ASSUME LoadInv, NEW folder \in DOMAIN setup.above, StartScan(folder)
  PROVE  LoadInv'
<1> DEFINE T == [name : STRING, module : DOMAIN setup.code]
           config == FolderConfig(folder)
           load == config.plugins /\ ~loaded
           P == Permitted(setup.entries, config)
           K == Len(BuiltinRules)
<1>1. /\ worker.pc = "idle"
      /\ worker' = [pc |-> IF load THEN "loading" ELSE "scanning", config |-> config, left |-> IF load THEN P ELSE <<>>]
      /\ permitted' = IF load THEN P ELSE permitted
      /\ setup' = setup /\ interpreter' = interpreter /\ loaded' = loaded
  BY DEF StartScan
<1>2. setup \in Setups /\ permitted \in Seq(T) /\ worker.left = <<>> /\ (~loaded => permitted = <<>>)
      /\ SoFar(setup.code, permitted, Len(permitted) - Len(worker.left), interpreter)
  BY <1>1 DEF LoadInv, LoadTypes
<1>3. P \in Seq(T)
  <2>1. setup.entries \in Seq(T)
    BY <1>2, SetupCode
  <2> HIDE DEF T
  <2> QED BY <2>1, KeptTypes DEF Permitted
<1>4. <<>> \in Seq(T) /\ Len(permitted) \in Nat /\ Len(P) \in Nat
  <2> HIDE DEF T, P
  <2> QED BY <1>2, <1>3
<1> HIDE DEF T, config, P
<1>5. CASE ~load
  <2>1. worker'.pc = "scanning" /\ worker'.left = <<>> /\ permitted' = permitted
        /\ worker' = [pc |-> worker'.pc, config |-> worker'.config, left |-> worker'.left]
    BY <1>1, <1>5
  <2>2. Len(worker'.left) = 0 /\ Len(worker.left) = 0
    BY <1>2, <2>1
  <2>3. LoadTypes'
    BY <1>1, <1>2, <1>4, <2>1 DEF LoadTypes, T
  <2> QED BY <1>1, <1>2, <1>4, <2>1, <2>2, <2>3 DEF LoadInv
<1>6. CASE load
  <2>1. worker'.pc = "loading" /\ worker'.left = P /\ permitted' = P /\ permitted = <<>>
        /\ worker' = [pc |-> worker'.pc, config |-> worker'.config, left |-> worker'.left]
    BY <1>1, <1>2, <1>6
  <2>2. Len(permitted) = 0 /\ Len(worker.left) = 0 /\ Len(permitted) - Len(worker.left) = 0 /\ Len(P) - Len(P) = 0
    BY <1>2, <1>4, <2>1
  <2>3. LoadTypes'
    BY <1>1, <1>2, <1>3, <2>1 DEF LoadTypes, T
  <2>4. SoFar(setup.code, permitted, 0, interpreter)
    BY <1>2, <2>2
  <2>5. Based(interpreter) /\ interpreter.modules = {} /\ Behind(interpreter.registry, K) = {}
    <3>1. Apart(setup.code, permitted)
      BY <2>1 DEF Apart
    <3>2. Parted(setup.code, permitted, 0, interpreter)
      BY <2>4, <3>1 DEF SoFar
    <3>3. OneByOne(setup.code, permitted, ToSet(BuiltinRules))
      BY <1>2, SoundOnesAre
    <3>4. GoodOnes(setup.code, permitted, 0) = {} /\ 1..0 = {}
      BY <3>3 DEF OneByOne, GoodOnes
    <3> QED BY <2>4, <3>2, <3>4 DEF SoFar, Parted
  <2>6. SoFar(setup.code, P, 0, interpreter)
    BY <1>3, <2>5, NothingYet
  <2>7. \A i \in 1..Len(P) : P[i] = P[(Len(P) - Len(P)) + i]
    BY <1>4
  <2> QED BY <1>1, <1>4, <2>1, <2>2, <2>3, <2>6, <2>7 DEF LoadInv
<1> QED BY <1>5, <1>6

\* One entry point.
LEMMA PluginLoads ==
  ASSUME LoadInv, LoadPlugin
  PROVE  LoadInv'
<1> DEFINE T == [name : STRING, module : DOMAIN setup.code]
           L == Len(worker.left)
           N == Len(permitted)
           k == (N - L) + 1
<1>1. /\ worker.pc = "loading" /\ worker.left # <<>>
      /\ interpreter' = LoadEntry(setup.code, interpreter, Head(worker.left).module)
      /\ worker' = [worker EXCEPT !.left = Tail(@)]
      /\ setup' = setup /\ loaded' = loaded /\ permitted' = permitted
  BY DEF LoadPlugin
<1>2. /\ setup \in Setups /\ permitted \in Seq(T) /\ worker.left \in Seq(T)
      /\ worker = [pc |-> worker.pc, config |-> worker.config, left |-> worker.left]
      /\ L <= N /\ \A i \in 1..L : worker.left[i] = permitted[(N - L) + i]
      /\ SoFar(setup.code, permitted, N - L, interpreter)
  BY DEF LoadInv, LoadTypes
<1>3. worker' = [pc |-> "loading", config |-> worker.config, left |-> Tail(worker.left)]
  BY <1>1, <1>2
<1>4. /\ N \in Nat /\ L \in Nat /\ L > 0
      /\ Tail(worker.left) \in Seq(T) /\ Len(Tail(worker.left)) = L - 1
      /\ \A i \in 1..(L - 1) : Tail(worker.left)[i] = worker.left[i + 1]
      /\ Head(worker.left) = worker.left[1]
  <2> HIDE DEF T
  <2> QED BY <1>1, <1>2
<1>5. k \in 1..N /\ k - 1 = N - L /\ N - (L - 1) = k
  <2> HIDE DEF N, L
  <2> QED BY <1>2, <1>4
<1>6. Head(worker.left) = permitted[k]
  <2>1. 1 \in 1..L /\ (N - L) + 1 = k
    <3> HIDE DEF N, L
    <3> QED BY <1>4
  <2> QED BY <1>2, <1>4, <2>1
<1>7. SoFar(setup.code, permitted, k, interpreter')
  <2>0. PICK B \in Nat : \E rank \in [DOMAIN setup.code -> 0..B] : CodeOk(setup.code, rank, B)
    BY <1>2, SetupCode
  <2>1. PICK rank \in [DOMAIN setup.code -> 0..B] : CodeOk(setup.code, rank, B)
    BY <2>0
  <2>2. SoFar(setup.code, permitted, k - 1, interpreter)
    BY <1>2, <1>5
  <2>3. SoFar(setup.code, permitted, k, LoadEntry(setup.code, interpreter, permitted[k].module))
    <3> HIDE DEF k
    <3> QED BY <1>2, <1>5, <2>1, <2>2, EntrySoFar DEF N, T
  <2> QED BY <1>1, <1>6, <2>3
<1>8. LoadTypes'
  BY <1>1, <1>2, <1>3, <1>4 DEF LoadTypes
<1>9. \A i \in 1..(L - 1) : Tail(worker.left)[i] = permitted[(N - (L - 1)) + i]
  <2> SUFFICES ASSUME NEW i \in 1..(L - 1) PROVE Tail(worker.left)[i] = permitted[(N - (L - 1)) + i]
    OBVIOUS
  <2>0. L \in Nat /\ N \in Nat
    BY <1>4
  <2>1. i + 1 \in 1..L /\ (N - L) + (i + 1) = (N - (L - 1)) + i
    <3>1. i \in Int /\ 1 <= i /\ i <= L - 1
      BY <2>0
    <3> HIDE DEF N, L
    <3>2. i + 1 \in 1..L
      BY <2>0, <3>1
    <3>3. (N - L) + (i + 1) = (N - (L - 1)) + i
      BY <2>0, <3>1
    <3> QED BY <3>2, <3>3
  <2> QED BY <1>2, <1>4, <2>1
<1>10. L - 1 <= N
  <2> HIDE DEF N, L
  <2> QED BY <1>2, <1>4
<1>11. worker'.pc = "loading" /\ worker'.left = Tail(worker.left) /\ Len(worker'.left) = L - 1 /\ Len(permitted') = N
  BY <1>1, <1>3, <1>4
<1>12. SoFar(setup.code, permitted, Len(permitted) - (L - 1), interpreter')
  BY <1>5, <1>7
<1> HIDE DEF L, N, k
<1> QED BY <1>1, <1>8, <1>9, <1>10, <1>11, <1>12 DEF LoadInv, N

\* Every other step leaves the registry and what is left to load.
LEMMA LoadKeeps ==
  ASSUME LoadInv, setup' = setup, interpreter' = interpreter, permitted' = permitted,
         loaded => loaded', worker'.left = worker.left,
         worker' = [pc |-> worker'.pc, config |-> worker'.config, left |-> worker'.left],
         worker'.pc # "loading" => worker.left = <<>> /\ (~loaded' => permitted = <<>>)
  PROVE  LoadInv'
  BY DEF LoadInv, LoadTypes

\* Every step keeps it.
LEMMA LoadStep == LoadInv /\ [SetNext]_setVars => LoadInv'
<1> SUFFICES ASSUME LoadInv, [SetNext]_setVars PROVE LoadInv'
  OBVIOUS
<1>1. ASSUME NEW folder \in DOMAIN setup.above, StartScan(folder) PROVE LoadInv'
  BY <1>1, StartLoads
<1>2. CASE LoadPlugin
  BY <1>2, PluginLoads
<1>3. CASE PluginsLoaded
  <2>1. worker' = [pc |-> "scanning", config |-> worker.config, left |-> worker.left]
    BY <1>3 DEF PluginsLoaded, LoadInv, LoadTypes
  <2> QED BY <1>3, <2>1, LoadKeeps DEF PluginsLoaded
<1>4. CASE EndScan
  <2>1. worker' = [pc |-> "idle", config |-> BuildConfig({}), left |-> <<>>] /\ worker.left = <<>>
    BY <1>4 DEF EndScan, Resting, LoadInv
  <2>2. ~loaded => permitted = <<>>
    BY <1>4 DEF EndScan, LoadInv
  <2> QED BY <1>4, <2>1, <2>2, LoadKeeps DEF EndScan
<1>5. CASE setup' = setup /\ interpreter' = interpreter /\ permitted' = permitted /\ loaded' = loaded /\ worker' = worker
  BY <1>5 DEF LoadInv, LoadTypes
<1>6. ASSUME NEW j \in DOMAIN edits, Refuse(j) \/ ReadConfig(j) \/ OpenConfig(j) \/ WriteConfig(j) \/ KillEdit(j) PROVE LoadInv'
  BY <1>5, <1>6 DEF Refuse, ReadConfig, OpenConfig, WriteConfig, KillEdit
<1>7. CASE UNCHANGED setVars
  BY <1>5, <1>7 DEF setVars
<1> QED BY <1>1, <1>2, <1>3, <1>4, <1>6, <1>7 DEF SetNext

\* It implies that a loaded plugin's rules are all registered, and a failed one's not at all.
LEMMA InvGivesWhole == LoadInv => RegistryIsWhole
<1> SUFFICES ASSUME LoadInv PROVE RegistryIsWhole
  OBVIOUS
<1> DEFINE K == Len(BuiltinRules)
           n == Len(permitted) - Len(worker.left)
<1>1. Based(interpreter) /\ (Apart(setup.code, permitted) => Parted(setup.code, permitted, n, interpreter))
  BY DEF LoadInv, SoFar
<1>2. interpreter \in Interpreter /\ Unique(interpreter.registry) /\ K <= Len(interpreter.registry)
      /\ \A i \in 1..K : interpreter.registry[i] = BuiltIns.registry[i]
  BY <1>1 DEF Based
<1>3. DOMAIN interpreter.registry = 1..Len(interpreter.registry)
  BY <1>2, InterpreterTypes
<1>4. IsPrefix(BuiltIns.registry, interpreter.registry)
  <2> DEFINE r == interpreter.registry
             b == BuiltIns.registry
  <2>1. K \in Nat /\ b = [i \in 1..K |-> [name |-> BuiltinRules[i], by |-> "builtin"]]
    BY BuiltinRulesAssumption DEF BuiltIns
  <2>2. Len(b) = K /\ Len(r) \in Nat /\ K <= Len(r) /\ \A i \in 1..K : r[i] = b[i]
    BY <1>2, <2>1, InterpreterTypes
  <2> HIDE DEF b, r, K
  <2>3. SubSeq(b, 1, K) = SubSeq(r, 1, K)
    <3>1. SubSeq(b, 1, K) = [i \in 1..K |-> b[i]]
      BY <2>1, <2>2
    <3>2. SubSeq(r, 1, K) = [i \in 1..K |-> r[i]]
      BY <2>1, <2>2
    <3> QED BY <2>2, <3>1, <3>2
  <2> QED BY <2>2, <2>3 DEF IsPrefix, b, r
<1>5. \A i, k \in DOMAIN interpreter.registry : interpreter.registry[i].name = interpreter.registry[k].name => i = k
  BY <1>2, <1>3 DEF Unique
<1>6. Apart(setup.code, permitted) =>
        {interpreter.registry[i] : i \in (K + 1)..Len(interpreter.registry)}
          = UNION {RulesOf(setup.code, m) : m \in SoundOnes(setup.code, permitted, n, ToSet(BuiltinRules))}
  BY <1>1 DEF Parted, Behind, GoodOnes
<1> QED BY <1>4, <1>5, <1>6 DEF RegistryIsWhole

\* Whatever plugins are installed, whatever their code does while it is imported, and whatever each
\* folder permits: the built-in rules stay first and as they are, no name is taken twice, and behind
\* them stand just the rules of the permitted plugins so far that ran to their end
\* (load_rule_plugins, RuleRegistry.register and unregister).
THEOREM RegistryStaysWhole == SetSpec => []RegistryIsWhole
  BY LoadInit, LoadStep, InvGivesWhole, PTL DEF SetSpec
-----------------------------------------------------------------------------

(* The declarations of an external id *)

\* The declarations at these places write different fields of one record.
Patches(list, D, model) ==
  /\ \A i \in D : Unthemed(ModelOf(list[i])) = model
  /\ \A i, j \in D : i # j => WrittenFields(list[i]) \cap WrittenFields(list[j]) = {}

\* When the check reports nothing, the declarations name one model and no two write the same field.
LEMMA SilenceMeansPatches ==
  ASSUME NEW T, NEW list \in Seq(T), CheckDuplicateXmlId(list) = {}
  PROVE  \E model : Patches(list, Declaring(list), model)
<1> DEFINE D == Declaring(list)
           i == Earliest(list)
<1>1. D \in SUBSET Nat
  BY DEF Declaring
<1>2. CASE D = {}
  BY <1>2 DEF Patches
<1>3. CASE D # {}
  <2>1. i \in D /\ \A k \in D : i <= k
    <3>1. \E j \in D : \A k \in D : j <= k
      BY <1>1, <1>3, LeastNat
    <3> QED BY <3>1 DEF Earliest
  <2> HIDE DEF D, i
  <2>2. ASSUME NEW k \in D, k # i
        PROVE  /\ Unthemed(ModelOf(list[i])) = Unthemed(ModelOf(list[k]))
               /\ WrittenFields(list[k]) \cap WrittenBefore(list, k) = {}
    <3> DEFINE f == [at |-> k, confidence |-> SaidOfLater(list, k)]
               later == {j \in Declaring(list) : j # Earliest(list)}
               all == {[at |-> j, confidence |-> SaidOfLater(list, j)] : j \in later}
    <3>1. SaidOfLater(list, k) = ""
      <4>1. f \in all
        BY <2>2 DEF D, i
      <4>2. CheckDuplicateXmlId(list) = {x \in all : x.confidence # ""}
        BY DEF CheckDuplicateXmlId
      <4>3. f.confidence = SaidOfLater(list, k)
        OBVIOUS
      <4> HIDE DEF all, f
      <4> QED BY <4>1, <4>2, <4>3
    <3> QED BY <3>1 DEF SaidOfLater, i
  <2> DEFINE model == Unthemed(ModelOf(list[i]))
  <2>3. \A k \in D : Unthemed(ModelOf(list[k])) = model
    BY <2>2
  <2>4. ASSUME NEW j \in D, NEW k \in D, j < k
        PROVE  WrittenFields(list[j]) \cap WrittenFields(list[k]) = {}
    <3>1. k # i
      BY <1>1, <2>1, <2>4
    <3>2. WrittenFields(list[k]) \cap WrittenBefore(list, k) = {}
      BY <2>2, <3>1
    <3>3. WrittenFields(list[j]) \subseteq WrittenBefore(list, k)
      BY <2>4 DEF WrittenBefore, D
    <3> QED BY <3>2, <3>3
  <2>5. ASSUME NEW j \in D, NEW k \in D, j # k
        PROVE  WrittenFields(list[j]) \cap WrittenFields(list[k]) = {}
    <3>1. j < k \/ k < j
      BY <1>1, <2>5
    <3> QED BY <2>4, <3>1
  <2> QED BY <2>3, <2>5 DEF Patches, D
<1> QED BY <1>2, <1>3

\* The record that Odoo makes of declarations that patch each other: each field has the value of
\* the only declaration that writes it.
Made(r, list, D, model) ==
  /\ r = [refused |-> FALSE, model |-> r.model, value |-> r.value] /\ ~r.refused
  /\ r.model = IF D = {} THEN "" ELSE model
  /\ r.value = [f \in UNION {WrittenFields(list[i]) : i \in D} |-> r.value[f]]
  /\ \A i \in D : \A f \in WrittenFields(list[i]) : r.value[f] = list[i].value

\* Loading one more such declaration makes the record the declarations describe.
LEMMA LoadMakes ==
  ASSUME NEW list, NEW D, NEW model, NEW k, k \notin D, Patches(list, D \cup {k}, model),
         NEW r, Made(r, list, D, model)
  PROVE  Made(Load(r, list[k]), list, D \cup {k}, model)
<1> DEFINE E == D \cup {k}
           d == list[k]
           fields == UNION {WrittenFields(list[i]) : i \in D}
           value == [f \in DOMAIN r.value \cup WrittenFields(d) |-> IF f \in WrittenFields(d) THEN d.value ELSE r.value[f]]
           s == [refused |-> FALSE, model |-> model, value |-> value]
<1>1. Unthemed(ModelOf(d)) = model /\ r.model \in {"", model} /\ ~r.refused
  BY DEF Patches, Made
<1>2. Load(r, d) = s
  BY <1>1 DEF Load
<1>3. DOMAIN r.value = fields
  <2>1. r.value = [f \in fields |-> r.value[f]]
    BY DEF Made
  <2> QED BY <2>1
<1>4. UNION {WrittenFields(list[i]) : i \in E} = DOMAIN r.value \cup WrittenFields(d)
  BY <1>3
<1>5. \A f \in DOMAIN r.value \cup WrittenFields(d) :
        value[f] = IF f \in WrittenFields(d) THEN d.value ELSE r.value[f]
  OBVIOUS
<1>6. value = [f \in UNION {WrittenFields(list[i]) : i \in E} |-> value[f]]
  BY <1>4
<1> HIDE DEF value
<1>7. ASSUME NEW i \in E, NEW f \in WrittenFields(list[i]) PROVE value[f] = list[i].value
  <2>1. CASE i = k
    BY <1>5, <2>1
  <2>2. CASE i # k
    <3>1. i \in D /\ f \in DOMAIN r.value
      BY <1>3, <2>2
    <3>2. f \notin WrittenFields(d)
      BY <2>2 DEF Patches
    <3>3. r.value[f] = list[i].value
      BY <3>1 DEF Made
    <3> QED BY <1>5, <3>1, <3>2, <3>3
  <2> QED BY <2>1, <2>2
<1>8. E # {}
  OBVIOUS
<1> HIDE DEF E, d
<1>9. ~s.refused /\ s.model = model /\ s.value = value
  OBVIOUS
<1>10. Made(s, list, E, model)
  BY <1>6, <1>7, <1>8, <1>9 DEF Made
<1> QED BY <1>2, <1>10 DEF E, d

\* Such a record is the same for lists of the same declarations.
LEMMA MadeOnce ==
  ASSUME NEW list, NEW D, NEW other, NEW E, NEW model,
         \A i \in D : \E j \in E : list[i] = other[j], \A j \in E : \E i \in D : other[j] = list[i],
         NEW r, Made(r, list, D, model), NEW s, Made(s, other, E, model)
  PROVE  r = s
<1> DEFINE fields(l, I) == UNION {WrittenFields(l[i]) : i \in I}
<1>1. r.model = s.model
  BY DEF Made
<1>2. fields(list, D) = fields(other, E)
  <2>1. ASSUME NEW i \in D PROVE \E j \in E : WrittenFields(list[i]) = WrittenFields(other[j])
    BY <2>1
  <2>2. ASSUME NEW j \in E PROVE \E i \in D : WrittenFields(other[j]) = WrittenFields(list[i])
    BY <2>2
  <2> QED BY <2>1, <2>2
<1>3. ASSUME NEW f \in fields(list, D) PROVE r.value[f] = s.value[f]
  <2>1. PICK i \in D : f \in WrittenFields(list[i])
    OBVIOUS
  <2>2. PICK j \in E : list[i] = other[j]
    OBVIOUS
  <2>3. r.value[f] = list[i].value /\ s.value[f] = other[j].value
    BY <2>1, <2>2 DEF Made
  <2> QED BY <2>2, <2>3
<1>4. r.value = [f \in fields(list, D) |-> r.value[f]] /\ s.value = [f \in fields(other, E) |-> s.value[f]]
  BY DEF Made
<1>5. r.value = s.value
  <2> HIDE DEF fields
  <2> QED BY <1>2, <1>3, <1>4
<1> QED BY <1>1, <1>5 DEF Made

\* The declarations among the first k.
UpTo(list, k) == {i \in Declaring(list) : i <= k}

\* So does loading them all.
LEMMA LoadedIsMade ==
  ASSUME NEW T, NEW list \in Seq(T), NEW model, Patches(list, Declaring(list), model)
  PROVE  Made(Loaded(list), list, Declaring(list), model)
<1> DEFINE N == Len(list)
           D(k) == UpTo(list, k)
           Body(f, k) == IF k = 0 THEN Unmade
                         ELSE IF Declares(list[k]) THEN Load(f[k - 1], list[k]) ELSE f[k - 1]
           value(k) == [f \in UNION {WrittenFields(list[i]) : i \in D(k)} |->
                          list[CHOOSE i \in D(k) : f \in WrittenFields(list[i])].value]
           record(k) == [refused |-> FALSE, model |-> IF D(k) = {} THEN "" ELSE model, value |-> value(k)]
           made == [k \in 0..N |-> record(k)]
           G == CHOOSE f : f = [k \in 0..N |-> Body(f, k)]
<1>1. N \in Nat /\ D(0) = {} /\ D(N) = Declaring(list) /\ \A k \in 0..N : D(k) \subseteq Declaring(list)
  BY DEF UpTo, Declaring
<1>2. ASSUME NEW k \in 1..N
      PROVE  /\ k \in 0..N /\ k - 1 \in 0..N /\ k # 0
             /\ Declares(list[k]) => k \notin D(k - 1) /\ D(k) = D(k - 1) \cup {k}
             /\ ~Declares(list[k]) => D(k) = D(k - 1)
  BY <1>1 DEF UpTo, Declaring
<1>3. ASSUME NEW k \in 0..N PROVE Made(record(k), list, D(k), model)
  <2>1. ASSUME NEW i \in D(k), NEW f \in WrittenFields(list[i]) PROVE value(k)[f] = list[i].value
    <3> DEFINE j == CHOOSE x \in D(k) : f \in WrittenFields(list[x])
    <3>1. j \in D(k) /\ f \in WrittenFields(list[j])
      OBVIOUS
    <3>2. i = j
      BY <1>1, <3>1 DEF Patches
    <3>3. value(k)[f] = list[j].value
      OBVIOUS
    <3> QED BY <3>2, <3>3
  <2> HIDE DEF D
  <2>2. value(k) = [f \in UNION {WrittenFields(list[i]) : i \in D(k)} |-> value(k)[f]]
    OBVIOUS
  <2> HIDE DEF value
  <2> QED BY <2>1, <2>2 DEF Made
<1> HIDE DEF D, record
<1>4. ASSUME NEW r, Made(r, list, D(0), model) PROVE r = Unmade
  <2>1. Made(Unmade, list, D(0), model)
    BY <1>1 DEF Made, Unmade
  <2> QED BY <1>4, <2>1, MadeOnce
<1>5. ASSUME NEW k \in 1..N, NEW r, Made(r, list, D(k - 1), model)
      PROVE  Made(IF Declares(list[k]) THEN Load(r, list[k]) ELSE r, list, D(k), model)
  <2>1. CASE Declares(list[k])
    <3>1. Patches(list, D(k - 1) \cup {k}, model)
      BY <1>1, <1>2, <2>1 DEF Patches
    <3>2. Made(Load(r, list[k]), list, D(k - 1) \cup {k}, model)
      BY <1>2, <1>5, <2>1, <3>1, LoadMakes
    <3> QED BY <1>2, <2>1, <3>2
  <2>2. CASE ~Declares(list[k])
    BY <1>2, <1>5, <2>2
  <2> QED BY <2>1, <2>2
<1>6. ASSUME NEW k \in 0..N PROVE made[k] = Body(made, k)
  <2>1. CASE k = 0
    BY <1>3, <1>4, <2>1
  <2>2. CASE k # 0
    <3>1. k \in 1..N /\ k - 1 \in 0..N
      BY <1>1, <2>2
    <3>2. made[k] = record(k) /\ made[k - 1] = record(k - 1)
      BY <3>1
    <3>3. Made(record(k), list, D(k), model) /\ Made(record(k - 1), list, D(k - 1), model)
      BY <1>3, <3>1
    <3> HIDE DEF made
    <3>4. Made(Body(made, k), list, D(k), model)
      BY <1>5, <2>2, <3>1, <3>2, <3>3
    <3> HIDE DEF Body
    <3> QED BY <3>2, <3>3, <3>4, MadeOnce
  <2> QED BY <2>1, <2>2
<1>7. made = [k \in 0..N |-> Body(made, k)]
  <2>1. made = [k \in 0..N |-> made[k]]
    OBVIOUS
  <2> HIDE DEF made, Body, N
  <2> QED BY <1>6, <2>1
<1> HIDE DEF made
<1>8. G = [k \in 0..N |-> Body(G, k)]
  <2> HIDE DEF Body, N
  <2> QED BY <1>7
<1>9. Loaded(list) = G[N]
  BY DEF Loaded, G
<1> HIDE DEF G
<1>10. \A k \in 0..N : G[k] = Body(G, k)
  <2> HIDE DEF Body, N
  <2> QED BY <1>8
<1> DEFINE P == {k \in 0..N : Made(G[k], list, D(k), model)}
<1>11. 0 \in P
  <2>1. G[0] = Unmade /\ 0 \in 0..N
    BY <1>1, <1>10
  <2>2. Made(Unmade, list, D(0), model)
    BY <1>1 DEF Made, Unmade
  <2> QED BY <2>1, <2>2
<1>12. ASSUME NEW k \in 1..N, k - 1 \in P PROVE k \in P
  <2>1. G[k] = IF Declares(list[k]) THEN Load(G[k - 1], list[k]) ELSE G[k - 1]
    BY <1>2, <1>10
  <2> QED BY <1>2, <1>5, <1>12, <2>1
<1>13. 0..N \subseteq P
  <2> HIDE DEF P, N
  <2> QED BY <1>1, <1>11, <1>12, IntervalInduction
<1>14. N \in P
  BY <1>1, <1>13
<1> QED BY <1>1, <1>9, <1>14

\* Another order of the same files holds the same declarations.
LEMMA OrderedPatch ==
  ASSUME NEW T, NEW list \in Seq(T), NEW other, other \in InAnyOrder(list), NEW model, Patches(list, Declaring(list), model)
  PROVE  /\ other \in Seq(T) /\ Patches(other, Declaring(other), model)
         /\ \A i \in Declaring(list) : \E j \in Declaring(other) : list[i] = other[j]
         /\ \A j \in Declaring(other) : \E i \in Declaring(list) : other[j] = list[i]
<1> DEFINE I == DOMAIN list
<1>1. PICK p \in [I -> I] : /\ (\A i, j \in I : p[i] = p[j] => i = j) /\ \A i \in I : \E j \in I : p[j] = i
                            /\ other = [i \in I |-> list[p[i]]]
  BY DEF InAnyOrder
<1>2. p \in [I -> I] /\ (\A i, j \in I : p[i] = p[j] => i = j) /\ \A i \in I : \E j \in I : p[j] = i
  BY <1>1
<1>3. DOMAIN other = I /\ \A i \in I : other[i] = list[p[i]]
  BY <1>1
<1>4. other \in Seq(T)
  <2>1. I = 1..Len(list) /\ Len(list) \in Nat /\ \A i \in I : list[i] \in T
    OBVIOUS
  <2>2. \A i \in I : other[i] \in T
    BY <1>2, <1>3, <2>1
  <2>3. other = [i \in 1..Len(list) |-> other[i]]
    BY <1>1, <2>1
  <2> QED BY <2>1, <2>2, <2>3
<1>5. \A j \in Declaring(other) : p[j] \in Declaring(list) /\ other[j] = list[p[j]]
  BY <1>2, <1>3 DEF Declaring
<1>6. ASSUME NEW i \in Declaring(list) PROVE \E j \in Declaring(other) : list[i] = other[j]
  <2>1. PICK j \in I : p[j] = i
    BY <1>2 DEF Declaring
  <2> QED BY <1>3, <2>1 DEF Declaring
<1>7. ASSUME NEW i \in Declaring(other), NEW j \in Declaring(other), i # j
      PROVE  WrittenFields(other[i]) \cap WrittenFields(other[j]) = {}
  <2>1. p[i] # p[j]
    BY <1>2, <1>3, <1>7 DEF Declaring
  <2> QED BY <1>5, <2>1 DEF Patches
<1>8. Patches(other, Declaring(other), model)
  BY <1>5, <1>7 DEF Patches
<1> QED BY <1>4, <1>5, <1>6, <1>8

\* With nothing reported, any order of the files loads the same record, and none is refused.
LEMMA SilenceCommutes ==
  ASSUME NEW T, NEW list \in Seq(T), CheckDuplicateXmlId(list) = {}, NEW other, other \in InAnyOrder(list)
  PROVE  ~Loaded(other).refused /\ Loaded(other) = Loaded(list)
<1>1. PICK model : Patches(list, Declaring(list), model)
  BY SilenceMeansPatches
<1>2. /\ other \in Seq(T) /\ Patches(other, Declaring(other), model)
      /\ \A i \in Declaring(list) : \E j \in Declaring(other) : list[i] = other[j]
      /\ \A j \in Declaring(other) : \E i \in Declaring(list) : other[j] = list[i]
  BY <1>1, OrderedPatch
<1>3. Made(Loaded(list), list, Declaring(list), model) /\ Made(Loaded(other), other, Declaring(other), model)
  BY <1>1, <1>2, LoadedIsMade
<1>4. Loaded(list) = Loaded(other)
  BY <1>2, <1>3, MadeOnce
<1> QED BY <1>3, <1>4 DEF Made

\* The answer is the rule's answer to a list that is there.
IdsInv ==
  /\ rule = "ids" /\ input \in IdFiles /\ judged \in BOOLEAN
  /\ judged => verdict = CheckDuplicateXmlId(input)

\* The declarations of an id that are passed in silence make the same record in whatever order
\* their files are loaded (rules/xml/duplicate_xml_id.py).
THEOREM SilentPatchesCommute == IdsSpec => []PatchesCommute
<1>1. Unjudged /\ rule = "ids" /\ input \in IdFiles => IdsInv
  BY DEF Unjudged, IdsInv
<1>2. IdsInv /\ [JudgeIds]_ruleVars => IdsInv'
  <2>1. ASSUME IdsInv, JudgeIds PROVE IdsInv'
    <3>1. judged' = TRUE /\ verdict' = CheckDuplicateXmlId(input) /\ rule' = rule /\ input' = input
      BY <2>1 DEF JudgeIds, Judge
    <3> QED BY <2>1, <3>1 DEF IdsInv
  <2>2. ASSUME IdsInv, UNCHANGED ruleVars PROVE IdsInv'
    BY <2>2 DEF IdsInv, ruleVars
  <2> QED BY <2>1, <2>2
<1>3. IdsInv => PatchesCommute
  <2> SUFFICES ASSUME IdsInv, Said("ids"), verdict = {}, NEW other \in InAnyOrder(input)
               PROVE  ~Loaded(other).refused /\ Loaded(other) = Loaded(input)
    BY DEF PatchesCommute
  <2>1. input \in Seq(Declaration) /\ CheckDuplicateXmlId(input) = {}
    BY IdFilesAssumption DEF IdsInv, Said
  <2> QED BY <2>1, SilenceCommutes
<1> QED BY <1>1, <1>2, <1>3, PTL DEF IdsSpec
-----------------------------------------------------------------------------

(* The expressions of a function *)

\* Operands are expressions of a lower rank: that of the first level an expression is on.
Ranked(rank, B) ==
  /\ B \in Nat /\ rank \in [Expression -> 0..B]
  /\ \A e \in Expression : \A i \in DOMAIN e.of : e.of[i] \in Expression /\ rank[e.of[i]] < rank[e]

\* Expressions are built in finitely many layers, so each has a rank above its operands'.
LEMMA ExpressionRank ==
  \E rank, B : Ranked(rank, B)
<1> DEFINE N == Len(Levels)
           On(e) == {k \in 1..N : e \in Levels[k]}
           LevelOf(e) == CHOOSE k \in On(e) : \A j \in On(e) : k <= j
           rank == [e \in Expression |-> LevelOf(e)]
<1>1. N \in Nat /\ DOMAIN Levels = 1..N
  BY LevelsAssumption
<1>2. ASSUME NEW e \in Expression PROVE LevelOf(e) \in On(e) /\ \A j \in On(e) : LevelOf(e) <= j
  <2>1. PICK k \in DOMAIN Levels : e \in Levels[k]
    BY DEF Expression
  <2>2. On(e) # {} /\ On(e) \in SUBSET Nat
    BY <1>1, <2>1
  <2>3. \E first \in On(e) : \A j \in On(e) : first <= j
    <3> HIDE DEF On
    <3> QED BY <2>2, LeastNat
  <2> QED BY <2>3
<1>3. ASSUME NEW e \in Expression PROVE LevelOf(e) \in 1..N /\ e \in Levels[LevelOf(e)]
  <2>1. LevelOf(e) \in On(e)
    BY <1>2
  <2> HIDE DEF LevelOf
  <2> QED BY <2>1
<1>4. ASSUME NEW e \in Expression, NEW k \in 1..N, e \in Levels[k] PROVE LevelOf(e) <= k
  <2>1. k \in On(e)
    BY <1>4
  <2> HIDE DEF On, LevelOf
  <2> QED BY <1>2, <2>1
<1> HIDE DEF LevelOf, On
<1>5. ASSUME NEW e \in Expression, NEW i \in DOMAIN e.of
      PROVE  e.of[i] \in Expression /\ LevelOf(e.of[i]) < LevelOf(e)
  <2>1. LevelOf(e) \in 1..N /\ e \in Levels[LevelOf(e)]
    BY <1>3
  <2>2. e.of \in Seq(UNION {Levels[j] : j \in 1..(LevelOf(e) - 1)})
    BY <1>1, <2>1, LevelsAssumption
  <2>3. e.of[i] \in UNION {Levels[j] : j \in 1..(LevelOf(e) - 1)}
    BY <2>2
  <2>4. PICK j \in 1..(LevelOf(e) - 1) : e.of[i] \in Levels[j]
    BY <2>3
  <2>5. j \in 1..N /\ j < LevelOf(e)
    BY <1>1, <2>1
  <2>6. e.of[i] \in Expression
    BY <1>1, <2>4, <2>5 DEF Expression
  <2>7. LevelOf(e.of[i]) <= j /\ LevelOf(e.of[i]) \in 1..N
    BY <1>3, <1>4, <2>4, <2>5, <2>6
  <2> QED BY <2>1, <2>5, <2>6, <2>7
<1>6. rank \in [Expression -> 0..N]
  <2>1. \A e \in Expression : LevelOf(e) \in 0..N
    BY <1>1, <1>3
  <2> QED BY <2>1
<1>7. \A e \in Expression : \A i \in DOMAIN e.of : e.of[i] \in Expression /\ rank[e.of[i]] < rank[e]
  BY <1>5
<1> HIDE DEF rank
<1>8. Ranked(rank, N)
  BY <1>1, <1>6, <1>7 DEF Ranked
<1> QED BY <1>8

\* The operands of an expression are expressions.
LEMMA OperandsAre ==
  ASSUME NEW e \in Expression, NEW i \in DOMAIN e.of
  PROVE  e.of[i] \in Expression
  BY ExpressionRank DEF Ranked

\* The operator of an expression, and the name of a name.
LEMMA OperatorsAre ==
  ASSUME NEW e \in Expression
  PROVE  e.op \in Operators /\ (e.op = "name" => e.name \in Identifiers)
<1>1. PICK k \in DOMAIN Levels : e \in Levels[k]
  BY DEF Expression
<1> QED BY <1>1, LevelsAssumption

\* What passes from the operands to the expression is true of every expression.
LEMMA ExpressionInduction ==
  ASSUME NEW P, \A e \in Expression : (\A i \in DOMAIN e.of : e.of[i] \in P) => e \in P
  PROVE  Expression \subseteq P
<1>1. PICK rank, B : Ranked(rank, B)
  BY ExpressionRank
<1>2. rank \in [Expression -> Nat]
  BY <1>1 DEF Ranked
<1>3. ASSUME NEW e \in Expression, \A d \in Expression : rank[d] < rank[e] => d \in P PROVE e \in P
  <2>1. \A i \in DOMAIN e.of : e.of[i] \in P
    BY <1>1, <1>3 DEF Ranked
  <2> QED BY <2>1
<1> QED BY <1>2, <1>3, RankInduction

\* What a function has at all operands.
OfOperands(f, e) == UNION {f[e.of[i]] : i \in DOMAIN e.of}

\* f is what c makes of what f has at the operands.
MadeOfOperands(f, c) == \A e \in Expression : f[e] = c[<<e, OfOperands(f, e)>>]

\* Functions of expressions, from what they have at the operands.
LEMMA ExpressionRecursion ==
  ASSUME NEW T, NEW V, V = SUBSET T, NEW c \in [Expression \X V -> V]
  PROVE  \E f \in [Expression -> V] : MadeOfOperands(f, c)
<1>1. PICK rank, B : Ranked(rank, B)
  BY ExpressionRank
<1> DEFINE D == Expression
           F == [D -> V]
           Body(f, d) == c[<<d, OfOperands(f, d)>>]
           step == [x \in F \X D |-> Body(x[1], x[2])]
           start == [d \in D |-> {}]
<1>2. ASSUME NEW f \in F, NEW d \in D PROVE Body(f, d) \in V
  <2>1. \A i \in DOMAIN d.of : f[d.of[i]] \in V
    BY OperandsAre
  <2>2. OfOperands(f, d) \in V
    BY <2>1 DEF OfOperands
  <2> QED BY <2>2
<1>3. step \in [F \X D -> V] /\ \A f \in F, d \in D : step[<<f, d>>] = Body(f, d)
  <2> HIDE DEF D, F, Body
  <2> QED BY <1>2
<1>4. start \in F
  OBVIOUS
<1>5. ASSUME NEW f, NEW g, NEW d \in D, \A e \in D : rank[e] < rank[d] => f[e] = g[e]
      PROVE  Body(f, d) = Body(g, d)
  <2>1. \A i \in DOMAIN d.of : f[d.of[i]] = g[d.of[i]]
    BY <1>1, <1>5 DEF Ranked
  <2>2. OfOperands(f, d) = OfOperands(g, d)
    BY <2>1 DEF OfOperands
  <2> QED BY <2>2
<1>6. Local(step, D, V, rank)
  <2> SUFFICES ASSUME NEW f \in F, NEW g \in F, NEW d \in D, \A e \in D : rank[e] < rank[d] => f[e] = g[e]
               PROVE  step[<<f, d>>] = step[<<g, d>>]
    BY DEF Local
  <2> HIDE DEF D, F, Body, step
  <2>1. Body(f, d) = Body(g, d)
    BY <1>5
  <2> QED BY <1>3, <2>1
<1>7. PICK f \in F : \A d \in D : f[d] = step[<<f, d>>]
  <2>1. B \in Nat /\ rank \in [D -> 0..B] /\ F = [D -> V]
    BY <1>1 DEF Ranked
  <2> HIDE DEF D, step, start, F
  <2>2. \E f \in F : Solves(f, step, D)
    BY <1>3, <1>4, <1>6, <2>1, RankRecursion
  <2> QED BY <2>2 DEF Solves
<1>8. \A d \in D : f[d] = Body(f, d)
  <2> HIDE DEF D, F, Body, step
  <2> QED BY <1>3, <1>7
<1> QED BY <1>7, <1>8 DEF MadeOfOperands

\* The names in an expression.
LEMMA NamesInAre ==
  ASSUME NEW e \in Expression
  PROVE  NamesIn[e] = (IF e.op = "name" THEN {e.name} ELSE {}) \cup OfOperands(NamesIn, e)
<1> DEFINE V == SUBSET Identifiers
           own(d) == IF d.op = "name" THEN {d.name} ELSE {}
           c == [p \in Expression \X V |-> own(p[1]) \cup p[2]]
           Body(f, d) == own(d) \cup UNION {f[d.of[i]] : i \in DOMAIN d.of}
<1>1. c \in [Expression \X V -> V] /\ \A d \in Expression, s \in V : c[<<d, s>>] = own(d) \cup s
  <2>1. \A d \in Expression, s \in V : own(d) \cup s \in V
    BY OperatorsAre
  <2> HIDE DEF V, own
  <2> QED BY <2>1
<1>2. PICK f \in [Expression -> V] : MadeOfOperands(f, c)
  <2>1. V = SUBSET Identifiers
    OBVIOUS
  <2> HIDE DEF V, c
  <2> QED BY <1>1, <2>1, ExpressionRecursion
<1>3. ASSUME NEW d \in Expression PROVE f[d] = Body(f, d)
  <2>1. \A i \in DOMAIN d.of : f[d.of[i]] \in V
    BY OperandsAre
  <2>2. OfOperands(f, d) \in V
    BY <2>1 DEF OfOperands
  <2>3. f[d] = own(d) \cup OfOperands(f, d)
    <3> HIDE DEF V, c, own
    <3> QED BY <1>1, <1>2, <2>2 DEF MadeOfOperands
  <2> QED BY <2>3 DEF OfOperands
<1>4. f = [d \in Expression |-> Body(f, d)]
  <2>1. f = [d \in Expression |-> f[d]]
    OBVIOUS
  <2> HIDE DEF V, c, Body
  <2> QED BY <1>3, <2>1
<1>5. NamesIn = [d \in Expression |-> Body(NamesIn, d)]
  <2>1. NamesIn = CHOOSE g : g = [d \in Expression |-> Body(g, d)]
    BY DEF NamesIn
  <2> HIDE DEF Body
  <2> QED BY <1>4, <2>1
<1>6. NamesIn[e] = Body(NamesIn, e)
  <2> HIDE DEF Body
  <2> QED BY <1>5
<1> QED BY <1>6 DEF OfOperands

(* What an expression finds *)

Store == [Identifiers -> SUBSET Source]

AllTexts(e, store) == UNION {Texts(e.of[i], store) : i \in DOMAIN e.of}

\* What an expression finds when its operands find all.
Combined(e, all, store) ==
  CASE e.op \in {"constant", "table", "own name"} -> {"code"}
    [] e.op = "name"     -> store[e.name]
    [] e.op = "prefixed" -> {"family"}
    [] e.op = "joined"   -> IF "data" \in all THEN {"data"} ELSE all
    [] e.op \in Reshaped \cup {"literal"} -> all
    [] e.op = "data"     -> {"data"}

\* The combined text of the operands is made of sources.
LEMMA FoundIsSource ==
  ASSUME NEW e \in Expression, NEW all \in SUBSET Source, NEW store \in Store
  PROVE  Combined(e, all, store) \in SUBSET Source
<1>1. e.op \in Operators /\ (e.op = "name" => e.name \in Identifiers)
  BY OperatorsAre
<1>2. e.op = "name" => store[e.name] \in SUBSET Source
  BY <1>1 DEF Store
<1> QED BY <1>1, <1>2 DEF Combined, Source, Operators, Joined, Reshaped

\* The recursive function of the texts satisfies its own equation.
LEMMA TextsAre ==
  ASSUME NEW store \in Store, NEW e \in Expression
  PROVE  Texts(e, store) = Combined(e, AllTexts(e, store), store)
<1> DEFINE V == SUBSET Source
           c == [p \in Expression \X V |-> Combined(p[1], p[2], store)]
           Body(f, d) ==
             LET all == UNION {f[d.of[i]] : i \in DOMAIN d.of}
             IN CASE d.op \in {"constant", "table", "own name"} -> {"code"}
                  [] d.op = "name"     -> store[d.name]
                  [] d.op = "prefixed" -> {"family"}
                  [] d.op = "joined"   -> IF "data" \in all THEN {"data"} ELSE all
                  [] d.op \in Reshaped \cup {"literal"} -> all
                  [] d.op = "data"     -> {"data"}
           G == CHOOSE f : f = [d \in Expression |-> Body(f, d)]
<1>1. \A f, d : Body(f, d) = Combined(d, OfOperands(f, d), store)
  BY Zenon DEF Combined, OfOperands
<1>2. \A d : Texts(d, store) = G[d]
  BY DEF Texts, G
<1> HIDE DEF Body
<1>3. c \in [Expression \X V -> V] /\ \A d \in Expression, s \in V : c[<<d, s>>] = Combined(d, s, store)
  <2>1. \A d \in Expression, s \in V : Combined(d, s, store) \in V
    BY FoundIsSource
  <2> HIDE DEF V
  <2> QED BY <2>1
<1>4. PICK f \in [Expression -> V] : MadeOfOperands(f, c)
  <2>1. V = SUBSET Source
    OBVIOUS
  <2> HIDE DEF V, c
  <2> QED BY <1>3, <2>1, ExpressionRecursion
<1>5. ASSUME NEW d \in Expression PROVE f[d] = Body(f, d)
  <2>1. \A i \in DOMAIN d.of : f[d.of[i]] \in V
    BY OperandsAre
  <2>2. OfOperands(f, d) \in V
    BY <2>1 DEF OfOperands
  <2> HIDE DEF V, c
  <2> QED BY <1>1, <1>3, <1>4, <2>2 DEF MadeOfOperands
<1>6. f = [d \in Expression |-> Body(f, d)]
  <2>1. f = [d \in Expression |-> f[d]]
    OBVIOUS
  <2> HIDE DEF V, c
  <2> QED BY <1>5, <2>1
<1>7. G = [d \in Expression |-> Body(G, d)]
  BY <1>6
<1> HIDE DEF G
<1>8. G[e] = Body(G, e)
  BY <1>7
<1>9. OfOperands(G, e) = AllTexts(e, store)
  BY <1>2 DEF OfOperands, AllTexts
<1> QED BY <1>1, <1>2, <1>8, <1>9

\* The text of an expression comes from known sources.
LEMMA TextsAreSource ==
  ASSUME NEW store \in Store, NEW e \in Expression
  PROVE  Texts(e, store) \in SUBSET Source
<1> DEFINE P == {d \in Expression : Texts(d, store) \in SUBSET Source}
<1>1. ASSUME NEW d \in Expression, \A i \in DOMAIN d.of : d.of[i] \in P PROVE d \in P
  <2>1. AllTexts(d, store) \in SUBSET Source
    BY <1>1 DEF AllTexts
  <2>2. Texts(d, store) \in SUBSET Source
    BY <2>1, TextsAre, FoundIsSource
  <2> QED BY <2>2
<1>2. Expression \subseteq P
  <2> HIDE DEF P
  <2> QED BY <1>1, ExpressionInduction
<1> QED BY <1>2

\* The text of the expressions that have no operand.
LEMMA TextOfConstants ==
  ASSUME NEW store \in Store, NEW e \in Expression
  PROVE  /\ e.op = "prefixed" => Texts(e, store) = {"family"}
         /\ e.op \in {"constant", "table", "own name"} => Texts(e, store) = {"code"}
         /\ e.op = "name" => Texts(e, store) = store[e.name]
<1>1. Texts(e, store) = Combined(e, AllTexts(e, store), store)
  BY TextsAre
<1> QED BY <1>1 DEF Combined, Reshaped

\* The text of a literal expression is fixed by the code.
LEMMA TextOfLiterals ==
  ASSUME NEW store \in Store, NEW e \in Expression, LiteralOfTexts(e)
  PROVE  Texts(e, store) \subseteq FixedByCode
<1>1. e.op = "literal" /\ \A i \in DOMAIN e.of : FixedText(e.of[i])
  BY DEF LiteralOfTexts
<1>2. \A i \in DOMAIN e.of : Texts(e.of[i], store) \subseteq FixedByCode
  <2> SUFFICES ASSUME NEW i \in DOMAIN e.of PROVE Texts(e.of[i], store) \subseteq FixedByCode
    OBVIOUS
  <2>1. e.of[i] \in Expression /\ e.of[i].op \in {"prefixed", "constant"}
    BY <1>1, OperandsAre DEF FixedText
  <2>2. Texts(e.of[i], store) = {"family"} \/ Texts(e.of[i], store) = {"code"}
    BY <2>1, TextOfConstants
  <2> QED BY <2>2 DEF FixedByCode
<1>3. AllTexts(e, store) \subseteq FixedByCode
  BY <1>2 DEF AllTexts
<1>4. Texts(e, store) = AllTexts(e, store)
  BY <1>1, TextsAre DEF Combined, Reshaped
<1> QED BY <1>3, <1>4

\* Over names that the code fixes, without data, an expression finds what the code fixes.
LEMMA TextOfFixed ==
  ASSUME NEW store \in Store, NEW F, \A x \in F \cap Identifiers : store[x] \subseteq FixedByCode,
         \A d \in Expression : d.op = "data" => ~(NamesIn[d] \subseteq F),
         NEW e \in Expression, NamesIn[e] \subseteq F
  PROVE  Texts(e, store) \subseteq FixedByCode
<1> DEFINE P == {d \in Expression : NamesIn[d] \subseteq F => Texts(d, store) \subseteq FixedByCode}
<1>1. ASSUME NEW d \in Expression, \A i \in DOMAIN d.of : d.of[i] \in P PROVE d \in P
  <2> SUFFICES ASSUME NamesIn[d] \subseteq F PROVE Texts(d, store) \subseteq FixedByCode
    OBVIOUS
  <2>1. NamesIn[d] = (IF d.op = "name" THEN {d.name} ELSE {}) \cup OfOperands(NamesIn, d)
    BY NamesInAre
  <2>2. \A i \in DOMAIN d.of : NamesIn[d.of[i]] \subseteq F
    BY <2>1 DEF OfOperands
  <2>3. \A i \in DOMAIN d.of : Texts(d.of[i], store) \subseteq FixedByCode
    BY <1>1, <2>2
  <2>4. AllTexts(d, store) \subseteq FixedByCode
    BY <2>3 DEF AllTexts
  <2>5. d.op # "data" /\ d.op \in Operators
    BY OperatorsAre
  <2>6. d.op = "name" => store[d.name] \subseteq FixedByCode
    BY <2>1, OperatorsAre
  <2>7. Combined(d, AllTexts(d, store), store) \subseteq FixedByCode
    BY <2>4, <2>5, <2>6 DEF Combined, FixedByCode, Operators, Joined, Reshaped
  <2> QED BY <2>7, TextsAre
<1>2. Expression \subseteq P
  <2> HIDE DEF P
  <2> QED BY <1>1, ExpressionInduction
<1> QED BY <1>2

(* The stores of a function *)

Rebound(s, store)  == [store EXCEPT ![s.name] = Texts(s.expr, store)]
Extended(s, store) ==
  [store EXCEPT ![s.name] = store[s.name] \cup (IF store[s.name] \in {{}, {"family"}} THEN {} ELSE Texts(s.expr, store))]

\* A statement leaves the variables alone, binds one or extends one.
LEMMA AfterStatement ==
  ASSUME NEW s, NEW before, NEW store \in StoresAfter(s, before)
  PROVE  \/ store \in before
         \/ \E old \in before : \/ s.do \in {"let", "each"} /\ store = Rebound(s, old)
                                \/ s.do = "reshape" /\ store = Extended(s, old)
<1> DEFINE done == CASE s.do \in {"let", "each"} -> {Rebound(s, st) : st \in before}
                     [] s.do = "reshape" -> {Extended(s, st) : st \in before}
                     [] OTHER -> before
<1>1. StoresAfter(s, before) = done \cup IF s.maybe THEN before ELSE {}
  BY DEF StoresAfter, Rebound, Extended
<1>2. store \in done \/ store \in before
  <2> HIDE DEF done
  <2> QED BY <1>1
<1>3. CASE store \in before
  BY <1>3
<1>4. CASE store \in done
  <2>1. CASE s.do \in {"let", "each"}
    <3>1. done = {Rebound(s, st) : st \in before}
      BY <2>1
    <3>2. PICK old \in before : store = Rebound(s, old)
      <4> HIDE DEF done
      <4> QED BY <1>4, <3>1
    <3> QED BY <2>1, <3>2
  <2>2. CASE s.do = "reshape"
    <3>1. done = {Extended(s, st) : st \in before}
      BY <2>2
    <3> QED BY <1>4, <2>2, <3>1
  <2>3. CASE s.do \notin {"let", "each", "reshape"}
    BY <1>4, <2>3
  <2> QED BY <2>1, <2>2, <2>3
<1> QED BY <1>2, <1>3, <1>4

\* The fields of a method that dispatches.
LEMMA DispatcherTypes ==
  ASSUME NEW fn \in Dispatchers
  PROVE  /\ Len(fn.body) \in Nat /\ DOMAIN fn.body = 1..Len(fn.body) /\ fn.params \in SUBSET Identifiers
         /\ \A i \in 1..Len(fn.body) : /\ fn.body[i].expr \in Expression
                                       /\ fn.body[i].do \in Binds => fn.body[i].name \in Identifiers
         /\ \A e \in Expression : e.op = "data" => ~(NamesIn[e] \subseteq FixedNames(fn))
<1>1. fn \in Function /\ \A i \in DOMAIN fn.body : fn.body[i].do \in Binds => fn.body[i].name \in Identifiers
  BY DispatchersAssumption
<1>2. fn.body \in Seq(Statement) /\ fn.params \in SUBSET Identifiers
  BY <1>1 DEF Function
<1>3. \A i \in 1..Len(fn.body) : fn.body[i] \in Statement
  BY <1>2
<1>4. \A i \in 1..Len(fn.body) : fn.body[i].expr \in Expression
  BY <1>3 DEF Statement
<1>5. Len(fn.body) \in Nat /\ DOMAIN fn.body = 1..Len(fn.body)
  BY <1>2
<1>6. \A e \in Expression : e.op = "data" => ~(NamesIn[e] \subseteq FixedNames(fn))
  BY DispatchersAssumption
<1> QED BY <1>1, <1>2, <1>4, <1>5, <1>6

\* A statement leads from stores to stores.
LEMMA StatementKeepsStores ==
  ASSUME NEW fn \in Dispatchers, NEW i \in 1..Len(fn.body), NEW before \in SUBSET Store
  PROVE  StoresAfter(fn.body[i], before) \in SUBSET Store
<1> DEFINE s == fn.body[i]
<1> SUFFICES ASSUME NEW store \in StoresAfter(s, before) PROVE store \in Store
  OBVIOUS
<1>1. s.expr \in Expression /\ (s.do \in Binds => s.name \in Identifiers)
  BY DispatcherTypes
<1> HIDE DEF s
<1>2. CASE store \in before
  BY <1>2
<1>3. ASSUME NEW old \in before, \/ s.do \in {"let", "each"} /\ store = Rebound(s, old)
                                 \/ s.do = "reshape" /\ store = Extended(s, old)
      PROVE  store \in Store
  <2>1. old \in Store /\ s.name \in Identifiers
    BY <1>1, <1>3 DEF Binds
  <2>2. Texts(s.expr, old) \in SUBSET Source
    BY <1>1, <2>1, TextsAreSource
  <2>3. old \in [Identifiers -> SUBSET Source] /\ old[s.name] \in SUBSET Source
    BY <2>1 DEF Store
  <2>4. Rebound(s, old) \in [Identifiers -> SUBSET Source]
    BY <2>2, <2>3 DEF Rebound
  <2>5. old[s.name] \cup (IF old[s.name] \in {{}, {"family"}} THEN {} ELSE Texts(s.expr, old)) \in SUBSET Source
    BY <2>2, <2>3
  <2>6. Extended(s, old) \in [Identifiers -> SUBSET Source]
    BY <2>3, <2>5 DEF Extended
  <2> QED BY <1>3, <2>4, <2>6 DEF Store
<1> QED BY <1>2, <1>3, AfterStatement

StartStore(fn) == [x \in Identifiers |-> IF x \in fn.params THEN {"client"} ELSE {}]

\* The stores after each statement.
LEMMA StoresAre ==
  ASSUME NEW fn \in Dispatchers
  PROVE  /\ Stores(fn, 0) = {StartStore(fn)}
         /\ \A k \in 1..Len(fn.body) : Stores(fn, k) = StoresAfter(fn.body[k], Stores(fn, k - 1))
         /\ \A k \in 0..Len(fn.body) : Stores(fn, k) \in SUBSET Store
<1> DEFINE N == Len(fn.body)
           T == SUBSET Store
           first == [x \in Identifiers |-> IF x \in fn.params THEN {"client"} ELSE {}]
           Body(f, k) == IF k = 0 THEN {first} ELSE StoresAfter(fn.body[k], f[k - 1])
           step == [p \in T \X (1..N) |-> StoresAfter(fn.body[p[2]], p[1])]
           G == CHOOSE f : f = [k \in 0..N |-> Body(f, k)]
<1>1. N \in Nat
  BY DispatcherTypes
<1>2. \A r \in T, k \in 1..N : StoresAfter(fn.body[k], r) \in T
  BY StatementKeepsStores
<1>3. step \in [T \X (1..N) -> T] /\ \A r \in T, k \in 1..N : step[<<r, k>>] = StoresAfter(fn.body[k], r)
  <2> HIDE DEF N, T
  <2> QED BY <1>2
<1>4. {first} \in T /\ first = StartStore(fn)
  <2>1. first \in [Identifiers -> SUBSET Source]
    BY DEF Source
  <2> HIDE DEF first
  <2>2. first \in Store
    BY <2>1 DEF Store
  <2> QED BY <2>2 DEF StartStore, first
<1> HIDE DEF first
<1>5. PICK f \in [0..N -> T] : Recursive(f, 0..N, {first}, step)
  <2> HIDE DEF step, N, T
  <2> QED BY <1>1, <1>3, <1>4, IntervalRecursion
<1>6. ASSUME NEW k \in 0..N PROVE f[k] = Body(f, k)
  <2>1. CASE k = 0
    <3> HIDE DEF step
    <3> QED BY <1>5, <2>1 DEF Recursive
  <2>2. CASE k # 0
    <3>1. k \in 1..N /\ k - 1 \in 0..N
      BY <1>1, <2>2
    <3> HIDE DEF step, T, N
    <3>2. f[k - 1] \in T
      BY <1>5, <3>1
    <3>3. f[k] = step[<<f[k - 1], k>>]
      BY <1>5, <2>2 DEF Recursive
    <3>4. f[k] = StoresAfter(fn.body[k], f[k - 1])
      BY <1>3, <3>1, <3>2, <3>3
    <3> QED BY <2>2, <3>4
  <2> QED BY <2>1, <2>2
<1>7. f = [k \in 0..N |-> Body(f, k)]
  <2> HIDE DEF step, Body, N, T
  <2>1. f = [k \in 0..N |-> f[k]]
    BY <1>5
  <2> QED BY <1>6, <2>1
<1>8. G = [k \in 0..N |-> Body(G, k)]
  <2> HIDE DEF Body, N
  <2> QED BY <1>7
<1>9. \A k : Stores(fn, k) = G[k]
  BY DEF Stores, G, first
<1> HIDE DEF G
<1>10. \A k \in 0..N : G[k] = Body(G, k)
  <2> HIDE DEF Body, N
  <2> QED BY <1>8
<1> DEFINE P == {k \in 0..N : G[k] \in T}
<1>11. 0 \in P
  <2>1. Body(G, 0) = {first} /\ 0 \in 0..N
    BY <1>1
  <2> HIDE DEF T, Body, N
  <2> QED BY <1>4, <1>10, <2>1
<1>12. ASSUME NEW k \in 1..N, k - 1 \in P PROVE k \in P
  <2>1. k \in 0..N /\ G[k] = StoresAfter(fn.body[k], G[k - 1])
    BY <1>1, <1>10
  <2> HIDE DEF T
  <2> QED BY <1>2, <1>12, <2>1
<1>13. 0..N \subseteq P
  <2> HIDE DEF P, N
  <2> QED BY <1>1, <1>11, <1>12, IntervalInduction
<1>14. \A k \in 0..N : Stores(fn, k) \in SUBSET Store
  BY <1>9, <1>13
<1>15. Stores(fn, 0) = {StartStore(fn)}
  BY <1>1, <1>4, <1>9, <1>10
<1>16. \A k \in 1..N : Stores(fn, k) = StoresAfter(fn.body[k], Stores(fn, k - 1))
  <2> HIDE DEF Body
  <2>1. \A k \in 1..N : k \in 0..N /\ k # 0
    BY <1>1
  <2>2. \A k \in 1..N : G[k] = Body(G, k)
    BY <1>10, <2>1
  <2>3. \A k \in 1..N : Body(G, k) = StoresAfter(fn.body[k], G[k - 1])
    BY <2>1 DEF Body
  <2> QED BY <1>9, <2>2, <2>3
<1> QED BY <1>14, <1>15, <1>16

\* Identifiers that only hold a literal of fixed texts, or the value of another such name.
Literals(fn, A) ==
  \A x \in A : /\ x \in Identifiers \ ReshapedNames(fn) /\ AssignedOnce(fn, x)
               /\ \A v \in ValuesOf(fn, x) : LiteralOfTexts(v) \/ (v.op = "name" /\ v.name \in A)

\* The names counted as literal belong to a set that justifies itself.
LEMMA LiteralNamesAre ==
  ASSUME NEW fn \in Dispatchers
  PROVE  \E A : LiteralNames(fn) \subseteq A /\ Literals(fn, A)
<1> DEFINE N == Len(fn.body)
           T == SUBSET Identifiers
           E(r) == {x \in Identifiers \ ReshapedNames(fn) :
                     AssignedOnce(fn, x) /\ \A v \in ValuesOf(fn, x) : LiteralOfTexts(v) \/ (v.op = "name" /\ v.name \in r)}
           Body(f, k) == IF k = 0 THEN {} ELSE {x \in Identifiers \ ReshapedNames(fn) :
                     AssignedOnce(fn, x) /\ \A v \in ValuesOf(fn, x) : LiteralOfTexts(v) \/ (v.op = "name" /\ v.name \in f[k - 1])}
           step == [p \in T \X (1..N) |-> E(p[1])]
           G == CHOOSE f : f = [k \in 0..N |-> Body(f, k)]
<1>1. N \in Nat
  BY DispatcherTypes
<1>2. step \in [T \X (1..N) -> T] /\ \A r \in T, k \in 1..N : step[<<r, k>>] = E(r)
  <2>1. \A r : E(r) \in T
    OBVIOUS
  <2> HIDE DEF N, T, E
  <2> QED BY <2>1
<1>3. \A f, k : k # 0 => Body(f, k) = E(f[k - 1])
  OBVIOUS
<1>4. \A f : Body(f, 0) = {}
  OBVIOUS
<1>5. LiteralNames(fn) = G[N]
  BY DEF LiteralNames, G
<1> HIDE DEF Body, E
<1>6. PICK f \in [0..N -> T] : Recursive(f, 0..N, {}, step)
  <2>1. {} \in T
    OBVIOUS
  <2> HIDE DEF step, N, T
  <2> QED BY <1>1, <1>2, <2>1, IntervalRecursion
<1>7. ASSUME NEW k \in 0..N PROVE f[k] = Body(f, k)
  <2>1. CASE k = 0
    <3> HIDE DEF step
    <3> QED BY <1>4, <1>6, <2>1 DEF Recursive
  <2>2. CASE k # 0
    <3>1. k \in 1..N /\ k - 1 \in 0..N
      BY <1>1, <2>2
    <3> HIDE DEF step, T, N
    <3>2. f[k - 1] \in T
      BY <1>6, <3>1
    <3>3. f[k] = step[<<f[k - 1], k>>]
      BY <1>6, <2>2 DEF Recursive
    <3> QED BY <1>2, <1>3, <2>2, <3>1, <3>2, <3>3
  <2> QED BY <2>1, <2>2
<1>8. f = [k \in 0..N |-> Body(f, k)]
  <2> HIDE DEF step, N, T
  <2>1. f = [k \in 0..N |-> f[k]]
    BY <1>6
  <2> QED BY <1>7, <2>1
<1>9. G = [k \in 0..N |-> Body(G, k)]
  <2> HIDE DEF N
  <2> QED BY <1>8
<1> HIDE DEF G
<1>10. \A k \in 0..N : G[k] = Body(G, k)
  <2> HIDE DEF N
  <2> QED BY <1>9
<1> DEFINE A == UNION {G[k] : k \in 0..N}
<1>11. LiteralNames(fn) \subseteq A
  <2>1. N \in 0..N
    BY <1>1
  <2> HIDE DEF N
  <2> QED BY <1>5, <2>1
<1>12. ASSUME NEW x \in A
       PROVE  /\ x \in Identifiers \ ReshapedNames(fn) /\ AssignedOnce(fn, x)
              /\ \A v \in ValuesOf(fn, x) : LiteralOfTexts(v) \/ (v.op = "name" /\ v.name \in A)
  <2>1. PICK k \in 0..N : x \in G[k]
    OBVIOUS
  <2>2. k # 0
    BY <1>4, <1>10, <2>1
  <2>3. k - 1 \in 0..N
    BY <1>1, <2>2
  <2>4. x \in E(G[k - 1])
    <3> HIDE DEF A
    <3> QED BY <1>3, <1>10, <2>1, <2>2
  <2>5. G[k - 1] \subseteq A
    BY <2>3
  <2> HIDE DEF A
  <2> QED BY <2>4, <2>5 DEF E
<1>13. Literals(fn, A)
  <2> HIDE DEF A
  <2> QED BY <1>12 DEF Literals
<1> QED BY <1>11, <1>13

(* What the code fixes *)

\* The statements of some kinds, by their places.
LEMMA StatementsAre ==
  ASSUME NEW fn, NEW kinds
  PROVE  Statements(fn, kinds) = {fn.body[i] : i \in {k \in DOMAIN fn.body : fn.body[k].do \in kinds}}
  BY DEF Statements, ToSet

\* The right-hand side of an assignment is a value of the name it binds.
LEMMA LetValue ==
  ASSUME NEW fn, NEW i \in DOMAIN fn.body, fn.body[i].do = "let"
  PROVE  fn.body[i].expr \in ValuesOf(fn, fn.body[i].name)
<1>1. fn.body[i] \in Statements(fn, {"let"})
  BY StatementsAre
<1> QED BY <1>1 DEF ValuesOf

\* A name that has a value is bound by an assignment.
LEMMA ValueIsLet ==
  ASSUME NEW fn, NEW x, ValuesOf(fn, x) # {}
  PROVE  \E i \in DOMAIN fn.body : fn.body[i].do = "let" /\ fn.body[i].name = x
<1>1. PICK s \in Statements(fn, {"let"}) : s.name = x
  BY DEF ValuesOf
<1>2. PICK i \in DOMAIN fn.body : fn.body[i].do \in {"let"} /\ s = fn.body[i]
  BY StatementsAre
<1> QED BY <1>1, <1>2

\* Why a name is taken for fixed: its own assignments, or a loop over literals.
LEMMA FixedNameIs ==
  ASSUME NEW fn, NEW x \in FixedNames(fn)
  PROVE  /\ x \notin ReshapedNames(fn)
         /\ \/ /\ \E i \in DOMAIN fn.body : fn.body[i].do = "let" /\ fn.body[i].name = x
               /\ \A v \in ValuesOf(fn, x) : OwnName(fn, v)
            \/ \E i \in DOMAIN fn.body : /\ fn.body[i].do = "each" /\ fn.body[i].name = x
                                         /\ LiteralTexts(fn, fn.body[i].expr)
<1> DEFINE assigned == {s.name : s \in Statements(fn, {"let"})}
           own == {y \in assigned : \A v \in ValuesOf(fn, y) : OwnName(fn, v)}
           items == {s.name : s \in {t \in Statements(fn, {"each"}) : t.name \notin assigned /\ LiteralTexts(fn, t.expr)}}
<1>1. x \in (own \cup items) \ ReshapedNames(fn)
  BY DEF FixedNames
<1>2. CASE x \in own
  <2>1. PICK s \in Statements(fn, {"let"}) : s.name = x
    BY <1>2
  <2>2. PICK i \in DOMAIN fn.body : fn.body[i].do \in {"let"} /\ s = fn.body[i]
    BY StatementsAre
  <2>3. \A v \in ValuesOf(fn, x) : OwnName(fn, v)
    BY <1>2
  <2> HIDE DEF own, items, assigned
  <2> QED BY <1>1, <2>1, <2>2, <2>3
<1>3. CASE x \in items
  <2>1. PICK s \in Statements(fn, {"each"}) : s.name = x /\ LiteralTexts(fn, s.expr)
    BY <1>3
  <2>2. PICK i \in DOMAIN fn.body : fn.body[i].do \in {"each"} /\ s = fn.body[i]
    BY StatementsAre
  <2> HIDE DEF own, items, assigned
  <2> QED BY <1>1, <2>1, <2>2
<1> HIDE DEF own, items
<1> QED BY <1>1, <1>2, <1>3

\* A name that is assigned once is assigned.
LEMMA OnceIsLet ==
  ASSUME NEW fn, NEW x, AssignedOnce(fn, x)
  PROVE  \E i \in DOMAIN fn.body : fn.body[i].do = "let" /\ fn.body[i].name = x
<1> DEFINE places == {i \in DOMAIN fn.body : fn.body[i].do = "let" /\ fn.body[i].name = x}
<1>1. Cardinality(places) = 1
  BY DEF AssignedOnce
<1>2. places # {}
  <2> HIDE DEF places
  <2> QED BY <1>1, FS_EmptySet
<1> QED BY <1>2

Prefixed(fn, x) == ValuesOf(fn, x) # {} /\ \A v \in ValuesOf(fn, x) : v.op = "prefixed"

\* What a store holds of the names in A and those that the code fixes.
Settled(fn, A, store) ==
  /\ store \in Store
  /\ \A x \in A \cup (FixedNames(fn) \cap Identifiers) : store[x] \subseteq FixedByCode
  /\ \A x \in Identifiers : Prefixed(fn, x) => store[x] \in {{}, {"family"}}

\* Where a name is bound in one way only, the names that matter are bound by an assignment or by
\* one loop.
LEMMA NameIsBound ==
  ASSUME NEW fn \in Dispatchers, NEW A, Literals(fn, A), NEW x \in Identifiers,
         x \in A \cup FixedNames(fn) \/ Prefixed(fn, x)
  PROVE  \E i \in DOMAIN fn.body : fn.body[i].do \in {"let", "each"} /\ fn.body[i].name = x
<1>1. CASE x \in A
  BY <1>1, OnceIsLet DEF Literals
<1>2. CASE x \in FixedNames(fn)
  BY <1>2, FixedNameIs
<1>3. CASE Prefixed(fn, x)
  BY <1>3, ValueIsLet DEF Prefixed
<1> QED BY <1>1, <1>2, <1>3

\* Before the first statement every name taken for fixed is settled.
LEMMA SettledAtFirst ==
  ASSUME NEW fn \in Dispatchers, BoundOneWay(fn), NEW A, Literals(fn, A)
  PROVE  Settled(fn, A, StartStore(fn))
<1>1. \A x \in Identifiers : x \in A \cup FixedNames(fn) \/ Prefixed(fn, x) => x \notin fn.params
  BY NameIsBound DEF BoundOneWay
<1>2. \A x \in Identifiers : x \notin fn.params => StartStore(fn)[x] = {}
  BY DEF StartStore
<1>3. StartStore(fn) \in Store
  BY DEF StartStore, Store, Source
<1>4. A \subseteq Identifiers
  BY DEF Literals
<1> QED BY <1>1, <1>2, <1>3, <1>4 DEF Settled

\* What a statement binds to a name.
LEMMA BoundIs ==
  ASSUME NEW fn \in Dispatchers, BoundOneWay(fn), NEW A, Literals(fn, A), LiteralNames(fn) \subseteq A,
         NEW i \in DOMAIN fn.body, fn.body[i].do \in {"let", "each"}, NEW old, Settled(fn, A, old)
  PROVE  /\ fn.body[i].name \in A \cup FixedNames(fn) => Texts(fn.body[i].expr, old) \subseteq FixedByCode
         /\ Prefixed(fn, fn.body[i].name) => Texts(fn.body[i].expr, old) = {"family"}
<1> DEFINE s == fn.body[i]
           x == s.name
           e == s.expr
<1>1. e \in Expression /\ x \in Identifiers /\ old \in Store
  BY DispatcherTypes DEF Settled, Binds
<1>2. \A v \in Expression : LiteralOfTexts(v) \/ (v.op = "name" /\ v.name \in A) => Texts(v, old) \subseteq FixedByCode
  <2> SUFFICES ASSUME NEW v \in Expression, LiteralOfTexts(v) \/ (v.op = "name" /\ v.name \in A)
               PROVE  Texts(v, old) \subseteq FixedByCode
    OBVIOUS
  <2>1. CASE LiteralOfTexts(v)
    BY <1>1, <2>1, TextOfLiterals
  <2>2. CASE v.op = "name" /\ v.name \in A
    <3>1. Texts(v, old) = old[v.name]
      BY <1>1, <2>2, TextOfConstants
    <3> QED BY <2>2, <3>1 DEF Settled
  <2> QED BY <2>1, <2>2
<1>3. \A v \in Expression : OwnName(fn, v) => Texts(v, old) \subseteq FixedByCode
  BY <1>1, TextOfConstants DEF OwnName, FixedByCode
<1>4. \A j \in DOMAIN fn.body : j # i /\ fn.body[j].do \in {"let", "each"} /\ fn.body[j].name = x
        => s.do = "let" /\ fn.body[j].do = "let"
  BY DEF BoundOneWay
<1>5. CASE s.do = "let"
  <2>1. e \in ValuesOf(fn, x)
    BY <1>5, LetValue
  <2>2. ASSUME x \in A PROVE Texts(e, old) \subseteq FixedByCode
    BY <1>1, <1>2, <2>1, <2>2 DEF Literals
  <2>3. ASSUME x \in FixedNames(fn) PROVE Texts(e, old) \subseteq FixedByCode
    <3>1. ASSUME NEW j \in DOMAIN fn.body, fn.body[j].do = "each", fn.body[j].name = x PROVE FALSE
      BY <1>4, <1>5, <3>1
    <3>2. OwnName(fn, e)
      BY <2>1, <2>3, <3>1, FixedNameIs
    <3> QED BY <1>1, <1>3, <3>2
  <2>4. ASSUME Prefixed(fn, x) PROVE Texts(e, old) = {"family"}
    BY <1>1, <2>1, <2>4, TextOfConstants DEF Prefixed
  <2> QED BY <2>2, <2>3, <2>4
<1>6. CASE s.do = "each"
  <2>1. ASSUME NEW j \in DOMAIN fn.body, fn.body[j].do \in {"let", "each"}, fn.body[j].name = x PROVE j = i
    BY <1>4, <1>6, <2>1
  <2>2. ~ \E j \in DOMAIN fn.body : fn.body[j].do = "let" /\ fn.body[j].name = x
    BY <1>6, <2>1
  <2>3. x \notin A /\ ~Prefixed(fn, x)
    BY <2>2, OnceIsLet, ValueIsLet DEF Literals, Prefixed
  <2>4. ASSUME x \in FixedNames(fn) PROVE Texts(e, old) \subseteq FixedByCode
    <3>1. PICK j \in DOMAIN fn.body : /\ fn.body[j].do = "each" /\ fn.body[j].name = x
                                      /\ LiteralTexts(fn, fn.body[j].expr)
      BY <2>2, <2>4, FixedNameIs
    <3>2. LiteralTexts(fn, e)
      BY <2>1, <3>1
    <3> QED BY <1>1, <1>2, <3>2 DEF LiteralTexts
  <2> QED BY <2>3, <2>4
<1> QED BY <1>5, <1>6

\* A statement keeps the names taken for fixed settled.
LEMMA SettledAfter ==
  ASSUME NEW fn \in Dispatchers, BoundOneWay(fn), NEW A, Literals(fn, A), LiteralNames(fn) \subseteq A,
         NEW i \in 1..Len(fn.body), NEW before \in SUBSET Store, \A old \in before : Settled(fn, A, old),
         NEW store \in StoresAfter(fn.body[i], before)
  PROVE  Settled(fn, A, store)
<1> DEFINE s == fn.body[i]
<1>1. i \in DOMAIN fn.body /\ (s.do \in Binds => s.name \in Identifiers)
  BY DispatcherTypes
<1>2. store \in Store
  BY StatementKeepsStores
<1>3. A \subseteq Identifiers
  BY DEF Literals
<1>4. ASSUME NEW old \in before, s.do \in {"let", "each"}, store = Rebound(s, old) PROVE Settled(fn, A, store)
  <2>1. /\ s.name \in A \cup FixedNames(fn) => Texts(s.expr, old) \subseteq FixedByCode
        /\ Prefixed(fn, s.name) => Texts(s.expr, old) = {"family"}
    BY <1>1, <1>4, BoundIs
  <2>2. \A x \in Identifiers : store[x] = IF x = s.name THEN Texts(s.expr, old) ELSE old[x]
    BY <1>4 DEF Rebound, Store
  <2> HIDE DEF s
  <2>3. Settled(fn, A, old)
    BY <1>4
  <2> QED BY <1>2, <1>3, <2>1, <2>2, <2>3 DEF Settled
<1>5. ASSUME NEW old \in before, s.do = "reshape", store = Extended(s, old) PROVE Settled(fn, A, store)
  <2>1. s.name \in ReshapedNames(fn)
    <3>1. s \in Statements(fn, {"reshape"})
      BY <1>1, <1>5, StatementsAre
    <3> QED BY <3>1 DEF ReshapedNames
  <2>2. s.name \notin A \cup FixedNames(fn)
    BY <2>1, FixedNameIs DEF Literals
  <2>3. \A x \in Identifiers : x # s.name => store[x] = old[x]
    BY <1>5 DEF Extended, Store
  <2>4. s.name \in Identifiers /\ (old[s.name] \in {{}, {"family"}} => store[s.name] = old[s.name])
    BY <1>1, <1>5 DEF Extended, Store, Binds
  <2> HIDE DEF s
  <2>5. Settled(fn, A, old)
    BY <1>5
  <2> QED BY <1>2, <1>3, <2>2, <2>3, <2>4, <2>5 DEF Settled
<1>6. CASE store \in before
  BY <1>6
<1> HIDE DEF s
<1>7. \/ store \in before
      \/ \E old \in before : \/ s.do \in {"let", "each"} /\ store = Rebound(s, old)
                             \/ s.do = "reshape" /\ store = Extended(s, old)
  BY AfterStatement DEF s
<1> QED BY <1>4, <1>5, <1>6, <1>7

\* So they are settled before every statement.
LEMMA StoresSettled ==
  ASSUME NEW fn \in Dispatchers, BoundOneWay(fn), NEW A, Literals(fn, A), LiteralNames(fn) \subseteq A,
         NEW n \in 0..Len(fn.body), NEW store \in Stores(fn, n)
  PROVE  Settled(fn, A, store)
<1> DEFINE P == {k \in 0..Len(fn.body) : \A st \in Stores(fn, k) : Settled(fn, A, st)}
<1>1. Len(fn.body) \in Nat
  BY DispatcherTypes
<1>2. 0 \in P
  BY <1>1, SettledAtFirst, StoresAre
<1>3. ASSUME NEW k \in 1..Len(fn.body), k - 1 \in P PROVE k \in P
  <2>1. Stores(fn, k) = StoresAfter(fn.body[k], Stores(fn, k - 1)) /\ k - 1 \in 0..Len(fn.body) /\ k \in 0..Len(fn.body)
    BY <1>1, StoresAre
  <2>2. Stores(fn, k - 1) \in SUBSET Store /\ \A st \in Stores(fn, k - 1) : Settled(fn, A, st)
    BY <1>3, <2>1, StoresAre
  <2>3. \A st \in Stores(fn, k) : Settled(fn, A, st)
    BY <2>1, <2>2, SettledAfter
  <2> QED BY <2>1, <2>3
<1>4. 0..Len(fn.body) \subseteq P
  <2> HIDE DEF P
  <2> QED BY <1>1, <1>2, <1>3, IntervalInduction
<1> QED BY <1>4

\* The expression of a silent call.
LEMMA SilentIs ==
  ASSUME NEW fn, NEW n \in Silent(fn, CheckDispatch(fn))
  PROVE  LET e == fn.body[n].expr
         IN \/ FixedText(e) \/ e.op = "table" \/ Confined(fn, e)
            \/ NamesIn[e] # {} /\ NamesIn[e] \subseteq FixedNames(fn)
            \/ e.op = "name" /\ e.name \notin NamesIn[e]
<1> DEFINE e == fn.body[n].expr
           reported == {s.expr : s \in {t \in Statements(fn, {"dispatch"}) :
                     /\ ~FixedText(t.expr) /\ t.expr.op # "table" /\ ~Confined(fn, t.expr)
                     /\ NamesIn[t.expr] \cap Guarded(fn) = {}
                     /\ ~(t.expr.op = "name" /\ t.expr.name \in fn.hooks)
                     /\ ~(NamesIn[t.expr] # {} /\ NamesIn[t.expr] \subseteq FixedNames(fn))}}
           said(x) == [expr |-> x, confidence |-> IF fn.public /\ ClientValue(x, TaintedNames(fn), fn.consts) THEN "high" ELSE "medium"]
<1>1. CheckDispatch(fn) = {said(x) : x \in reported}
  BY DEF CheckDispatch
<1>2. n \in DOMAIN fn.body /\ fn.body[n].do = "dispatch" /\ e \notin {r.expr : r \in CheckDispatch(fn)}
      /\ NamesIn[e] \cap (Guarded(fn) \cup fn.hooks) = {}
  BY DEF Silent
<1>3. e \notin reported
  <2> HIDE DEF reported, e
  <2>1. \A x : said(x).expr = x
    OBVIOUS
  <2> HIDE DEF said
  <2> QED BY <1>1, <1>2, <2>1
<1>4. fn.body[n] \in Statements(fn, {"dispatch"})
  BY <1>2, StatementsAre
<1> QED BY <1>2, <1>3, <1>4

\* A dispatch the rule is silent about calls a name the code fixes.
LEMMA SilentIsFixed ==
  ASSUME NEW fn \in Dispatchers, BoundOneWay(fn), NEW n \in Silent(fn, CheckDispatch(fn))
  PROVE  DispatchedTexts(fn, n) \subseteq FixedByCode
<1> DEFINE e == fn.body[n].expr
<1>1. PICK A : LiteralNames(fn) \subseteq A /\ Literals(fn, A)
  BY LiteralNamesAre
<1>2. n \in 1..Len(fn.body) /\ n - 1 \in 0..Len(fn.body) /\ e \in Expression
  <2>1. n \in DOMAIN fn.body
    BY DEF Silent
  <2> QED BY <2>1, DispatcherTypes
<1> SUFFICES ASSUME NEW store \in Stores(fn, n - 1) PROVE Texts(e, store) \subseteq FixedByCode
  BY DEF DispatchedTexts
<1>3. Settled(fn, A, store)
  BY <1>1, <1>2, StoresSettled
<1>4. store \in Store
  BY <1>3 DEF Settled
<1>5. CASE FixedText(e) \/ e.op = "table"
  <2>1. Texts(e, store) = {"family"} \/ Texts(e, store) = {"code"}
    BY <1>2, <1>4, <1>5, TextOfConstants DEF FixedText
  <2> HIDE DEF e
  <2> QED BY <2>1 DEF FixedByCode
<1>6. CASE Confined(fn, e)
  <2>1. e.op = "name" /\ Prefixed(fn, e.name) /\ e.name \in Identifiers
    BY <1>2, <1>6, OperatorsAre DEF Confined, Prefixed
  <2>2. store[e.name] \in {{}, {"family"}}
    BY <1>3, <2>1 DEF Settled
  <2>3. Texts(e, store) = store[e.name]
    BY <1>2, <1>4, <2>1, TextOfConstants
  <2> HIDE DEF e
  <2> QED BY <2>2, <2>3 DEF FixedByCode
<1>7. CASE NamesIn[e] \subseteq FixedNames(fn)
  <2>1. \A x \in FixedNames(fn) \cap Identifiers : store[x] \subseteq FixedByCode
    BY <1>3 DEF Settled
  <2>2. \A d \in Expression : d.op = "data" => ~(NamesIn[d] \subseteq FixedNames(fn))
    BY DispatcherTypes
  <2> QED BY <1>2, <1>4, <1>7, <2>1, <2>2, TextOfFixed
<1>8. e.op = "name" => e.name \in NamesIn[e]
  BY <1>2, NamesInAre
<1> QED BY <1>5, <1>6, <1>7, <1>8, SilentIs

DispatchInv == rule = "dispatch" /\ input \in Dispatchers /\ (judged => verdict = CheckDispatch(input))

\* What dynamic-method-dispatch says nothing about only finds methods that the code names, or a family
\* of them, in whatever function, where parameters keep their values and names are bound in one way.
THEOREM SilentCallsAreFixed == DispatchSpec => []SilenceIsFixed
<1>1. Unjudged /\ rule = "dispatch" /\ input \in Dispatchers => DispatchInv
  BY DEF Unjudged, DispatchInv
<1>2. DispatchInv /\ [JudgeDispatch]_ruleVars => DispatchInv'
  <2>1. ASSUME DispatchInv, JudgeDispatch PROVE DispatchInv'
    <3>1. judged' = TRUE /\ verdict' = CheckDispatch(input) /\ rule' = rule /\ input' = input
      BY <2>1 DEF JudgeDispatch, Judge
    <3> QED BY <2>1, <3>1 DEF DispatchInv
  <2>2. ASSUME DispatchInv, UNCHANGED ruleVars PROVE DispatchInv'
    BY <2>2 DEF DispatchInv, ruleVars
  <2> QED BY <2>1, <2>2
<1>3. DispatchInv => SilenceIsFixed
  BY SilentIsFixed DEF DispatchInv, SilenceIsFixed, Said
<1> QED BY <1>1, <1>2, <1>3, PTL DEF DispatchSpec
-----------------------------------------------------------------------------
(* The project graph: what the rules that compare an addon with it may be certain of. *)

\* A class that defines the model it names.
Definer(c) == c.name \notin {"", "?"} /\ c.name \notin ToSet(c.inherit)

\* A model's entry starts as that of its first class that defines it, else of its first class.
LEMMA LeadingIs ==
  ASSUME NEW declared, DOMAIN declared \in SUBSET Nat, DOMAIN declared # {}
  PROVE  \E i \in DOMAIN declared :
           /\ Leading(declared) = declared[i]
           /\ (\E k \in DOMAIN declared : declared[k].defines) => declared[i].defines
<1> DEFINE definers == {i \in DOMAIN declared : declared[i].defines}
           leaders == IF definers # {} THEN definers ELSE DOMAIN declared
<1>1. leaders \in SUBSET Nat /\ leaders # {}
  OBVIOUS
<1>2. Min(leaders) \in leaders
  BY <1>1, MinIsFirst
<1>3. Leading(declared) = declared[Min(leaders)]
  BY DEF Leading
<1> QED BY <1>2, <1>3

\* The classes of an addon that are of a model.
Of(addon, key) == {k \in DOMAIN addon.classes : ModelKey(addon.classes[k]) = key}

EntryFields == {"name", "inherit", "inherits", "unresolved", "members", "base", "module", "defines"}

\* The fields that merging leaves alone.
LEMMA MergedEntry ==
  ASSUME NEW r, DOMAIN r = EntryFields, NEW a, NEW b, NEW c, NEW d, NEW e
  PROVE  LET s == [r EXCEPT !.inherit = a, !.inherits = b, !.unresolved = c, !.members = d, !.defines = e]
         IN /\ DOMAIN s = EntryFields /\ s.name = r.name /\ s.base = r.base /\ s.module = r.module /\ s.defines = e
            /\ s.inherit = a /\ s.inherits = b /\ s.unresolved = c /\ s.members = d
BY DEF EntryFields

\* What the entries of a model make together.
LEMMA MergedIs ==
  ASSUME NEW declared, DOMAIN Leading(declared) = EntryFields
  PROVE  LET one  == MergeDeclarations(declared)
             lead == Leading(declared)
         IN /\ DOMAIN one = EntryFields /\ one.name = lead.name /\ one.base = lead.base /\ one.module = lead.module
            /\ one.defines = \E k \in DOMAIN declared : declared[k].defines
            /\ one.inherit = UNION {declared[k].inherit : k \in DOMAIN declared}
            /\ one.inherits = UNION {declared[k].inherits : k \in DOMAIN declared}
            /\ one.unresolved = \E k \in DOMAIN declared : declared[k].unresolved
            /\ one.members = [kind \in Kinds |-> UNION {declared[k].members[kind] : k \in DOMAIN declared}]
BY MergedEntry DEF MergeDeclarations

\* What an entry takes from a class.
TakenFrom(e, c, module) ==
  /\ DOMAIN e = EntryFields
  /\ e.name = (IF c.name = "?" THEN "" ELSE c.name) /\ e.base = c.base /\ e.module = module

\* What extract_models takes from a class.
LEMMA ExtractIs ==
  ASSUME NEW c, NEW module
  PROVE  TakenFrom(ExtractModel(c, module), c, module)
BY DEF ExtractModel, EntryFields, TakenFrom

\* The entry of a model in an addon is made of the class at place i.
MadeOf(addon, key, i) ==
  LET c == addon.classes[i]
      e == AddonModels(addon)[key]
  IN /\ TakenFrom(e, c, addon.name)
     /\ e.defines <=> \E k \in Of(addon, key) : Definer(addon.classes[k])
     /\ (\E k \in Of(addon, key) : Definer(addon.classes[k])) => Definer(c)

\* The entry of a model is that of one of its classes: of one that defines it, if there is one.
LEMMA EntryIs ==
  ASSUME NEW addon, addon.classes \in Seq(ModelClass), NEW key \in DOMAIN AddonModels(addon)
  PROVE  \E i \in Of(addon, key) : MadeOf(addon, key, i)
<1> DEFINE D == Declared(addon, key)
           e == AddonModels(addon)[key]
<1>1. key \in {ModelKey(addon.classes[i]) : i \in DOMAIN addon.classes} /\ e = MergeDeclarations(D)
  BY DEF AddonModels
<1>2. DOMAIN addon.classes \in SUBSET Nat
  OBVIOUS
<1>3. DOMAIN D = Of(addon, key) /\ Of(addon, key) # {} /\ Of(addon, key) \in SUBSET Nat
  BY <1>1, <1>2 DEF Declared, Of
<1>4. \A i \in Of(addon, key) : D[i] = ExtractModel(addon.classes[i], addon.name)
  BY DEF Declared, Of
<1>5. \A c : ExtractModel(c, addon.name).defines <=> Definer(c)
  BY DEF ExtractModel, Definer
<1>6. PICK i \in Of(addon, key) :
        Leading(D) = D[i] /\ ((\E k \in Of(addon, key) : D[k].defines) => D[i].defines)
  BY <1>3, LeadingIs
<1> DEFINE c == addon.classes[i]
<1>7. Leading(D) = ExtractModel(c, addon.name)
  BY <1>4, <1>6
<1>8. TakenFrom(Leading(D), c, addon.name)
  BY <1>7, ExtractIs
<1>9. /\ DOMAIN MergeDeclarations(D) = EntryFields
      /\ MergeDeclarations(D).name = Leading(D).name /\ MergeDeclarations(D).base = Leading(D).base
      /\ MergeDeclarations(D).module = Leading(D).module
      /\ MergeDeclarations(D).defines = \E k \in DOMAIN D : D[k].defines
  <2>1. DOMAIN Leading(D) = EntryFields
    BY <1>8 DEF TakenFrom
  <2> HIDE DEF D
  <2> QED BY <2>1, MergedIs
<1>10. \A k \in Of(addon, key) : D[k].defines <=> Definer(addon.classes[k])
  BY <1>4, <1>5
<1>11. TakenFrom(e, c, addon.name) /\ e.defines = \E k \in DOMAIN D : D[k].defines
  BY <1>1, <1>8, <1>9 DEF TakenFrom
<1>12. e.defines <=> \E k \in Of(addon, key) : Definer(addon.classes[k])
  BY <1>3, <1>10, <1>11
<1>13. (\E k \in Of(addon, key) : Definer(addon.classes[k])) => Definer(c)
  BY <1>6, <1>10
<1> QED BY <1>6, <1>11, <1>12, <1>13 DEF MadeOf

\* A class that is named is known by its name.
LEMMA NamedKey ==
  ASSUME NEW c, c.name \notin {"", "?"}
  PROVE  ModelKey(c) = c.name
BY DEF ModelKey

\* The entry of a model in the graph: a class of the addon that owns it names it.
LEMMA GraphModelIs ==
  ASSUME NEW project, NEW stubs, DOMAIN project \in SUBSET Nat,
         \A i \in DOMAIN project : project[i].classes \in Seq(ModelClass),
         NEW key \in DOMAIN BuildGraph(project, stubs).models
  PROVE  \E i \in DOMAIN project : \E c \in ToSet(project[i].classes) :
           c.name = key /\ BuildGraph(project, stubs).models[key].module = project[i].name
<1> DEFINE parsed == [i \in DOMAIN project |-> AddonModels(project[i])]
           L == Entries(parsed, key, TRUE)
           m == MergeDeclarations(L)
<1>1. DOMAIN L # {} /\ BuildGraph(project, stubs).models[key] = WithExtensionParents(m, Entries(parsed, key, FALSE))
  BY DEF BuildGraph
<1>2. DOMAIN L \subseteq DOMAIN project
  BY DEF Entries
<1>3. \A i \in DOMAIN L : L[i] = AddonModels(project[i])[key] /\ key \in DOMAIN AddonModels(project[i]) /\ L[i].name # ""
  BY DEF Entries
<1>4. PICK i \in DOMAIN L : Leading(L) = L[i]
  BY <1>1, <1>2, LeadingIs
<1>5. PICK k \in Of(project[i], key) : MadeOf(project[i], key, k)
  BY <1>2, <1>3, EntryIs
<1> DEFINE c == project[i].classes[k]
<1>6. c.name \notin {"", "?"} /\ ModelKey(c) = key /\ c \in ToSet(project[i].classes)
  BY <1>3, <1>5 DEF MadeOf, TakenFrom, Of, ToSet
<1>7. c.name = key
  BY <1>6, NamedKey
<1>8. DOMAIN L[i] = EntryFields /\ L[i].module = project[i].name
  BY <1>3, <1>5 DEF MadeOf, TakenFrom
<1> HIDE DEF L
<1>9. DOMAIN m = EntryFields /\ m.module = Leading(L).module
  BY <1>4, <1>8, MergedIs
<1> HIDE DEF m
<1>10. WithExtensionParents(m, Entries(parsed, key, FALSE)).module = m.module
  BY <1>9 DEF WithExtensionParents, EntryFields
<1>11. BuildGraph(project, stubs).models[key].module = project[i].name
  BY <1>1, <1>4, <1>8, <1>9, <1>10
<1> QED BY <1>2, <1>6, <1>7, <1>11

\* A model that a class of an addon names and does not inherit from is in the graph.
LEMMA CreatedIsKnown ==
  ASSUME NEW project, NEW stubs, DOMAIN project \in SUBSET Nat,
         \A i \in DOMAIN project : project[i].classes \in Seq(ModelClass),
         NEW i \in DOMAIN project, NEW c \in ToSet(project[i].classes), Definer(c)
  PROVE  c.name \in DOMAIN BuildGraph(project, stubs).models
<1> DEFINE parsed == [j \in DOMAIN project |-> AddonModels(project[j])]
           key == c.name
<1>1. PICK k \in DOMAIN project[i].classes : c = project[i].classes[k]
  BY DEF ToSet
<1>2. ModelKey(c) = key /\ key # ""
  BY NamedKey DEF Definer
<1>3. k \in Of(project[i], key) /\ key \in DOMAIN AddonModels(project[i])
  BY <1>1, <1>2 DEF Of, AddonModels
<1>4. PICK l \in Of(project[i], key) : MadeOf(project[i], key, l)
  BY <1>3, EntryIs
<1>5. AddonModels(project[i])[key].name # ""
  BY <1>1, <1>3, <1>4 DEF MadeOf, TakenFrom, Definer
<1>6. i \in DOMAIN Entries(parsed, key, TRUE)
  BY <1>3, <1>5 DEF Entries
<1>7. key \in UNION {DOMAIN parsed[j] : j \in DOMAIN parsed}
  BY <1>3
<1> QED BY <1>6, <1>7 DEF BuildGraph

\* What is reached is closed, and in every closed set.
LEMMA ReachedIsClosed ==
  ASSUME NEW next, NEW from \in SUBSET DOMAIN next,
         \A n \in DOMAIN next : next[n] \subseteq DOMAIN next
  PROVE  /\ from \subseteq Reached(next, from) /\ Reached(next, from) \subseteq DOMAIN next
         /\ \A n \in Reached(next, from) : next[n] \subseteq Reached(next, from)
BY DEF Reached

\* Nothing more is reached than any closed set holds.
LEMMA ReachedIsLeast ==
  ASSUME NEW next, NEW from, NEW s \in SUBSET DOMAIN next,
         from \subseteq s, \A n \in s : next[n] \subseteq s
  PROVE  Reached(next, from) \subseteq s
BY DEF Reached

\* Where every manifest of the closure was read, nothing else is installed.
LEMMA InstalledIsClosure ==
  ASSUME NEW w, WorldIsWhole(w), DependencyClosure(w, "own").complete
  PROVE  Installed(w) \subseteq DependencyClosure(w, "own").modules \cup {"own"}
<1> DEFINE modules == DOMAIN w.depends
           next == [m \in modules |-> IF m \in Manifests(w) \ AlwaysAvailable THEN w.depends[m] ELSE {}]
           closure == Reached(next, w.depends["own"])
           s == closure \cup {"own"}
<1>1. /\ "own" \in modules /\ w.depends \in [modules -> SUBSET modules]
      /\ \A m \in modules \cap AlwaysAvailable : w.depends[m] = {}
  BY DEF WorldIsWhole, ToSet
<1>2. closure = DependencyClosure(w, "own").modules /\ closure \subseteq Manifests(w) \cup AlwaysAvailable
  BY DEF DependencyClosure
<1>3. w.depends["own"] \in SUBSET modules /\ \A m \in modules : w.depends[m] \in SUBSET modules
  BY <1>1
<1>4. DOMAIN next = modules /\ \A n \in DOMAIN next : next[n] \subseteq DOMAIN next
  BY <1>3
<1>5. /\ w.depends["own"] \subseteq closure /\ closure \subseteq modules
      /\ \A n \in closure : next[n] \subseteq closure
  <2> HIDE DEF next
  <2> QED BY <1>3, <1>4, ReachedIsClosed
<1>6. ASSUME NEW n \in s PROVE w.depends[n] \subseteq s
  <2>1. CASE n = "own"
    BY <1>5, <2>1
  <2>2. CASE n \in closure /\ n \in AlwaysAvailable
    BY <1>1, <1>5, <2>2
  <2>3. CASE n \in closure /\ n \notin AlwaysAvailable
    BY <1>2, <1>5, <2>3
  <2> QED BY <2>1, <2>2, <2>3
<1>7. s \in SUBSET modules /\ {"own"} \subseteq s
  BY <1>1, <1>5
<1> HIDE DEF s
<1>8. Installed(w) \subseteq s
  BY <1>6, <1>7, ReachedIsLeast DEF Installed
<1> QED BY <1>2, <1>8 DEF s

\* Who is said to own a model has a class that creates it.
LEMMA OwnersCreate ==
  ASSUME NEW w, WorldIsWhole(w), NEW model, NEW m \in OwnerModule(w, WorldGraph(w), model)
  PROVE  m \in DOMAIN w.classes /\ \E c \in ToSet(w.classes[m]) : c.name = model
<1> DEFINE project == [i \in DOMAIN w.scanned |-> [name |-> w.scanned[i], classes |-> w.classes[w.scanned[i]]]]
           stubs == [models |-> [x \in {} |-> x], complete |-> FALSE]
           g == WorldGraph(w)
           modules == DOMAIN w.depends
<1>1. /\ w.scanned \in Seq(modules) /\ w.indexed \subseteq modules
      /\ w.classes \in [modules -> Seq(ModelClass)]
      /\ \A x \in DOMAIN w.table : w.table[x] \in modules /\ \E c \in ToSet(w.classes[w.table[x]]) : c.name = x
  BY DEF WorldIsWhole
<1>2. CASE model \in DOMAIN g.models /\ m = g.models[model].module
  <2>1. DOMAIN project \in SUBSET Nat /\ \A i \in DOMAIN project : w.scanned[i] \in modules
    BY <1>1
  <2>2. \A i \in DOMAIN project : project[i].classes = w.classes[w.scanned[i]] /\ project[i].name = w.scanned[i]
    OBVIOUS
  <2>3. \A i \in DOMAIN project : project[i].classes \in Seq(ModelClass)
    BY <1>1, <2>1, <2>2
  <2>4. g = BuildGraph(project, stubs)
    BY DEF WorldGraph
  <2> HIDE DEF project, stubs
  <2>5. PICK i \in DOMAIN project : \E c \in ToSet(project[i].classes) : c.name = model /\ m = project[i].name
    BY <1>2, <2>1, <2>3, <2>4, GraphModelIs
  <2> QED BY <1>1, <2>1, <2>2, <2>5
<1>3. CASE model \in DOMAIN IndexOwners(w) /\ m = IndexOwners(w)[model]
  <2>1. \E x \in w.indexed : \E c \in ToSet(w.classes[x]) : c.name = model
    BY <1>3 DEF IndexOwners
  <2>2. m \in w.indexed /\ \E c \in ToSet(w.classes[m]) : c.name = model
    BY <1>3, <2>1 DEF IndexOwners
  <2> QED BY <1>1, <2>2
<1>4. CASE model \in DOMAIN w.table /\ m = w.table[model]
  BY <1>1, <1>4
<1> QED BY <1>2, <1>3, <1>4 DEF OwnerModule

\* What is surely missing is not installed, and the addon cannot do without it.
LEMMA MissingIsMissing ==
  ASSUME NEW w, WorldIsWhole(w), NamesCreate(w), NEW f \in High(CheckMissingDependency(w, "own"))
  PROVE  DependencyIsMissing(w, f)
<1> DEFINE g == WorldGraph(w)
           closure == DependencyClosure(w, "own")
           parents == (UNION {ToSet(c.inherit) : c \in ToSet(w.classes["own"])}) \ {"?"}
<1>1. PICK m : /\ f = [missing |-> m, confidence |-> Confidence(closure)]
               /\ m \in (UNION {OwnerModule(w, g, p) : p \in parents}) \cup {x \in w.refs : ModuleIsKnown(w, g, x)}
               /\ m # "own" /\ m \notin closure.modules
  BY DEF High, CheckMissingDependency
<1>2. f.missing = m /\ f.confidence = Confidence(closure) /\ f.confidence = "high"
  BY <1>1 DEF High
<1>3. closure.complete
  BY <1>2 DEF Confidence
<1>4. m \notin Installed(w)
  BY <1>1, <1>3, InstalledIsClosure
<1>5. CASE m \in w.refs
  BY <1>2, <1>4, <1>5 DEF DependencyIsMissing, Needs
<1>6. CASE \E p \in parents : m \in OwnerModule(w, g, p)
  <2>1. PICK p \in parents : m \in OwnerModule(w, g, p)
    BY <1>6
  <2>2. PICK c \in ToSet(w.classes[m]) : c.name = p
    BY <2>1, OwnersCreate
  <2>3. m \in DOMAIN w.classes
    BY <2>1, OwnersCreate
  <2>4. c.name \notin ToSet(c.inherit)
    BY <2>2, <2>3 DEF NamesCreate
  <2>5. PICK d \in ToSet(w.classes["own"]) : p \in ToSet(d.inherit)
    BY <2>1
  <2>6. m \in Needs(w, "own")
    BY <2>2, <2>3, <2>4, <2>5 DEF Needs
  <2> QED BY <1>2, <1>4, <2>6 DEF DependencyIsMissing
<1> QED BY <1>1, <1>5, <1>6

\* A package that is surely undeclared is declared by nothing that is installed.
LEMMA PackageIsMissing ==
  ASSUME NEW w, WorldIsWhole(w), w.indexed = {}, NEW f \in High(CheckMissingExternalDependency(w, "own"))
  PROVE  PackageIsUndeclared(w, f)
<1> DEFINE closure == DependencyClosure(w, "own")
           declared == UNION {w.packages[m] : m \in (closure.modules \cup {"own"}) \cap ToSet(w.scanned)}
<1>1. PICK p : f = [missing |-> p, confidence |-> Confidence(closure)] /\ p \notin declared
  BY DEF High, CheckMissingExternalDependency
<1>2. f.missing = p /\ f.confidence = Confidence(closure) /\ f.confidence = "high"
  BY <1>1 DEF High
<1>3. closure.complete
  BY <1>2 DEF Confidence
<1>4. closure.modules \subseteq ToSet(w.scanned) \cup AlwaysAvailable
  BY <1>3 DEF DependencyClosure, Manifests
<1>5. Installed(w) \subseteq closure.modules \cup {"own"} /\ Installed(w) \subseteq DOMAIN w.depends
  BY <1>3, InstalledIsClosure DEF Installed, Reached
<1>6. "own" \in ToSet(w.scanned) /\ \A m \in DOMAIN w.depends \cap AlwaysAvailable : w.packages[m] = {}
  BY DEF WorldIsWhole
<1>7. ASSUME NEW m \in Installed(w) PROVE p \notin w.packages[m]
  <2>1. CASE m \in ToSet(w.scanned)
    BY <1>1, <1>5, <2>1
  <2>2. CASE m \in AlwaysAvailable
    BY <1>5, <1>6, <2>2
  <2> QED BY <1>4, <1>5, <1>6, <2>1, <2>2
<1> QED BY <1>2, <1>7 DEF PackageIsUndeclared

\* What a sequence begins with.
LEMMA HeadIsFirst ==
  ASSUME NEW S, NEW q \in Seq(S), q # <<>>
  PROVE  /\ DOMAIN q = 1..Len(q) /\ Len(q) \in Nat \ {0} /\ Head(q) = q[1]
         /\ Head(q) \in ToSet(q)
<1>1. DOMAIN q = 1..Len(q) /\ Len(q) \in Nat \ {0} /\ Head(q) = q[1]
  OBVIOUS
<1>2. 1 \in DOMAIN q
  BY <1>1
<1> QED BY <1>1, <1>2 DEF ToSet

\* A sequence of no more than one place.
LEMMA AtMostOne ==
  ASSUME NEW S, NEW q \in Seq(S), NEW x, q = <<>> \/ (Len(q) = 1 /\ Head(q) = x)
  PROVE  \A i \in DOMAIN q : q[i] = x
<1>1. DOMAIN q = 1..Len(q) /\ (q = <<>> => Len(q) = 0) /\ (q # <<>> => Head(q) = q[1])
  OBVIOUS
<1> QED BY <1>1

\* Where the first name is written out, it is the first that is.
LEMMA FirstWritten ==
  ASSUME NEW q \in Seq(STRING), q # <<>>, Head(q) # "?"
  PROVE  LET places == {i \in DOMAIN q : q[i] # "?"}
         IN places # {} /\ q[Min(places)] = Head(q) /\ Head(q) \in ToSet(q)
<1> DEFINE places == {i \in DOMAIN q : q[i] # "?"}
<1>1. DOMAIN q = 1..Len(q) /\ Len(q) \in Nat \ {0} /\ Head(q) = q[1]
  BY HeadIsFirst
<1>2. 1 \in DOMAIN q /\ \A i \in DOMAIN q : i \in Nat /\ i >= 1
  BY <1>1
<1>3. places \in SUBSET Nat /\ 1 \in places /\ \A i \in places : i >= 1
  BY <1>1, <1>2
<1>4. Min(places) = 1
  <2> HIDE DEF places
  <2>1. Min(places) \in places /\ \A y \in places : Min(places) <= y
    BY <1>3, MinIsFirst
  <2>2. \A m \in Nat : m >= 1 /\ m <= 1 => m = 1
    OBVIOUS
  <2>3. Min(places) \in Nat /\ Min(places) >= 1 /\ Min(places) <= 1
    <3>1. \A y \in places : y \in Nat /\ y >= 1
      BY <1>3
    <3> QED BY <1>3, <2>1, <3>1
  <2> QED BY <2>2, <2>3
<1>5. q[1] \in ToSet(q)
  BY <1>2 DEF ToSet
<1> QED BY <1>1, <1>3, <1>4, <1>5

\* A class that names nothing is known by the first model it inherits from.
LEMMA KeyIsFirst ==
  ASSUME NEW c, c.inherit \in Seq(STRING), c.name = "", c.inherit # <<>>, Head(c.inherit) # "?"
  PROVE  ModelKey(c) = Head(c.inherit) /\ Head(c.inherit) \in ToSet(c.inherit)
<1> DEFINE places == {i \in DOMAIN c.inherit : c.inherit[i] # "?"}
<1>1. /\ places # {} /\ c.inherit[Min(places)] = Head(c.inherit)
      /\ Head(c.inherit) \in ToSet(c.inherit)
  BY FirstWritten
<1>2. c.name \in {"", "?"}
  OBVIOUS
<1>3. ModelKey(c) = IF c.name \notin {"", "?"} THEN c.name ELSE IF places = {} THEN "" ELSE c.inherit[Min(places)]
  BY DEF ModelKey
<1> HIDE DEF places
<1> QED BY <1>1, <1>2, <1>3

\* Where names are written out, the graph knows a class by the model it is of.
LEMMA KeyIsTarget ==
  ASSUME NEW c, c.inherit \in Seq(STRING), "?" \notin {c.name} \cup ToSet(c.inherit),
         "" \notin ToSet(c.inherit), c.name = "" => c.inherit # <<>>
  PROVE  ModelKey(c) = ClassTarget(c) /\ ModelKey(c) # ""
<1>1. CASE c.name # ""
  BY <1>1 DEF ModelKey, ClassTarget
<1>2. CASE c.name = ""
  <2>1. Head(c.inherit) # "?"
    BY <1>2, HeadIsFirst
  <2>2. ModelKey(c) = Head(c.inherit) /\ Head(c.inherit) \in ToSet(c.inherit)
    BY <1>2, <2>1, KeyIsFirst
  <2> QED BY <1>2, <2>2 DEF ClassTarget
<1> QED BY <1>1, <1>2

\* A function on 1..n is a sequence of n.
LEMMA LenOfFunction ==
  ASSUME NEW n \in Nat, NEW S, NEW f \in [1..n -> S]
  PROVE  Len(f) = n
<1>1. f \in Seq(S)
  BY SeqDef
<1>2. Len(f) \in Nat /\ DOMAIN f = 1..Len(f)
  BY <1>1
<1>3. ASSUME NEW a \in Nat, NEW b \in Nat, 1..a = 1..b PROVE a <= b
  <2>1. a # 0 => a \in 1..a
    OBVIOUS
  <2>2. a # 0 => a \in 1..b
    BY <1>3, <2>1
  <2> QED BY <2>2
<1>4. 1..n = 1..Len(f) /\ 1..Len(f) = 1..n
  BY <1>2
<1>5. n <= Len(f) /\ Len(f) <= n
  BY <1>2, <1>3, <1>4
<1> QED BY <1>2, <1>5

\* A row means the models that are spelt with its words.
LEMMA CandidateIsMeant ==
  ASSUME NEW s, NEW name, Spelt(s, name), Len(s.spelt[name].seps) <= MaxSeparators, NEW row
  PROVE  IsCandidate(s, row, name) <=> s.spelt[name].words = row.words
<1> DEFINE seps == s.spelt[name].seps
           words == s.spelt[name].words
           n == Len(words) - 1
<1>1. seps \in [1..n -> {".", "_"}] /\ words \in Seq(STRING)
  BY DEF Spelt
<1>2. n \in Int
  <2>1. ASSUME NEW q \in Seq(STRING) PROVE Len(q) - 1 \in Int
    OBVIOUS
  <2> HIDE DEF words
  <2> QED BY <1>1, <2>1 DEF n
<1>3. Len(seps) <= MaxSeparators
  OBVIOUS
<1>4. ~(n > MaxSeparators)
  <2> HIDE DEF seps, n
  <2>1. n \in Nat => Len(seps) = n
    BY <1>1, LenOfFunction
  <2> QED BY <1>2, <1>3, <2>1, MaxSeparatorsAssumption
<1>5. seps \in CandidateSeparators(n)
  BY <1>1, <1>4 DEF CandidateSeparators
<1> QED BY <1>5 DEF IsCandidate

\* What a plain site's classes are.
LEMMA PlainClass ==
  ASSUME NEW s, SiteIsWhole(s), SiteIsPlain(s), NEW c \in ToSet(s.own) \cup ToSet(s.peer)
  PROVE  /\ ModelKey(c) = ClassTarget(c) /\ ModelKey(c) # "" /\ c.name # "?"
         /\ Spelt(s, ClassTarget(c)) /\ Len(s.spelt[ClassTarget(c)].seps) <= MaxSeparators
<1>1. c \in ModelClass
  <2>1. s.own \in Seq(ModelClass) /\ s.peer \in Seq(ModelClass)
    BY DEF SiteIsWhole
  <2>2. (\A i \in DOMAIN s.own : s.own[i] \in ModelClass) /\ (\A i \in DOMAIN s.peer : s.peer[i] \in ModelClass)
    BY <2>1
  <2> QED BY <2>2 DEF ToSet
<1>2. c.inherit \in Seq(STRING)
  BY <1>1 DEF ModelClass
<1>3. "?" \notin {c.name} \cup ToSet(c.inherit) /\ Len(s.spelt[ClassTarget(c)].seps) <= MaxSeparators
  BY DEF SiteIsPlain
<1>4. /\ "" \notin ToSet(c.inherit) /\ (c.name = "" => c.inherit # <<>>)
      /\ ClassTarget(c) # "?" => Spelt(s, ClassTarget(c))
  BY DEF SiteIsWhole
<1>5. ModelKey(c) = ClassTarget(c) /\ ModelKey(c) # ""
  BY <1>2, <1>3, <1>4, KeyIsTarget
<1>6. ClassTarget(c) # "?"
  <2>1. CASE c.name # ""
    BY <1>3, <2>1 DEF ClassTarget
  <2>2. CASE c.name = ""
    <3>1. 1 \in DOMAIN c.inherit /\ Head(c.inherit) = c.inherit[1]
      <4>1. \A q \in Seq(STRING) : q # <<>> => 1 \in DOMAIN q /\ Head(q) = q[1]
        OBVIOUS
      <4> QED BY <1>2, <1>4, <2>2, <4>1
    <3>2. Head(c.inherit) \in ToSet(c.inherit)
      BY <3>1 DEF ToSet
    <3> QED BY <1>3, <2>2, <3>2 DEF ClassTarget
  <2> QED BY <2>1, <2>2
<1> QED BY <1>3, <1>4, <1>5, <1>6

Own(s) == [name |-> "own", classes |-> s.own]

\* The entries of the addon are those of the models its classes create or extend.
LEMMA OwnAreTouched ==
  ASSUME NEW s, SiteIsWhole(s), SiteIsPlain(s)
  PROVE  /\ DOMAIN OwnModels(s) = Touched(s)
         /\ \A name \in Touched(s) : Spelt(s, name) /\ Len(s.spelt[name].seps) <= MaxSeparators
<1>1. \A i \in DOMAIN s.own : s.own[i] \in ToSet(s.own)
  BY DEF ToSet
<1>2. \A c \in ToSet(s.own) : ModelKey(c) = ClassTarget(c) /\ ModelKey(c) # ""
  BY PlainClass
<1>3. DOMAIN OwnModels(s) = {ModelKey(s.own[i]) : i \in DOMAIN s.own} \ {""}
  BY DEF OwnModels, AddonModels
<1>4. {ModelKey(s.own[i]) : i \in DOMAIN s.own} = {ModelKey(c) : c \in ToSet(s.own)}
  BY DEF ToSet
<1>5. DOMAIN OwnModels(s) = {ClassTarget(c) : c \in ToSet(s.own)}
  BY <1>2, <1>3, <1>4
<1> QED BY <1>5, PlainClass DEF Touched

\* The class that an entry is made of.
LEMMA OwnEntryIs ==
  ASSUME NEW s, SiteIsWhole(s), SiteIsPlain(s), NEW name \in Touched(s)
  PROVE  \E c \in ToSet(s.own) :
           /\ ClassTarget(c) = name /\ OwnModels(s)[name].base = c.base
           /\ OwnModels(s)[name].defines <=> \E d \in ToSet(s.own) : d \in Creators(s, name)
           /\ (\E d \in ToSet(s.own) : d \in Creators(s, name)) => c \in Creators(s, name)
<1> DEFINE addon == Own(s)
           e == OwnModels(s)[name]
<1>1. addon.classes = s.own /\ s.own \in Seq(ModelClass) /\ OwnModels(s) = AddonModels(addon)
  BY DEF Own, OwnModels, SiteIsWhole
<1>2. name \in DOMAIN AddonModels(addon)
  BY <1>1, OwnAreTouched
<1>3. PICK i \in Of(addon, name) : MadeOf(addon, name, i)
  BY <1>1, <1>2, EntryIs
<1> DEFINE c == s.own[i]
<1>4. i \in DOMAIN s.own /\ c \in ToSet(s.own) /\ ModelKey(c) = name
  BY <1>1, <1>3 DEF Of, ToSet
<1>5. ClassTarget(c) = name /\ name # ""
  BY <1>4, PlainClass
<1>6. ASSUME NEW k \in DOMAIN s.own
      PROVE  (k \in Of(addon, name) /\ Definer(s.own[k])) <=> s.own[k] \in Creators(s, name)
  <2> DEFINE d == s.own[k]
  <2>1. d \in ToSet(s.own)
    BY DEF ToSet
  <2>2. ModelKey(d) = ClassTarget(d) /\ d.name # "?"
    BY <2>1, PlainClass
  <2>3. k \in Of(addon, name) <=> ModelKey(d) = name
    BY <1>1 DEF Of
  <2>4. Definer(d) <=> d.name # "" /\ d.name \notin ToSet(d.inherit)
    BY <2>2 DEF Definer
  <2>5. d.name # "" => ClassTarget(d) = d.name
    BY DEF ClassTarget
  <2>6. d \in Creators(s, name) <=> d.name = name /\ name \notin ToSet(d.inherit)
    BY <2>1 DEF Creators
  <2>7. (k \in Of(addon, name) /\ Definer(d)) <=> d \in Creators(s, name)
    <3> HIDE DEF d
    <3> QED BY <1>5, <2>2, <2>3, <2>4, <2>5, <2>6
  <2> QED BY <2>7
<1>7. (\E k \in Of(addon, name) : Definer(addon.classes[k])) <=> \E d \in ToSet(s.own) : d \in Creators(s, name)
  BY <1>1, <1>6 DEF Of, ToSet
<1>8. e.base = c.base
  BY <1>1, <1>3 DEF MadeOf, TakenFrom
<1>9. /\ e.defines <=> \E k \in Of(addon, name) : Definer(addon.classes[k])
      /\ (\E k \in Of(addon, name) : Definer(addon.classes[k])) => Definer(c)
  BY <1>1, <1>3 DEF MadeOf
<1> QED BY <1>3, <1>4, <1>5, <1>6, <1>7, <1>8, <1>9

\* A lasting model is said to have no rights exactly when no row gives one.
LEMMA MissingRights ==
  ASSUME NEW s, SiteIsWhole(s), SiteIsPlain(s)
  PROVE  CheckMissingAccess(s) = {name \in LastingModels(s) : ~\E i \in DOMAIN s.rows : name \in Meant(s, s.rows[i])}
<1>1. ASSUME NEW name \in Touched(s)
      PROVE  Lasting(OwnModels(s)[name]) <=> name \in LastingModels(s)
  <2>1. PICK c \in ToSet(s.own) :
          /\ ClassTarget(c) = name /\ OwnModels(s)[name].base = c.base
          /\ OwnModels(s)[name].defines <=> \E d \in ToSet(s.own) : d \in Creators(s, name)
          /\ (\E d \in ToSet(s.own) : d \in Creators(s, name)) => c \in Creators(s, name)
    BY OwnEntryIs
  <2>2. \A d \in Creators(s, name) : c \in Creators(s, name) => c.base = d.base
    BY <2>1 DEF SiteIsPlain, Creators
  <2>3. name \in LastingModels(s) <=> \E d \in ToSet(s.own) : d \in Creators(s, name) /\ d.base = "model"
    BY DEF LastingModels
  <2> QED BY <2>1, <2>2, <2>3 DEF Lasting
<1>2. \A name \in Touched(s) : \A i \in DOMAIN s.rows : IsCandidate(s, s.rows[i], name) <=> name \in Meant(s, s.rows[i])
  BY OwnAreTouched, CandidateIsMeant DEF Meant
<1>3. CheckMissingAccess(s) =
        {name \in Touched(s) : Lasting(OwnModels(s)[name]) /\ ~\E i \in DOMAIN s.rows : IsCandidate(s, s.rows[i], name)}
  BY OwnAreTouched DEF CheckMissingAccess
<1>4. LastingModels(s) \subseteq Touched(s)
  BY DEF LastingModels
<1> QED BY <1>1, <1>2, <1>3, <1>4

\* A row that is said to be of no model is of none that the addon has.
LEMMA UnknownRights ==
  ASSUME NEW s, SiteIsWhole(s), SiteIsPlain(s), NEW i \in CheckUnknownModel(s)
  PROVE  Meant(s, s.rows[i]) = {}
<1> DEFINE project == <<[name |-> "own", classes |-> s.own], [name |-> "peer", classes |-> s.peer]>>
           stubs == [models |-> [m \in {} |-> m], complete |-> FALSE]
<1>1. \A name \in DOMAIN BuildGraph(project, stubs).models \cup s.known : ~IsCandidate(s, s.rows[i], name)
  BY DEF CheckUnknownModel
<1> SUFFICES ASSUME NEW name \in Meant(s, s.rows[i]) PROVE FALSE
  OBVIOUS
<1>2. name \in Touched(s) /\ IsCandidate(s, s.rows[i], name)
  BY OwnAreTouched, CandidateIsMeant DEF Meant
<1>3. PICK c \in Creators(s, name) : TRUE
  BY <1>1, <1>2 DEF SiteIsPlain
<1>4. c \in ToSet(s.own) \cup ToSet(s.peer) /\ c.name = name /\ name \notin ToSet(c.inherit)
  BY <1>3 DEF Creators
<1>5. Definer(c)
  <2>1. c.name # "?"
    BY <1>4, PlainClass
  <2>2. ModelKey(c) = ClassTarget(c) /\ ModelKey(c) # ""
    BY <1>4, PlainClass
  <2>3. name # ""
    <3>1. PICK d \in ToSet(s.own) : ClassTarget(d) = name
      BY <1>2 DEF Touched
    <3> QED BY <3>1, PlainClass
  <2> QED BY <1>4, <2>1, <2>3 DEF Definer
<1>6. /\ DOMAIN project = {1, 2} /\ project[1].classes = s.own /\ project[2].classes = s.peer
      /\ s.own \in Seq(ModelClass) /\ s.peer \in Seq(ModelClass)
  <2>1. DOMAIN project = {1, 2} /\ project[1].classes = s.own /\ project[2].classes = s.peer
    OBVIOUS
  <2> QED BY <2>1 DEF SiteIsWhole
<1>7. PICK k \in {1, 2} : c \in ToSet(project[k].classes)
  BY <1>4, <1>6
<1>8. DOMAIN project \in SUBSET Nat /\ \A j \in DOMAIN project : project[j].classes \in Seq(ModelClass)
  BY <1>6
<1> HIDE DEF project, stubs
<1>9. c.name \in DOMAIN BuildGraph(project, stubs).models
  BY <1>5, <1>6, <1>7, <1>8, CreatedIsKnown
<1> QED BY <1>1, <1>2, <1>4, <1>9

\* A row that is surely said to let everyone write is of no wizard.
LEMMA OpenRights ==
  ASSUME NEW s, SiteIsWhole(s), SiteIsPlain(s), NEW f \in CheckWriteWithoutGroup(s)
  PROVE  Meant(s, s.rows[f.row]) \cap Wizards(s) = {}
<1>1. ~\E name \in DOMAIN OwnModels(s) : OwnModels(s)[name].base = "transient" /\ IsCandidate(s, s.rows[f.row], name)
  <2> DEFINE transient == {name \in DOMAIN OwnModels(s) : OwnModels(s)[name].base = "transient"}
             sure(i) == IF s.rows[i].write \/ s.rows[i].unlink THEN "high" ELSE "medium"
  <2>1. PICK i \in DOMAIN s.rows :
          f = [row |-> i, confidence |-> sure(i)] /\ ~\E name \in transient : IsCandidate(s, s.rows[i], name)
    BY DEF CheckWriteWithoutGroup
  <2>2. f.row = i
    <3> HIDE DEF sure
    <3> QED BY <2>1
  <2> QED BY <2>1, <2>2
<1> SUFFICES ASSUME NEW name \in Meant(s, s.rows[f.row]), name \in Wizards(s) PROVE FALSE
  OBVIOUS
<1>2. name \in Touched(s) /\ IsCandidate(s, s.rows[f.row], name) /\ name \in DOMAIN OwnModels(s)
  BY OwnAreTouched, CandidateIsMeant DEF Meant
<1>3. PICK w \in Creators(s, name) : w.base = "transient"
  BY DEF Wizards
<1>4. PICK c \in ToSet(s.own) : ClassTarget(c) = name /\ OwnModels(s)[name].base = c.base
  BY <1>2, OwnEntryIs
<1>5. c.base = w.base
  BY <1>3, <1>4 DEF SiteIsPlain
<1> QED BY <1>1, <1>2, <1>3, <1>4, <1>5

\* What has been judged, and of what.
GraphInv ==
  \/ /\ rule = "dependencies" /\ input \in Worlds
     /\ judged => verdict = [modules |-> CheckMissingDependency(input, "own"),
                             packages |-> CheckMissingExternalDependency(input, "own")]
  \/ rule = "removed core" /\ input \in CoreRefs /\ (judged => verdict = CheckRemovedCore(input))
  \/ rule = "access" /\ input \in Sites /\ (judged => verdict = CheckAccess(input))

\* What the rules about dependencies, packages, references into core Odoo and access rights are
\* certain of is so, for any addons with any manifests, read or not.
THEOREM CertainAreSo == GraphSpec => []HighIsCertain
<1>1. GraphInit => GraphInv
  BY DEF GraphInit, Unjudged, GraphInv
<1>2. GraphInv /\ [GraphNext]_ruleVars => GraphInv'
  <2> SUFFICES ASSUME GraphInv, [GraphNext]_ruleVars PROVE GraphInv'
    OBVIOUS
  <2>1. CASE JudgeDependencies
    BY <2>1 DEF GraphInv, JudgeDependencies, Judge
  <2>2. CASE JudgeRemovedCore
    BY <2>2 DEF GraphInv, JudgeRemovedCore, Judge
  <2>3. CASE JudgeAccess
    BY <2>3 DEF GraphInv, JudgeAccess, Judge
  <2>4. CASE UNCHANGED ruleVars
    BY <2>4 DEF GraphInv, ruleVars
  <2> QED BY <2>1, <2>2, <2>3, <2>4 DEF GraphNext
<1>3. GraphInv => HighIsCertain
  <2> SUFFICES ASSUME GraphInv, judged PROVE HighIsCertain
    BY DEF HighIsCertain, Said
  <2>1. CASE rule = "dependencies"
    <3>1. WorldIsWhole(input) /\ verdict.modules = CheckMissingDependency(input, "own")
            /\ verdict.packages = CheckMissingExternalDependency(input, "own")
      <4>1. input \in Worlds /\ verdict = [modules |-> CheckMissingDependency(input, "own"),
                                           packages |-> CheckMissingExternalDependency(input, "own")]
        BY <2>1 DEF GraphInv
      <4>2. WorldIsWhole(input)
        BY <4>1, GraphInputsAssumption
      <4> QED BY <4>1, <4>2
    <3> QED BY <2>1, <3>1, MissingIsMissing, PackageIsMissing DEF HighIsCertain, Said
  <2>2. CASE rule = "removed core"
    <3>1. input.target \in {"no index", "no module", "no such thing", "there"} /\ verdict = CheckRemovedCore(input)
      BY <2>2, GraphInputsAssumption DEF GraphInv
    <3>2. ASSUME NEW f \in High(verdict) PROVE LoadFails(input)
      <4>1. f \in CheckRemovedCore(input) /\ f.confidence = "high"
        BY <3>1 DEF High
      <4>2. ~input.declared /\ Classify(input) # "silent" /\ ~input.guarded /\ Classify(input) = "high"
        BY <4>1 DEF CheckRemovedCore
      <4>3. ~input.scanned /\ "there" \in input.older
        BY <4>2 DEF Classify
      <4>4. input.target \notin {"no index", "no module", "there"}
        BY <4>2, <4>3 DEF Classify
      <4> QED BY <3>1, <4>2, <4>3, <4>4 DEF LoadFails
    <3> QED BY <2>2, <3>2 DEF HighIsCertain, Said
  <2>3. CASE rule = "access"
    <3>1. SiteIsWhole(input) /\ verdict.missing = CheckMissingAccess(input)
            /\ verdict.unknown = CheckUnknownModel(input) /\ verdict.open = CheckWriteWithoutGroup(input)
      <4>1. input \in Sites /\ verdict = CheckAccess(input)
        BY <2>3 DEF GraphInv
      <4>2. SiteIsWhole(input)
        BY <4>1, GraphInputsAssumption
      <4> QED BY <4>1, <4>2 DEF CheckAccess
    <3>2. SiteIsPlain(input) => AccessIsTold(input, verdict)
      BY <3>1, MissingRights, UnknownRights, OpenRights DEF AccessIsTold
    <3> QED BY <2>3, <3>2 DEF HighIsCertain, Said
  <2> QED BY <2>1, <2>2, <2>3 DEF GraphInv
<1> QED BY <1>1, <1>2, <1>3, PTL DEF GraphSpec

(* The resolver: what it says is absent. *)

\* SetToSeq lists a set.
LEMMA ListingOf ==
  ASSUME NEW S, IsFiniteSet(S)
  PROVE  SetToSeq(S) \in Seq(S) /\ ToSet(SetToSeq(S)) = S
<1> DEFINE n == Cardinality(S)
           f == SetToSeq(S)
<1>1. n \in Nat /\ ExistsBijection(1..n, S)
  BY FS_CardinalityType
<1>2. \E h \in [1..n -> S] : IsInjective(h)
  BY <1>1 DEF ExistsBijection, Bijection, Injection
<1>3. f \in [1..n -> S] /\ IsInjective(f)
  BY <1>2 DEF SetToSeq
<1> HIDE DEF f
<1>4. IsFiniteSet(1..n) /\ Cardinality(1..n) = n
  BY <1>1, FS_Interval
<1>5. f \in Injection(1..n, S)
  BY <1>3 DEF Injection
<1>6. f \in Surjection(1..n, S)
  BY <1>4, <1>5, FS_Injection
<1>7. f \in Seq(S) /\ DOMAIN f = 1..n
  BY <1>1, <1>3, SeqDef
<1>8. \A x \in S : \E i \in 1..n : f[i] = x
  BY <1>6 DEF Surjection
<1>9. ToSet(f) = S
  BY <1>3, <1>7, <1>8 DEF ToSet
<1> QED BY <1>7, <1>9 DEF f

\* Two sequences side by side.
LEMMA JoinedSet ==
  ASSUME NEW S, NEW a \in Seq(S), NEW b \in Seq(S)
  PROVE  a \o b \in Seq(S) /\ ToSet(a \o b) = ToSet(a) \cup ToSet(b)
<1>1. /\ a \o b \in Seq(S) /\ DOMAIN (a \o b) = 1..(Len(a) + Len(b)) /\ DOMAIN a = 1..Len(a) /\ DOMAIN b = 1..Len(b)
      /\ Len(a) \in Nat /\ Len(b) \in Nat
      /\ \A i \in 1..(Len(a) + Len(b)) : (a \o b)[i] = IF i <= Len(a) THEN a[i] ELSE b[i - Len(a)]
  OBVIOUS
<1>2. ASSUME NEW i \in 1..(Len(a) + Len(b)) PROVE (a \o b)[i] \in ToSet(a) \cup ToSet(b)
  <2>1. i <= Len(a) => i \in DOMAIN a
    BY <1>1
  <2>2. ~(i <= Len(a)) => i - Len(a) \in DOMAIN b
    BY <1>1
  <2> QED BY <1>1, <2>1, <2>2 DEF ToSet
<1>3. ASSUME NEW i \in DOMAIN a PROVE a[i] \in ToSet(a \o b)
  <2>1. i \in 1..(Len(a) + Len(b)) /\ i <= Len(a)
    BY <1>1
  <2> QED BY <1>1, <2>1 DEF ToSet
<1>4. ASSUME NEW i \in DOMAIN b PROVE b[i] \in ToSet(a \o b)
  <2>1. Len(a) + i \in 1..(Len(a) + Len(b)) /\ ~(Len(a) + i <= Len(a)) /\ Len(a) + i - Len(a) = i
    BY <1>1
  <2> QED BY <1>1, <2>1 DEF ToSet
<1> QED BY <1>1, <1>2, <1>3, <1>4 DEF ToSet

\* The names a model leads on to.
ParentNames(g, m) == IF m \in DOMAIN g.models THEN (g.models[m].inherit \cup g.models[m].inherits) \ {m} ELSE {}

\* The parents of a model are listed as far as the graph knows them.
LEMMA ParentsAre ==
  ASSUME NEW g, IsFiniteSet(Names(g)), NEW m
  PROVE  /\ Parents(g, m) \in Seq(Names(g)) /\ ToSet(Parents(g, m)) = ParentNames(g, m)
         /\ ParentNames(g, m) \subseteq Names(g)
<1>1. CASE m \notin DOMAIN g.models
  BY <1>1 DEF Parents, ParentNames, ToSet
<1>2. CASE m \in DOMAIN g.models
  <2> DEFINE A == g.models[m].inherit \ {m}
             B == g.models[m].inherits \ {m}
             N == Names(g)
  <2>1. A \in SUBSET N /\ B \in SUBSET N
    BY <1>2 DEF Names
  <2>2. ParentNames(g, m) = A \cup B
    BY <1>2 DEF ParentNames
  <2>3. Parents(g, m) = SetToSeq(A) \o SetToSeq(B)
    BY <1>2 DEF Parents
  <2> HIDE DEF A, B, N
  <2>4. IsFiniteSet(A) /\ IsFiniteSet(B)
    BY <2>1, FS_Subset DEF N
  <2>5. SetToSeq(A) \in Seq(A) /\ ToSet(SetToSeq(A)) = A /\ SetToSeq(B) \in Seq(B) /\ ToSet(SetToSeq(B)) = B
    BY <2>4, ListingOf
  <2>6. SetToSeq(A) \in Seq(N) /\ SetToSeq(B) \in Seq(N)
    BY <2>1, <2>5
  <2> QED BY <2>1, <2>2, <2>3, <2>5, <2>6, JoinedSet DEF N
<1> QED BY <1>1, <1>2

\* How many names have not been seen yet.
Unseen(N, q) == Cardinality(N \ q[2])

\* Where more has been seen, less is left.
LEMMA UnseenFalls ==
  ASSUME NEW N, IsFiniteSet(N), NEW S \in SUBSET N
  PROVE  /\ Cardinality(N \ S) \in 0..Cardinality(N)
         /\ \A T \in SUBSET N : \A x \in T : S \subseteq T /\ x \notin S => Cardinality(N \ T) < Cardinality(N \ S)
<1>1. ASSUME NEW T \in SUBSET N PROVE IsFiniteSet(N \ T) /\ Cardinality(N \ T) \in Nat /\ Cardinality(N \ T) <= Cardinality(N)
  <2>1. N \ T \in SUBSET N
    OBVIOUS
  <2> QED BY <2>1, FS_Subset, FS_CardinalityType
<1>2. Cardinality(N) \in Nat
  BY FS_CardinalityType
<1>3. ASSUME NEW T \in SUBSET N, NEW x \in T, S \subseteq T, x \notin S PROVE Cardinality(N \ T) < Cardinality(N \ S)
  <2>1. N \ T \in SUBSET (N \ S) /\ N \ T # N \ S
    BY <1>3
  <2>2. Cardinality(N \ T) <= Cardinality(N \ S) /\ Cardinality(N \ T) # Cardinality(N \ S)
    BY <1>1, <2>1, FS_Subset
  <2>3. Cardinality(N \ T) \in Nat /\ Cardinality(N \ S) \in Nat
    BY <1>1
  <2> HIDE DEF Cardinality
  <2> QED BY <2>2, <2>3
<1>4. Cardinality(N \ S) \in Nat /\ Cardinality(N \ S) <= Cardinality(N)
  BY <1>1
<1> QED BY <1>2, <1>3, <1>4

\* What has been seen when the i-th parent of q's model is looked at.
BeforeParent(g, q, i) == q[2] \cup {q[1]} \cup {Parents(g, q[1])[k] : k \in 1..(i - 1)}

\* Whether f finds the member in q's model or in a parent.
FoundAt(f, g, kind, member, q) ==
  \/ HasItself(g, kind, q[1], member)
  \/ \E i \in DOMAIN Parents(g, q[1]) :
       /\ Parents(g, q[1])[i] \notin BeforeParent(g, q, i)
       /\ f[<<Parents(g, q[1])[i], BeforeParent(g, q, i) \cup {Parents(g, q[1])[i]}>>]

\* Where the search goes next.
LEMMA NextSearch ==
  ASSUME NEW g, IsFiniteSet(Names(g)), NEW q \in Names(g) \X SUBSET Names(g), NEW i \in DOMAIN Parents(g, q[1])
  PROVE  LET p == Parents(g, q[1])[i]
             e == <<p, BeforeParent(g, q, i) \cup {p}>>
         IN /\ p \in Names(g) /\ BeforeParent(g, q, i) \in SUBSET Names(g) /\ e \in Names(g) \X SUBSET Names(g)
            /\ p \notin BeforeParent(g, q, i) => Unseen(Names(g), e) < Unseen(Names(g), q)
<1> DEFINE N == Names(g)
           ps == Parents(g, q[1])
           p == ps[i]
           b == BeforeParent(g, q, i)
           e == <<p, b \cup {p}>>
<1>1. ps \in Seq(N)
  BY ParentsAre
<1>2. q[1] \in N /\ q[2] \in SUBSET N
  OBVIOUS
<1>3. \A k \in 1..i : k \in DOMAIN ps /\ ps[k] \in N
  <2> HIDE DEF ps, N
  <2> QED BY <1>1 DEF ps
<1>4. i \in Nat /\ i >= 1
  <2>1. i \in DOMAIN ps
    OBVIOUS
  <2> HIDE DEF ps, N
  <2> QED BY <1>1, <2>1
<1>5. p \in N /\ b \in SUBSET N
  <2>1. \A k \in 1..(i - 1) : ps[k] \in N
    BY <1>3, <1>4
  <2>2. p \in N
    BY <1>3, <1>4
  <2> QED BY <1>2, <2>1, <2>2 DEF BeforeParent
<1>6. e \in N \X SUBSET N
  BY <1>5
<1>7. p \notin b => Unseen(N, e) < Unseen(N, q)
  <2> SUFFICES ASSUME p \notin b PROVE Unseen(N, e) < Unseen(N, q)
    OBVIOUS
  <2>1. q[2] \subseteq b \cup {p} /\ p \in b \cup {p} /\ p \notin q[2] /\ b \cup {p} \in SUBSET N /\ e[2] = b \cup {p}
    BY <1>5 DEF BeforeParent
  <2> HIDE DEF N, b, p, e
  <2> QED BY <1>2, <2>1, UnseenFalls DEF Unseen, N
<1> QED BY <1>5, <1>6, <1>7

\* The search is a function of the model and of what was seen.
LEMMA SearchIs ==
  ASSUME NEW g, IsFiniteSet(Names(g)), NEW kind, NEW member
  PROVE  \E f : /\ \A model : Found(g, kind, model, member) = f[<<model, {}>>]
                /\ \A q \in Names(g) \X SUBSET Names(g) : f[q] = FoundAt(f, g, kind, member, q)
<1> DEFINE N == Names(g)
           D == N \X SUBSET N
           V == BOOLEAN
           Body(f, d) == FoundAt(f, g, kind, member, d)
           F == [D -> V]
           step == [x \in F \X D |-> Body(x[1], x[2])]
           start == [d \in D |-> FALSE]
           rank == [d \in D |-> Unseen(N, d)]
           G == CHOOSE f : f = [d \in D |-> Body(f, d)]
<1>1. Cardinality(N) \in Nat /\ rank \in [D -> 0..Cardinality(N)]
  <2>1. Cardinality(N) \in Nat
    BY FS_CardinalityType
  <2>2. \A d \in D : Unseen(N, d) \in 0..Cardinality(N)
    BY UnseenFalls DEF Unseen
  <2> QED BY <2>1, <2>2
<1>2. ASSUME NEW f \in F, NEW d \in D PROVE Body(f, d) \in V
  BY Zenon DEF FoundAt
<1>3. step \in [F \X D -> V] /\ \A f \in F, d \in D : step[<<f, d>>] = Body(f, d)
  <2> HIDE DEF D, V, F, Body
  <2> QED BY <1>2
<1>4. start \in F
  OBVIOUS
<1>5. ASSUME NEW f, NEW h, NEW d \in D, \A e \in D : rank[e] < rank[d] => f[e] = h[e]
      PROVE  Body(f, d) = Body(h, d)
  <2>1. ASSUME NEW i \in DOMAIN Parents(g, d[1]), Parents(g, d[1])[i] \notin BeforeParent(g, d, i)
        PROVE  LET e == <<Parents(g, d[1])[i], BeforeParent(g, d, i) \cup {Parents(g, d[1])[i]}>> IN f[e] = h[e]
    <3> DEFINE e == <<Parents(g, d[1])[i], BeforeParent(g, d, i) \cup {Parents(g, d[1])[i]}>>
    <3>1. e \in D /\ Unseen(N, e) < Unseen(N, d)
      BY <2>1, NextSearch
    <3>2. rank[e] = Unseen(N, e) /\ rank[d] = Unseen(N, d)
      BY <3>1
    <3> HIDE DEF e, D, rank
    <3>3. f[e] = h[e]
      BY <1>5, <3>1, <3>2
    <3> QED BY <3>3 DEF e
  <2> HIDE DEF D, N
  <2> QED BY <2>1 DEF FoundAt
<1>6. Local(step, D, V, rank)
  <2> SUFFICES ASSUME NEW f \in F, NEW h \in F, NEW d \in D, \A e \in D : rank[e] < rank[d] => f[e] = h[e]
               PROVE  step[<<f, d>>] = step[<<h, d>>]
    BY DEF Local
  <2> HIDE DEF D, F, V, Body, step, rank
  <2>1. Body(f, d) = Body(h, d)
    BY <1>5
  <2> QED BY <1>3, <2>1
<1>7. PICK f \in F : \A d \in D : f[d] = step[<<f, d>>]
  <2>1. F = [D -> V]
    OBVIOUS
  <2> HIDE DEF D, V, N, step, start, F, rank
  <2>2. \E f \in F : Solves(f, step, D)
    BY <1>1, <1>3, <1>4, <1>6, <2>1, RankRecursion
  <2> QED BY <2>2 DEF Solves
<1>8. f = [d \in D |-> Body(f, d)]
  <2>1. \A d \in D : f[d] = Body(f, d)
    <3> HIDE DEF step, D, F, V, Body
    <3> QED BY <1>3, <1>7
  <2>2. f = [d \in D |-> f[d]]
    OBVIOUS
  <2> HIDE DEF Body, D
  <2> QED BY <2>1, <2>2
<1>9. G = [d \in D |-> Body(G, d)]
  <2> HIDE DEF Body, D
  <2> QED BY <1>8
<1>10. \A model : Found(g, kind, model, member) = G[<<model, {}>>]
  BY DEF Found, G, FoundAt, BeforeParent
<1>11. \A d \in D : G[d] = Body(G, d)
  <2> HIDE DEF Body, D, G
  <2> QED BY <1>9
<1> HIDE DEF G
<1> QED BY <1>10, <1>11

\* Whether f finds all of q complete: the models still to be looked at, and those seen.
CompleteAt(f, g, q) ==
  \/ q[1] = <<>>
  \/ /\ Head(q[1]) \notin q[2] /\ SaysItAll(g, Head(q[1]))
     /\ f[<<Parents(g, Head(q[1])) \o Tail(q[1]), q[2] \cup {Head(q[1])}>>]

\* A sequence is its head and its tail.
LEMMA HeadAndTail ==
  ASSUME NEW S, NEW t \in Seq(S), t # <<>>
  PROVE  Head(t) \in S /\ Tail(t) \in Seq(S) /\ ToSet(t) = {Head(t)} \cup ToSet(Tail(t))
<1>1. /\ Head(t) \in S /\ Tail(t) \in Seq(S) /\ Len(t) \in Nat /\ Len(t) >= 1 /\ DOMAIN t = 1..Len(t)
      /\ DOMAIN Tail(t) = 1..(Len(t) - 1) /\ Head(t) = t[1] /\ \A i \in 1..(Len(t) - 1) : Tail(t)[i] = t[i + 1]
  OBVIOUS
<1>2. ASSUME NEW i \in DOMAIN t PROVE t[i] \in {Head(t)} \cup ToSet(Tail(t))
  <2>1. i = 1 \/ (i - 1 \in DOMAIN Tail(t) /\ Tail(t)[i - 1] = t[i])
    BY <1>1
  <2> QED BY <1>1, <2>1 DEF ToSet
<1>3. ASSUME NEW i \in DOMAIN Tail(t) PROVE Tail(t)[i] \in ToSet(t)
  <2>1. i + 1 \in DOMAIN t /\ Tail(t)[i] = t[i + 1]
    BY <1>1
  <2> QED BY <2>1 DEF ToSet
<1>4. Head(t) \in ToSet(t)
  <2>1. 1 \in DOMAIN t
    BY <1>1
  <2> QED BY <1>1, <2>1 DEF ToSet
<1> QED BY <1>1, <1>2, <1>3, <1>4 DEF ToSet

\* Where the visit goes next.
LEMMA NextVisit ==
  ASSUME NEW g, IsFiniteSet(Names(g)), NEW q \in Seq(Names(g)) \X SUBSET Names(g), q[1] # <<>>
  PROVE  LET m == Head(q[1])
             e == <<Parents(g, m) \o Tail(q[1]), q[2] \cup {m}>>
         IN /\ m \in Names(g) /\ e \in Seq(Names(g)) \X SUBSET Names(g)
            /\ ToSet(e[1]) = ParentNames(g, m) \cup ToSet(Tail(q[1])) /\ ToSet(q[1]) = {m} \cup ToSet(Tail(q[1]))
            /\ m \notin q[2] => Unseen(Names(g), e) < Unseen(Names(g), q)
<1> DEFINE N == Names(g)
           t == q[1]
           m == Head(t)
           e == <<Parents(g, m) \o Tail(t), q[2] \cup {m}>>
<1>1. t \in Seq(N) /\ q[2] \in SUBSET N /\ t # <<>>
  OBVIOUS
<1>2. m \in N /\ Tail(t) \in Seq(N) /\ ToSet(t) = {m} \cup ToSet(Tail(t))
  <2> HIDE DEF t, N
  <2> QED BY <1>1, HeadAndTail DEF m
<1>4. e[1] \in Seq(N) /\ ToSet(e[1]) = ParentNames(g, m) \cup ToSet(Tail(t)) /\ e[2] = q[2] \cup {m}
  <2>1. Parents(g, m) \in Seq(N) /\ ToSet(Parents(g, m)) = ParentNames(g, m)
    BY ParentsAre
  <2>2. e[1] = Parents(g, m) \o Tail(t) /\ e[2] = q[2] \cup {m}
    OBVIOUS
  <2> DEFINE a == Parents(g, m)
             b == Tail(t)
  <2>3. a \in Seq(N) /\ b \in Seq(N)
    BY <1>2, <2>1
  <2> HIDE DEF N, a, b, e
  <2>4. a \o b \in Seq(N) /\ ToSet(a \o b) = ToSet(a) \cup ToSet(b)
    BY <2>3, JoinedSet
  <2> QED BY <2>1, <2>2, <2>4 DEF a, b
<1>5. e \in Seq(N) \X SUBSET N
  <2>1. e = <<e[1], e[2]>>
    OBVIOUS
  <2>2. e[2] \in SUBSET N
    BY <1>1, <1>2, <1>4
  <2> HIDE DEF N, e
  <2> QED BY <1>4, <2>1, <2>2
<1>6. m \notin q[2] => Unseen(N, e) < Unseen(N, q)
  <2>1. q[2] \subseteq q[2] \cup {m} /\ m \in q[2] \cup {m} /\ q[2] \cup {m} \in SUBSET N
    BY <1>1, <1>2
  <2> HIDE DEF N, m, e
  <2> QED BY <1>1, <1>4, <2>1, UnseenFalls DEF Unseen, N
<1> QED BY <1>2, <1>4, <1>5, <1>6

\* The visit is a function of what is to be looked at and what was seen.
LEMMA VisitIs ==
  ASSUME NEW g, IsFiniteSet(Names(g))
  PROVE  \E f : /\ \A model : ModelIsComplete(g, model) = f[<<<<model>>, {}>>]
                /\ \A q \in Seq(Names(g)) \X SUBSET Names(g) : f[q] = CompleteAt(f, g, q)
<1> DEFINE N == Names(g)
           D == Seq(N) \X SUBSET N
           V == BOOLEAN
           Body(f, d) == CompleteAt(f, g, d)
           F == [D -> V]
           step == [x \in F \X D |-> Body(x[1], x[2])]
           start == [d \in D |-> FALSE]
           rank == [d \in D |-> Unseen(N, d)]
           G == CHOOSE f : f = [d \in D |-> Body(f, d)]
<1>1. Cardinality(N) \in Nat /\ rank \in [D -> 0..Cardinality(N)]
  <2>1. Cardinality(N) \in Nat
    BY FS_CardinalityType
  <2>2. \A d \in D : Unseen(N, d) \in 0..Cardinality(N)
    BY UnseenFalls DEF Unseen
  <2> QED BY <2>1, <2>2
<1>2. ASSUME NEW f \in F, NEW d \in D PROVE Body(f, d) \in V
  BY Zenon DEF CompleteAt
<1>3. step \in [F \X D -> V] /\ \A f \in F, d \in D : step[<<f, d>>] = Body(f, d)
  <2> HIDE DEF D, V, F, Body
  <2> QED BY <1>2
<1>4. start \in F
  OBVIOUS
<1>5. ASSUME NEW f, NEW h, NEW d \in D, \A e \in D : rank[e] < rank[d] => f[e] = h[e]
      PROVE  Body(f, d) = Body(h, d)
  <2> DEFINE m == Head(d[1])
             e == <<Parents(g, m) \o Tail(d[1]), d[2] \cup {m}>>
  <2>1. ASSUME d[1] # <<>>, m \notin d[2] PROVE f[e] = h[e]
    <3>1. e \in D /\ Unseen(N, e) < Unseen(N, d)
      BY <2>1, NextVisit
    <3>2. rank[e] = Unseen(N, e) /\ rank[d] = Unseen(N, d)
      BY <3>1
    <3> HIDE DEF e, D, rank
    <3> QED BY <1>5, <3>1, <3>2
  <2> HIDE DEF D, N
  <2> QED BY <2>1 DEF CompleteAt
<1>6. Local(step, D, V, rank)
  <2> SUFFICES ASSUME NEW f \in F, NEW h \in F, NEW d \in D, \A e \in D : rank[e] < rank[d] => f[e] = h[e]
               PROVE  step[<<f, d>>] = step[<<h, d>>]
    BY DEF Local
  <2> HIDE DEF D, F, V, Body, step, rank
  <2>1. Body(f, d) = Body(h, d)
    BY <1>5
  <2> QED BY <1>3, <2>1
<1>7. PICK f \in F : \A d \in D : f[d] = step[<<f, d>>]
  <2>1. F = [D -> V]
    OBVIOUS
  <2> HIDE DEF D, V, N, step, start, F, rank
  <2>2. \E f \in F : Solves(f, step, D)
    BY <1>1, <1>3, <1>4, <1>6, <2>1, RankRecursion
  <2> QED BY <2>2 DEF Solves
<1>8. f = [d \in D |-> Body(f, d)]
  <2>1. \A d \in D : f[d] = Body(f, d)
    <3> HIDE DEF step, D, F, V, Body
    <3> QED BY <1>3, <1>7
  <2>2. f = [d \in D |-> f[d]]
    OBVIOUS
  <2> HIDE DEF Body, D
  <2> QED BY <2>1, <2>2
<1>9. G = [d \in D |-> Body(G, d)]
  <2> HIDE DEF Body, D
  <2> QED BY <1>8
<1>10. \A model : ModelIsComplete(g, model) = G[<<<<model>>, {}>>]
  BY DEF ModelIsComplete, G, CompleteAt
<1>11. \A d \in D : G[d] = Body(G, d)
  <2> HIDE DEF Body, D, G
  <2> QED BY <1>9
<1> HIDE DEF G
<1> QED BY <1>10, <1>11

\* The models in s say all they have, and so do those they lead on to.
SaysAllBelow(g, s) == \A m \in s : SaysItAll(g, m) /\ ParentNames(g, m) \subseteq s

\* A complete model is in such a set.
LEMMA CompleteMeans ==
  ASSUME NEW g, IsFiniteSet(Names(g)), NEW model \in Names(g), ModelIsComplete(g, model)
  PROVE  \E s \in SUBSET Names(g) : model \in s /\ SaysAllBelow(g, s)
<1> DEFINE N == Names(g)
           D == Seq(N) \X SUBSET N
           rank == [d \in D |-> Unseen(N, d)]
<1>1. PICK f : /\ ModelIsComplete(g, model) = f[<<<<model>>, {}>>]
               /\ \A q \in Seq(Names(g)) \X SUBSET Names(g) : f[q] = CompleteAt(f, g, q)
  BY VisitIs
<1> DEFINE P == {d \in D : f[d] => \E s \in SUBSET N : ToSet(d[1]) \subseteq s /\ SaysAllBelow(g, s)}
<1>2. ASSUME NEW d \in D, \A e \in D : rank[e] < rank[d] => e \in P PROVE d \in P
  <2> SUFFICES ASSUME f[d] PROVE \E s \in SUBSET N : ToSet(d[1]) \subseteq s /\ SaysAllBelow(g, s)
    OBVIOUS
  <2>1. CompleteAt(f, g, d)
    BY <1>1
  <2>2. CASE d[1] = <<>>
    <3>1. ToSet(d[1]) \subseteq {}
      BY <2>2 DEF ToSet
    <3>2. SaysAllBelow(g, {}) /\ {} \in SUBSET N
      BY DEF SaysAllBelow
    <3> QED BY <3>1, <3>2
  <2>3. CASE d[1] # <<>>
    <3> DEFINE m == Head(d[1])
               e == <<Parents(g, m) \o Tail(d[1]), d[2] \cup {m}>>
    <3>1. m \notin d[2] /\ SaysItAll(g, m) /\ f[e]
      BY <2>1, <2>3 DEF CompleteAt
    <3>2. /\ m \in N /\ e \in D /\ Unseen(N, e) < Unseen(N, d)
          /\ ToSet(e[1]) = ParentNames(g, m) \cup ToSet(Tail(d[1])) /\ ToSet(d[1]) = {m} \cup ToSet(Tail(d[1]))
      BY <2>3, <3>1, NextVisit
    <3>3. rank[e] = Unseen(N, e) /\ rank[d] = Unseen(N, d)
      BY <3>2
    <3>4. e \in P
      <4> HIDE DEF rank, P, e, D
      <4> QED BY <1>2, <3>2, <3>3
    <3>5. PICK s \in SUBSET N : ToSet(e[1]) \subseteq s /\ SaysAllBelow(g, s)
      <4> HIDE DEF e
      <4> QED BY <3>1, <3>4
    <3> HIDE DEF m, e, N
    <3>6. s \cup {m} \in SUBSET N /\ ToSet(d[1]) \subseteq s \cup {m} /\ SaysAllBelow(g, s \cup {m})
      BY <3>1, <3>2, <3>5 DEF SaysAllBelow
    <3> QED BY <3>6
  <2> QED BY <2>2, <2>3
<1>3. D \subseteq P
  <2>1. rank \in [D -> Nat]
    <3>1. \A d \in D : Unseen(N, d) \in Nat
      <4>1. Cardinality(N) \in Nat
        BY FS_CardinalityType
      <4>2. \A d \in D : Unseen(N, d) \in 0..Cardinality(N)
        BY UnseenFalls DEF Unseen
      <4> QED BY <4>1, <4>2
    <3> QED BY <3>1
  <2> HIDE DEF D, P, rank
  <2> QED BY <1>2, <2>1, RankInduction
<1> DEFINE all == <<<<model>>, {}>>
<1>4. all \in D /\ all[1] = <<model>> /\ f[all]
  <2>1. <<model>> \in Seq(N) /\ {} \in SUBSET N
    OBVIOUS
  <2>2. all \in D /\ all[1] = <<model>>
    BY <2>1
  <2>3. f[all]
    BY <1>1
  <2> QED BY <2>2, <2>3
<1>5. PICK s \in SUBSET N : ToSet(all[1]) \subseteq s /\ SaysAllBelow(g, s)
  <2> HIDE DEF all, D
  <2> QED BY <1>3, <1>4
<1>6. model \in ToSet(<<model>>)
  <2>1. <<model>>[1] = model /\ 1 \in DOMAIN <<model>>
    OBVIOUS
  <2> QED BY <2>1 DEF ToSet
<1>7. model \in s
  <2> HIDE DEF all
  <2> QED BY <1>4, <1>5, <1>6
<1> QED BY <1>5, <1>7

\* The models of T lack the member, and lead on only to models of T or to what was seen.
Missing(g, kind, member, q, T) ==
  /\ q[1] \in T
  /\ \A m \in T : ~HasItself(g, kind, m, member) /\ ParentNames(g, m) \subseteq T \cup q[2] \cup {q[1]}

\* A parent that is passed over was seen before q's model, or was looked at earlier.
LEMMA ParentIsTried ==
  ASSUME NEW g, IsFiniteSet(Names(g)), NEW q \in Names(g) \X SUBSET Names(g), NEW p \in ParentNames(g, q[1])
  PROVE  \/ p \in q[2] \cup {q[1]}
         \/ \E i \in DOMAIN Parents(g, q[1]) : Parents(g, q[1])[i] = p /\ p \notin BeforeParent(g, q, i)
<1> DEFINE ps == Parents(g, q[1])
           places == {i \in DOMAIN ps : ps[i] = p}
<1>1. ps \in Seq(Names(g)) /\ ToSet(ps) = ParentNames(g, q[1])
  BY ParentsAre
<1>2. DOMAIN ps = 1..Len(ps) /\ Len(ps) \in Nat
  <2> HIDE DEF ps
  <2> QED BY <1>1
<1>3. places # {} /\ places \in SUBSET Nat
  <2> HIDE DEF ps
  <2> QED BY <1>1, <1>2 DEF ToSet
<1>4. PICK i \in places : \A k \in places : i <= k
  <2> HIDE DEF places
  <2> QED BY <1>3, LeastNat
<1>5. ASSUME NEW k \in 1..(i - 1) PROVE ps[k] # p
  <2>1. k \in DOMAIN ps /\ ~(i <= k)
    <3>1. i \in 1..Len(ps)
      BY <1>2
    <3> HIDE DEF ps
    <3> QED BY <1>2, <3>1
  <2> QED BY <1>4, <2>1
<1>6. p \in BeforeParent(g, q, i) => p \in q[2] \cup {q[1]}
  BY <1>5 DEF BeforeParent
<1> QED BY <1>6

\* A search that finds nothing leaves such a set.
LEMMA SearchMisses ==
  ASSUME NEW g, IsFiniteSet(Names(g)), NEW kind, NEW member, NEW model \in Names(g),
         ~Found(g, kind, model, member)
  PROVE  \E s \in SUBSET Names(g) :
           model \in s /\ \A m \in s : ~HasItself(g, kind, m, member) /\ ParentNames(g, m) \subseteq s
<1> DEFINE N == Names(g)
           D == N \X SUBSET N
           rank == [d \in D |-> Unseen(N, d)]
<1>1. PICK f : /\ \A x : Found(g, kind, x, member) = f[<<x, {}>>]
               /\ \A q \in Names(g) \X SUBSET Names(g) : f[q] = FoundAt(f, g, kind, member, q)
  BY SearchIs
<1> DEFINE P == {d \in D : ~f[d] => \E T \in SUBSET N : Missing(g, kind, member, d, T)}
<1>2. ASSUME NEW d \in D, \A e \in D : rank[e] < rank[d] => e \in P PROVE d \in P
  <2> SUFFICES ASSUME ~f[d] PROVE \E T \in SUBSET N : Missing(g, kind, member, d, T)
    OBVIOUS
  <2> DEFINE ps == Parents(g, d[1])
             e(i) == <<ps[i], BeforeParent(g, d, i) \cup {ps[i]}>>
             tried == {i \in DOMAIN ps : ps[i] \notin BeforeParent(g, d, i)}
             below == {T \in SUBSET N : \E i \in tried : Missing(g, kind, member, e(i), T)}
             R == {d[1]} \cup UNION below
  <2>1. ~FoundAt(f, g, kind, member, d)
    BY <1>1
  <2>2. ~HasItself(g, kind, d[1], member) /\ \A i \in tried : ~f[e(i)]
    BY <2>1 DEF FoundAt
  <2>3. ASSUME NEW i \in tried PROVE \E T \in below : Missing(g, kind, member, e(i), T)
    <3>1. e(i) \in D /\ Unseen(N, e(i)) < Unseen(N, d)
      BY NextSearch
    <3>2. rank[e(i)] = Unseen(N, e(i)) /\ rank[d] = Unseen(N, d)
      BY <3>1
    <3>3. e(i) \in P
      <4> HIDE DEF rank, P, e, D
      <4> QED BY <1>2, <3>1, <3>2
    <3>4. \E T \in SUBSET N : Missing(g, kind, member, e(i), T)
      <4> HIDE DEF e
      <4> QED BY <2>2, <3>3
    <3> HIDE DEF e, tried
    <3> QED BY <3>4
  <2>4. \A i \in tried : ps[i] \in R
    <3>1. ASSUME NEW i \in tried PROVE ps[i] \in R
      <4>1. PICK T \in below : Missing(g, kind, member, e(i), T)
        BY <2>3
      <4>2. ps[i] \in T
        BY <4>1 DEF Missing
      <4> HIDE DEF below
      <4> QED BY <4>2
    <3> QED BY <3>1
  <2>5. ParentNames(g, d[1]) \subseteq R \cup d[2] \cup {d[1]}
    <3>1. ASSUME NEW p \in ParentNames(g, d[1]) PROVE p \in R \cup d[2] \cup {d[1]}
      <4>1. p \in d[2] \cup {d[1]} \/ \E i \in tried : ps[i] = p
        BY ParentIsTried
      <4> HIDE DEF R, tried, ps
      <4> QED BY <2>4, <4>1
    <3> QED BY <3>1
  <2>6. ASSUME NEW T \in below, NEW m \in T
        PROVE  ~HasItself(g, kind, m, member) /\ ParentNames(g, m) \subseteq R \cup d[2] \cup {d[1]}
    <3>1. PICK i \in tried : Missing(g, kind, member, e(i), T)
      OBVIOUS
    <3>2. ~HasItself(g, kind, m, member) /\ ParentNames(g, m) \subseteq T \cup BeforeParent(g, d, i) \cup {ps[i]}
      BY <3>1 DEF Missing
    <3>3. T \subseteq R /\ ps[i] \in R
      BY <2>4
    <3>4. BeforeParent(g, d, i) \subseteq R \cup d[2] \cup {d[1]}
      <4>1. \A k \in 1..(i - 1) : ps[k] \in ParentNames(g, d[1])
        <5>1. ps \in Seq(N) /\ ToSet(ps) = ParentNames(g, d[1])
          BY ParentsAre
        <5>2. \A k \in 1..(i - 1) : k \in DOMAIN ps
          <6>1. i \in DOMAIN ps /\ DOMAIN ps = 1..Len(ps) /\ Len(ps) \in Nat
            <7>1. i \in DOMAIN ps
              OBVIOUS
            <7> HIDE DEF ps, N
            <7> QED BY <5>1, <7>1
          <6> HIDE DEF ps
          <6> QED BY <6>1
        <5> HIDE DEF ps
        <5> QED BY <5>1, <5>2 DEF ToSet
      <4> HIDE DEF R
      <4> QED BY <2>5, <4>1 DEF BeforeParent
    <3> HIDE DEF R, ps, below, tried
    <3> QED BY <3>2, <3>3, <3>4
  <2>7. R \in SUBSET N
    OBVIOUS
  <2>8. Missing(g, kind, member, d, R)
    <3>1. ASSUME NEW m \in R
          PROVE  ~HasItself(g, kind, m, member) /\ ParentNames(g, m) \subseteq R \cup d[2] \cup {d[1]}
      <4>1. m = d[1] \/ \E T \in below : m \in T
        OBVIOUS
      <4> HIDE DEF R, below
      <4> QED BY <2>2, <2>5, <2>6, <4>1
    <3>2. d[1] \in R
      OBVIOUS
    <3> HIDE DEF R
    <3> QED BY <3>1, <3>2 DEF Missing
  <2> QED BY <2>7, <2>8
<1>3. D \subseteq P
  <2>1. rank \in [D -> Nat]
    <3>1. \A d \in D : Unseen(N, d) \in Nat
      <4>1. Cardinality(N) \in Nat
        BY FS_CardinalityType
      <4>2. \A d \in D : Unseen(N, d) \in 0..Cardinality(N)
        BY UnseenFalls DEF Unseen
      <4> QED BY <4>1, <4>2
    <3> QED BY <3>1
  <2> HIDE DEF D, P, rank
  <2> QED BY <1>2, <2>1, RankInduction
<1> DEFINE all == <<model, {}>>
<1>4. all \in D /\ ~f[all]
  BY <1>1
<1>5. PICK T \in SUBSET N : Missing(g, kind, member, all, T)
  <2> HIDE DEF all, D
  <2> QED BY <1>3, <1>4
<1>6. model \in T /\ \A m \in T : ~HasItself(g, kind, m, member) /\ ParentNames(g, m) \subseteq T
  <2>1. all[1] = model /\ all[2] = {}
    OBVIOUS
  <2> HIDE DEF all
  <2> QED BY <1>5, <2>1 DEF Missing
<1> QED BY <1>6
\* All there is of a model in an addon.
MadeFrom(e, S) ==
  /\ DOMAIN e = EntryFields
  /\ e.inherit = UNION {ToSet(c.inherit) \ {"?"} : c \in S}
  /\ e.inherits = UNION {c.delegates \ {"?"} : c \in S}
  /\ (\E c \in S : "?" \in ParentsOf(c)) => e.unresolved
  /\ \A kind \in Kinds : e.members[kind] = UNION {c.members[kind] : c \in S}

\* The classes of an addon that are of a model make its entry there.
LEMMA EntryHolds ==
  ASSUME NEW addon, addon.classes \in Seq(ModelClass), NEW key \in DOMAIN AddonModels(addon)
  PROVE  /\ MadeFrom(AddonModels(addon)[key], {addon.classes[k] : k \in Of(addon, key)})
         /\ AddonModels(addon)[key].name \in {"", key}
<1> DEFINE D == Declared(addon, key)
           S == {addon.classes[k] : k \in Of(addon, key)}
           e == AddonModels(addon)[key]
<1>1. e = MergeDeclarations(D)
  BY DEF AddonModels
<1>2. DOMAIN D = Of(addon, key) /\ \A i \in DOMAIN D : D[i] = ExtractModel(addon.classes[i], addon.name)
  BY DEF Declared, Of
<1>3. DOMAIN D # {} /\ DOMAIN D \in SUBSET Nat
  <2>1. DOMAIN addon.classes \in SUBSET Nat
    OBVIOUS
  <2> QED BY <1>2, <2>1 DEF AddonModels, Of
<1>4. \A c : /\ DOMAIN ExtractModel(c, addon.name) = EntryFields
             /\ ExtractModel(c, addon.name).inherit = ToSet(c.inherit) \ {"?"}
             /\ ExtractModel(c, addon.name).inherits = c.delegates \ {"?"}
             /\ ExtractModel(c, addon.name).unresolved = ("?" \in ParentsOf(c))
             /\ ExtractModel(c, addon.name).members = c.members
  BY DEF ExtractModel, EntryFields, ParentsOf
<1>5. DOMAIN Leading(D) = EntryFields
  <2> HIDE DEF D
  <2>1. PICK i \in DOMAIN D : Leading(D) = D[i]
    BY <1>3, LeadingIs
  <2> QED BY <1>2, <1>4, <2>1
<1>6. /\ DOMAIN e = EntryFields
      /\ e.inherit = UNION {D[k].inherit : k \in DOMAIN D}
      /\ e.inherits = UNION {D[k].inherits : k \in DOMAIN D}
      /\ e.unresolved = \E k \in DOMAIN D : D[k].unresolved
      /\ e.members = [kind \in Kinds |-> UNION {D[k].members[kind] : k \in DOMAIN D}]
  <2> HIDE DEF D, e
  <2> QED BY <1>1, <1>5, MergedIs
<1>7. \A k \in DOMAIN D : D[k].inherit = ToSet(addon.classes[k].inherit) \ {"?"} /\ D[k].inherits = addon.classes[k].delegates \ {"?"}
                           /\ D[k].members = addon.classes[k].members
  <2> HIDE DEF D
  <2> QED BY <1>2, <1>4
<1>8. e.inherit = UNION {ToSet(c.inherit) \ {"?"} : c \in S}
  <2> HIDE DEF D, e
  <2>1. ASSUME NEW x \in e.inherit PROVE \E c \in S : x \in ToSet(c.inherit) \ {"?"}
    <3>1. PICK k \in DOMAIN D : x \in D[k].inherit
      BY <1>6
    <3> QED BY <1>7, <1>2, <3>1
  <2>2. ASSUME NEW c \in S, NEW x \in ToSet(c.inherit) \ {"?"} PROVE x \in e.inherit
    <3>1. PICK k \in Of(addon, key) : c = addon.classes[k]
      OBVIOUS
    <3>2. x \in D[k].inherit /\ k \in DOMAIN D
      BY <1>7, <1>2, <3>1
    <3> QED BY <1>6, <3>2
  <2> QED BY <2>1, <2>2
<1>9. e.inherits = UNION {c.delegates \ {"?"} : c \in S}
  <2> HIDE DEF D, e
  <2>1. ASSUME NEW x \in e.inherits PROVE \E c \in S : x \in c.delegates \ {"?"}
    <3>1. PICK k \in DOMAIN D : x \in D[k].inherits
      BY <1>6
    <3> QED BY <1>7, <1>2, <3>1
  <2>2. ASSUME NEW c \in S, NEW x \in c.delegates \ {"?"} PROVE x \in e.inherits
    <3>1. PICK k \in Of(addon, key) : c = addon.classes[k]
      OBVIOUS
    <3>2. x \in D[k].inherits /\ k \in DOMAIN D
      BY <1>7, <1>2, <3>1
    <3> QED BY <1>6, <3>2
  <2> QED BY <2>1, <2>2
<1>10. (\E c \in S : "?" \in ParentsOf(c)) => e.unresolved
  <2> HIDE DEF D, e
  <2> QED BY <1>2, <1>4, <1>6
<1>11. ASSUME NEW kind \in Kinds PROVE e.members[kind] = UNION {c.members[kind] : c \in S}
  <2>1. {D[k].members[kind] : k \in DOMAIN D} = {c.members[kind] : c \in S}
    <3> HIDE DEF D, e
    <3> QED BY <1>2, <1>7
  <2> QED BY <1>6, <2>1
<1>12. e.name \in {"", key}
  <2>1. PICK i \in Of(addon, key) : MadeOf(addon, key, i)
    BY EntryIs
  <2>2. e.name = (IF addon.classes[i].name = "?" THEN "" ELSE addon.classes[i].name) /\ ModelKey(addon.classes[i]) = key
    BY <2>1 DEF MadeOf, TakenFrom, Of
  <2> HIDE DEF e
  <2> QED BY <2>2, NamedKey
<1> QED BY <1>6, <1>8, <1>9, <1>10, <1>11, <1>12 DEF MadeFrom

\* The classes of the project are the parsed ones.
Whole(project) ==
  DOMAIN project \in SUBSET Nat /\ \A i \in DOMAIN project : project[i].classes \in Seq(ModelClass)

\* The entries of a model in the addons that have one.
InAddons(project, key) ==
  [i \in {j \in DOMAIN project : key \in DOMAIN AddonModels(project[j])} |-> AddonModels(project[i])[key]]

\* An entry of the graph has what those entries have: what names the model, and what extends it.
JoinedFrom(e, key, In) ==
  /\ e.inherit \subseteq UNION {In[i].inherit : i \in DOMAIN In}
  /\ UNION {In[i].inherit : i \in DOMAIN In} \subseteq e.inherit \cup {key}
  /\ e.inherits = UNION {In[i].inherits : i \in DOMAIN In}
  /\ (\E i \in DOMAIN In : In[i].unresolved) => e.unresolved
  /\ \A kind \in Kinds :
       e.members[kind] = UNION {In[i].members[kind] : i \in {j \in DOMAIN In : In[j].name # ""}}

\* All there is of a model in the graph.
LEMMA GraphHolds ==
  ASSUME NEW project, NEW stubs, Whole(project), NEW key \in DOMAIN BuildGraph(project, stubs).models
  PROVE  JoinedFrom(BuildGraph(project, stubs).models[key], key, InAddons(project, key))
<1> DEFINE parsed == [i \in DOMAIN project |-> AddonModels(project[i])]
           L == Entries(parsed, key, TRUE)
           X == Entries(parsed, key, FALSE)
           m == MergeDeclarations(L)
           In == InAddons(project, key)
           S == DOMAIN In
           named == {i \in S : In[i].name # ""}
           e == BuildGraph(project, stubs).models[key]
<1>1. /\ S = {i \in DOMAIN project : key \in DOMAIN AddonModels(project[i])}
      /\ \A i \in S : In[i] = AddonModels(project[i])[key]
  BY DEF InAddons
<1>2. DOMAIN L # {} /\ e = WithExtensionParents(m, X)
  BY DEF BuildGraph
<1>3. DOMAIN L = named /\ \A i \in named : L[i] = In[i]
  BY <1>1 DEF Entries
<1>4. DOMAIN X = S \ named /\ \A i \in S \ named : X[i] = In[i]
  BY <1>1 DEF Entries
<1>5. \A i \in S : DOMAIN In[i] = EntryFields /\ In[i].name \in {"", key}
  <2> SUFFICES ASSUME NEW i \in S PROVE DOMAIN In[i] = EntryFields /\ In[i].name \in {"", key}
    OBVIOUS
  <2> DEFINE C == {project[i].classes[k] : k \in Of(project[i], key)}
  <2>1. MadeFrom(In[i], C) /\ In[i].name \in {"", key}
    BY <1>1, EntryHolds DEF Whole
  <2> HIDE DEF C, In, S
  <2> QED BY <2>1 DEF MadeFrom
<1>6. named \in SUBSET Nat /\ named \subseteq S
  BY <1>1 DEF Whole
<1> HIDE DEF L, X, S, In, e
<1>7. PICK i \in named : Leading(L) = In[i]
  <2>1. DOMAIN L \in SUBSET Nat
    BY <1>3, <1>6
  <2>2. PICK i \in DOMAIN L : Leading(L) = L[i]
    BY <1>2, <2>1, LeadingIs
  <2> HIDE DEF named
  <2> QED BY <1>3, <2>2
<1>8. DOMAIN Leading(L) = EntryFields /\ Leading(L).name = key
  BY <1>5, <1>7
<1> HIDE DEF named
<1>9. /\ DOMAIN m = EntryFields /\ m.name = key
      /\ m.inherit = UNION {L[k].inherit : k \in DOMAIN L}
      /\ m.inherits = UNION {L[k].inherits : k \in DOMAIN L}
      /\ m.unresolved = \E k \in DOMAIN L : L[k].unresolved
      /\ m.members = [kind \in Kinds |-> UNION {L[k].members[kind] : k \in DOMAIN L}]
  BY <1>8, MergedIs
<1> HIDE DEF m
<1>10. /\ e.inherit = m.inherit \cup ((UNION {X[k].inherit : k \in DOMAIN X}) \ {key})
      /\ e.inherits = m.inherits \cup UNION {X[k].inherits : k \in DOMAIN X}
      /\ e.unresolved = (m.unresolved \/ \E k \in DOMAIN X : X[k].unresolved)
      /\ e.members = m.members
  BY <1>2, <1>9 DEF WithExtensionParents, AddedParents, EntryFields
<1>11. S = DOMAIN L \cup DOMAIN X /\ (\A k \in DOMAIN L : L[k] = In[k]) /\ \A k \in DOMAIN X : X[k] = In[k]
  BY <1>3, <1>4, <1>6
<1>12. UNION {In[k].inherit : k \in S} = (UNION {L[k].inherit : k \in DOMAIN L}) \cup (UNION {X[k].inherit : k \in DOMAIN X})
  <2>1. {In[k].inherit : k \in S} = {L[k].inherit : k \in DOMAIN L} \cup {X[k].inherit : k \in DOMAIN X}
    BY <1>11
  <2> QED BY <2>1
<1>13. UNION {In[k].inherits : k \in S} = (UNION {L[k].inherits : k \in DOMAIN L}) \cup (UNION {X[k].inherits : k \in DOMAIN X})
  <2>1. {In[k].inherits : k \in S} = {L[k].inherits : k \in DOMAIN L} \cup {X[k].inherits : k \in DOMAIN X}
    BY <1>11
  <2> QED BY <2>1
<1>14. (\E k \in S : In[k].unresolved) => e.unresolved
  BY <1>9, <1>10, <1>11
<1>15. ASSUME NEW kind \in Kinds PROVE e.members[kind] = UNION {In[k].members[kind] : k \in named}
  <2>1. {L[k].members[kind] : k \in DOMAIN L} = {In[k].members[kind] : k \in named}
    BY <1>3
  <2> QED BY <1>9, <1>10, <2>1
<1>16. e.inherit \subseteq UNION {In[k].inherit : k \in S} /\ UNION {In[k].inherit : k \in S} \subseteq e.inherit \cup {key}
  BY <1>9, <1>10, <1>12
<1>17. e.inherits = UNION {In[k].inherits : k \in S}
  BY <1>9, <1>10, <1>13
<1>18. JoinedFrom(e, key, In)
  BY <1>14, <1>15, <1>16, <1>17 DEF S, named, JoinedFrom
<1> QED BY <1>18 DEF e, In

\* What a class of the project brings to the graph.
LEMMA ClassIsKept ==
  ASSUME NEW project, NEW stubs, Whole(project), NEW c \in Classes(project), ModelKey(c) # ""
  PROVE  LET g == BuildGraph(project, stubs)
             key == ModelKey(c)
         IN /\ key \in DOMAIN g.extended
            /\ \A kind \in Kinds : \A member \in c.members[kind] : HasItself(g, kind, key, member)
            /\ key \in DOMAIN g.models =>
                 /\ ParentsOf(c) \subseteq ParentNames(g, key) \cup {key, "?"}
                 /\ "?" \in ParentsOf(c) => g.models[key].unresolved
<1> DEFINE g == BuildGraph(project, stubs)
           key == ModelKey(c)
           In == InAddons(project, key)
           S == DOMAIN In
           named == {i \in S : In[i].name # ""}
           parsed == [i \in DOMAIN project |-> AddonModels(project[i])]
<1>1. PICK i \in DOMAIN project : c \in ToSet(project[i].classes)
  BY DEF Classes
<1>2. PICK k \in DOMAIN project[i].classes : c = project[i].classes[k]
  BY <1>1 DEF ToSet
<1>3. k \in Of(project[i], key) /\ key \in DOMAIN AddonModels(project[i])
       /\ i \in S /\ In[i] = AddonModels(project[i])[key]
  BY <1>2 DEF Of, AddonModels, InAddons
<1>4. MadeFrom(In[i], {project[i].classes[l] : l \in Of(project[i], key)})
  BY <1>3, EntryHolds DEF Whole
<1>5. /\ ToSet(c.inherit) \ {"?"} \subseteq In[i].inherit /\ c.delegates \ {"?"} \subseteq In[i].inherits
      /\ "?" \in ParentsOf(c) => In[i].unresolved
      /\ \A kind \in Kinds : c.members[kind] \subseteq In[i].members[kind]
  <2> HIDE DEF In
  <2>1. c \in {project[i].classes[l] : l \in Of(project[i], key)}
    BY <1>2, <1>3
  <2> DEFINE C == {project[i].classes[l] : l \in Of(project[i], key)}
  <2>2. c \in C /\ MadeFrom(In[i], C)
    BY <1>4, <2>1
  <2> HIDE DEF C
  <2>3. ToSet(c.inherit) \ {"?"} \subseteq In[i].inherit
    BY <2>2 DEF MadeFrom
  <2>4. c.delegates \ {"?"} \subseteq In[i].inherits
    BY <2>2 DEF MadeFrom
  <2>5. "?" \in ParentsOf(c) => In[i].unresolved
    BY <2>2 DEF MadeFrom
  <2>6. ASSUME NEW kind \in Kinds PROVE c.members[kind] \subseteq In[i].members[kind]
    <3>1. In[i].members[kind] = UNION {d.members[kind] : d \in C}
      BY <2>2 DEF MadeFrom
    <3>2. c.members[kind] \in {d.members[kind] : d \in C}
      BY <2>2
    <3> QED BY <3>1, <3>2
  <2> QED BY <2>3, <2>4, <2>5, <2>6
<1>6. key \in UNION {DOMAIN parsed[j] : j \in DOMAIN parsed}
  BY <1>3
<1>7. key \in DOMAIN g.extended
  BY <1>6 DEF BuildGraph
<1>8. ASSUME NEW kind \in Kinds, NEW member \in c.members[kind] PROVE HasItself(g, kind, key, member)
  <2>1. CASE In[i].name = ""
    <3> DEFINE only == Entries(parsed, key, FALSE)
    <3>1. g.extended[key][kind] = UNION {only[j].members[kind] : j \in DOMAIN only}
      BY <1>6 DEF BuildGraph
    <3>2. i \in DOMAIN only /\ only[i] = In[i]
      BY <1>3, <2>1 DEF Entries
    <3> HIDE DEF only, In
    <3>3. member \in g.extended[key][kind]
      BY <1>5, <3>1, <3>2
    <3> QED BY <1>7, <3>3 DEF HasItself
  <2>2. CASE In[i].name # ""
    <3>1. i \in DOMAIN Entries(parsed, key, TRUE)
      BY <1>3, <2>2 DEF Entries
    <3>2. key \in DOMAIN g.models
      BY <1>6, <3>1 DEF BuildGraph
    <3>3. JoinedFrom(g.models[key], key, In)
      BY <3>2, GraphHolds
    <3>4. i \in named
      BY <1>3, <2>2
    <3> HIDE DEF g, In
    <3>5. g.models[key].members[kind] = UNION {In[j].members[kind] : j \in named}
      BY <3>3 DEF JoinedFrom
    <3> HIDE DEF named
    <3>6. member \in g.models[key].members[kind]
      BY <1>5, <3>4, <3>5
    <3> QED BY <3>2, <3>6 DEF HasItself
  <2> QED BY <2>1, <2>2
<1>9. ASSUME key \in DOMAIN g.models
      PROVE  /\ ParentsOf(c) \subseteq ParentNames(g, key) \cup {key, "?"}
             /\ "?" \in ParentsOf(c) => g.models[key].unresolved
  <2>1. /\ UNION {In[j].inherit : j \in S} \subseteq g.models[key].inherit \cup {key}
        /\ g.models[key].inherits = UNION {In[j].inherits : j \in S}
        /\ (\E j \in S : In[j].unresolved) => g.models[key].unresolved
    <3>1. JoinedFrom(g.models[key], key, In)
      BY <1>9, GraphHolds
    <3> HIDE DEF g, In
    <3> QED BY <3>1 DEF JoinedFrom
  <2> HIDE DEF g, In, S
  <2>2. In[i].inherit \subseteq g.models[key].inherit \cup {key} /\ In[i].inherits \subseteq g.models[key].inherits
    BY <1>3, <2>1
  <2> QED BY <1>3, <1>5, <1>9, <2>1, <2>2 DEF ParentNames, ParentsOf
<1> QED BY <1>7, <1>8, <1>9

\* What is taken from the places of a finite set is finite.
LEMMA TakenIsFinite ==
  ASSUME NEW f, IsFiniteSet(DOMAIN f)
  PROVE  IsFiniteSet({f[x] : x \in DOMAIN f})
<1> DEFINE h == [x \in DOMAIN f |-> f[x]]
<1>1. h \in Surjection(DOMAIN f, {f[x] : x \in DOMAIN f})
  BY DEF Surjection
<1> QED BY <1>1, FS_Surjection

\* A sequence lists finitely many things.
LEMMA ListedIsFinite ==
  ASSUME NEW S, NEW s \in Seq(S)
  PROVE  IsFiniteSet(ToSet(s))
<1>1. DOMAIN s = 1..Len(s) /\ Len(s) \in Nat
  OBVIOUS
<1>2. IsFiniteSet(DOMAIN s)
  BY <1>1, FS_Interval
<1> QED BY <1>2, TakenIsFinite DEF ToSet

\* A project has finitely many classes, each with finitely many parents.
LEMMA ClassesAreFinite ==
  ASSUME NEW project, NEW stubs, ProjectIsWhole(project, stubs)
  PROVE  /\ Whole(project) /\ IsFiniteSet(Classes(project))
         /\ \A c \in Classes(project) : c \in ModelClass /\ IsFiniteSet(ParentsOf(c))
<1>1. project \in Seq([name : STRING, classes : Seq(ModelClass)])
  BY DEF ProjectIsWhole
<1>2. DOMAIN project = 1..Len(project) /\ Len(project) \in Nat
  BY <1>1
<1>3. \A i \in DOMAIN project : project[i].classes \in Seq(ModelClass)
  <2> DEFINE A == [name : STRING, classes : Seq(ModelClass)]
  <2>1. \A i \in DOMAIN project : project[i] \in A
    <3>1. project \in Seq(A)
      BY <1>1
    <3> HIDE DEF A
    <3> QED BY <1>2, <3>1
  <2> QED BY <2>1
<1>4. IsFiniteSet(Classes(project))
  <2> DEFINE f == [i \in DOMAIN project |-> ToSet(project[i].classes)]
  <2>1. IsFiniteSet(DOMAIN f)
    BY <1>2, FS_Interval
  <2>2. \A i \in DOMAIN f : IsFiniteSet(f[i])
    BY <1>3, ListedIsFinite
  <2>3. Classes(project) = UNION {f[i] : i \in DOMAIN f}
    BY DEF Classes
  <2> HIDE DEF f
  <2> QED BY <2>1, <2>2, <2>3, TakenIsFinite, FS_UNION
<1>5. \A c \in Classes(project) : c \in ModelClass
  <2> SUFFICES ASSUME NEW c \in Classes(project) PROVE c \in ModelClass
    OBVIOUS
  <2>1. PICK i \in DOMAIN project : c \in ToSet(project[i].classes)
    BY DEF Classes
  <2>2. PICK k \in DOMAIN project[i].classes : c = project[i].classes[k]
    BY <2>1 DEF ToSet
  <2> QED BY <1>3, <2>2
<1>6. ASSUME NEW c \in Classes(project) PROVE IsFiniteSet(ParentsOf(c))
  <2>1. c.inherit \in Seq(STRING)
    BY <1>5 DEF ModelClass
  <2>2. IsFiniteSet(ToSet(c.inherit)) /\ IsFiniteSet(c.delegates)
    BY <2>1, ListedIsFinite DEF ProjectIsWhole
  <2> QED BY <2>2, FS_Union DEF ParentsOf
<1>7. Whole(project)
  BY <1>2, <1>3 DEF Whole
<1> QED BY <1>4, <1>5, <1>6, <1>7

\* Every name the graph knows is that of a class, of a parent or of a stub.
LEMMA NamesAreFinite ==
  ASSUME NEW project, NEW stubs, ProjectIsWhole(project, stubs)
  PROVE  IsFiniteSet(Names(BuildGraph(project, stubs)))
<1> DEFINE g == BuildGraph(project, stubs)
           C == Classes(project)
           f == [c \in C |-> {ModelKey(c)} \cup ParentsOf(c)]
           A == UNION {f[c] : c \in C}
           parsed == [i \in DOMAIN project |-> AddonModels(project[i])]
           keys == UNION {DOMAIN parsed[i] : i \in DOMAIN parsed}
<1>1. Whole(project) /\ IsFiniteSet(C) /\ \A c \in C : c \in ModelClass /\ IsFiniteSet(ParentsOf(c))
  BY ClassesAreFinite
<1>2. IsFiniteSet(A)
  <2>1. DOMAIN f = C /\ \A c \in C : f[c] = {ModelKey(c)} \cup ParentsOf(c)
    OBVIOUS
  <2>2. \A c \in C : IsFiniteSet(f[c])
    BY <1>1, <2>1, FS_Singleton, FS_Union
  <2> HIDE DEF f, C
  <2> QED BY <1>1, <2>1, <2>2, TakenIsFinite, FS_UNION
<1>3. keys \subseteq A
  <2> SUFFICES ASSUME NEW i \in DOMAIN project, NEW key \in DOMAIN AddonModels(project[i]) PROVE key \in A
    OBVIOUS
  <2>1. PICK k \in DOMAIN project[i].classes : key = ModelKey(project[i].classes[k])
    BY DEF AddonModels
  <2>2. project[i].classes[k] \in C
    BY DEF Classes, ToSet
  <2> QED BY <2>1, <2>2
<1>4. DOMAIN g.models \subseteq keys /\ DOMAIN g.extended = keys /\ g.stubs = stubs
  BY DEF BuildGraph
<1>5. ASSUME NEW i \in DOMAIN project, NEW key \in DOMAIN AddonModels(project[i])
      PROVE  AddonModels(project[i])[key].inherit \cup AddonModels(project[i])[key].inherits \subseteq A
  <2> DEFINE S == {project[i].classes[k] : k \in Of(project[i], key)}
             e == AddonModels(project[i])[key]
  <2>1. MadeFrom(e, S)
    BY <1>1, EntryHolds DEF Whole
  <2>2. \A c \in S : c \in C /\ ParentsOf(c) \subseteq A
    BY DEF Of, Classes, ToSet
  <2> HIDE DEF e, S, A
  <2>3. ASSUME NEW x \in e.inherit PROVE x \in A
    <3>1. PICK c \in S : x \in ToSet(c.inherit) \ {"?"}
      BY <2>1 DEF MadeFrom
    <3> QED BY <2>2, <3>1 DEF ParentsOf
  <2>4. ASSUME NEW x \in e.inherits PROVE x \in A
    <3>1. PICK c \in S : x \in c.delegates \ {"?"}
      BY <2>1 DEF MadeFrom
    <3> QED BY <2>2, <3>1 DEF ParentsOf
  <2> QED BY <2>3, <2>4 DEF e
<1>6. ASSUME NEW key \in DOMAIN g.models PROVE g.models[key].inherit \cup g.models[key].inherits \subseteq A
  <2> DEFINE In == InAddons(project, key)
             e == g.models[key]
  <2>1. JoinedFrom(e, key, In)
    BY <1>1, GraphHolds
  <2>2. \A i \in DOMAIN In : In[i].inherit \cup In[i].inherits \subseteq A
    <3>1. \A i \in DOMAIN In : /\ i \in DOMAIN project /\ key \in DOMAIN AddonModels(project[i])
                               /\ In[i] = AddonModels(project[i])[key]
      BY DEF InAddons
    <3> HIDE DEF In, A
    <3> QED BY <1>5, <3>1
  <2> HIDE DEF In, e, A
  <2>3. e.inherit \subseteq UNION {In[i].inherit : i \in DOMAIN In} /\ e.inherits = UNION {In[i].inherits : i \in DOMAIN In}
    BY <2>1 DEF JoinedFrom
  <2>4. e.inherit \cup e.inherits \subseteq A
    BY <2>2, <2>3
  <2> QED BY <2>4 DEF e
<1>7. IsFiniteSet(DOMAIN stubs.models)
  BY DEF ProjectIsWhole
<1>8. Names(g) \in SUBSET (DOMAIN stubs.models \cup A)
  <2> HIDE DEF g, A, keys
  <2> QED BY <1>3, <1>4, <1>6 DEF Names
<1>9. IsFiniteSet(DOMAIN stubs.models \cup A)
  <2> HIDE DEF A
  <2> QED BY <1>2, <1>7, FS_Union
<1> HIDE DEF A, g
<1>10. IsFiniteSet(Names(g))
  BY <1>8, <1>9, FS_Subset
<1> QED BY <1>10 DEF g

\* A class of a model is known by its name.
LEMMA KeyOfClass ==
  ASSUME NEW project, NEW stubs, ProjectIsWhole(project, stubs),
         NEW m, m \notin {"", "?"}, NEW c \in ClassesOf(project, m)
  PROVE  ModelKey(c) = m
<1>1. c \in Classes(project) /\ (c.name = m \/ (c.name = "" /\ c.inherit # <<>> /\ Head(c.inherit) = m))
  BY DEF ClassesOf
<1>2. c.inherit \in Seq(STRING)
  <2>1. c \in ModelClass
    BY <1>1, ClassesAreFinite
  <2> QED BY <2>1 DEF ModelClass
<1>3. CASE c.name = m
  BY <1>3, NamedKey
<1>4. CASE c.name = "" /\ c.inherit # <<>> /\ Head(c.inherit) = m
  BY <1>2, <1>4, KeyIsFirst
<1> QED BY <1>1, <1>3, <1>4

\* What a search that ends, and misses the member, leaves: models that say all they have, lack the
\* member, and lead on only to such models.
Barren(g, kind, member, t) ==
  \A m \in t : SaysItAll(g, m) /\ ~HasItself(g, kind, m, member) /\ ParentNames(g, m) \subseteq t

\* What is called absent is missing below such models.
LEMMA AbsentIsBarren ==
  ASSUME NEW g, IsFiniteSet(Names(g)), NEW kind, NEW member, NEW model \in Names(g),
         Resolve(g, kind, model, member) = "not found"
  PROVE  member \notin g.unattributed /\ \E t : model \in t /\ Barren(g, kind, member, t)
<1>1. ~Found(g, kind, model, member) /\ member \notin g.unattributed /\ ModelIsComplete(g, model)
  BY DEF Resolve
<1>2. PICK r \in SUBSET Names(g) :
        model \in r /\ \A m \in r : ~HasItself(g, kind, m, member) /\ ParentNames(g, m) \subseteq r
  BY <1>1, SearchMisses
<1>3. PICK s \in SUBSET Names(g) : model \in s /\ SaysAllBelow(g, s)
  BY <1>1, CompleteMeans
<1>4. model \in r \cap s /\ Barren(g, kind, member, r \cap s)
  BY <1>2, <1>3 DEF Barren, SaysAllBelow
<1> QED BY <1>1, <1>4

\* Such a model is named by a class or described in full by a stub.
LEMMA BarrenIsKnown ==
  ASSUME NEW project, NEW stubs, ProjectIsWhole(project, stubs), NEW m, SaysItAll(BuildGraph(project, stubs), m)
  PROVE  LET g == BuildGraph(project, stubs)
         IN /\ m \notin {"", "?"} /\ m \in Mentioned(project, stubs)
            /\ m \in DOMAIN g.models => \E c \in Classes(project) : c.name = m
            /\ m \notin DOMAIN g.models => stubs.complete /\ m \in DOMAIN stubs.models
<1> DEFINE g == BuildGraph(project, stubs)
<1>1. g.stubs = stubs
  BY DEF BuildGraph
<1>2. CASE m \in DOMAIN g.models
  <2>1. Whole(project)
    BY ClassesAreFinite
  <2>2. PICK i \in DOMAIN project : \E c \in ToSet(project[i].classes) : c.name = m
    BY <1>2, <2>1, GraphModelIs DEF Whole
  <2>3. PICK c \in Classes(project) : c.name = m
    BY <2>2 DEF Classes
  <2>4. m \in Mentioned(project, stubs)
    BY <2>3 DEF Mentioned
  <2>5. m \notin {"", "?"}
    <3>1. PICK j \in DOMAIN project : m \in DOMAIN AddonModels(project[j]) /\ AddonModels(project[j])[m].name # ""
      BY <1>2 DEF BuildGraph, Entries
    <3>2. PICK k \in Of(project[j], m) : MadeOf(project[j], m, k)
      BY <2>1, <3>1, EntryIs DEF Whole
    <3>3. project[j].classes[k].name \notin {"", "?"} /\ ModelKey(project[j].classes[k]) = m
      <4> DEFINE class == project[j].classes[k]
                 e == AddonModels(project[j])[m]
      <4>1. e.name = (IF class.name = "?" THEN "" ELSE class.name) /\ ModelKey(class) = m
        BY <3>2 DEF MadeOf, TakenFrom, Of
      <4> HIDE DEF class, e
      <4>2. class.name \notin {"", "?"} /\ ModelKey(class) = m
        BY <3>1, <4>1 DEF e
      <4> QED BY <4>2 DEF class
    <3> QED BY <3>3, NamedKey
  <2> QED BY <1>2, <2>3, <2>4, <2>5
<1>3. CASE m \notin DOMAIN g.models
  <2>1. m \in DOMAIN stubs.models /\ stubs.complete
    <3> HIDE DEF g
    <3> QED BY <1>1, <1>3 DEF SaysItAll, g
  <2>2. m \notin {"", "?"}
    BY <2>1 DEF ProjectIsWhole
  <2> QED BY <1>3, <2>1, <2>2 DEF Mentioned
<1> QED BY <1>2, <1>3

\* A class of such a model leads on only to such models, and does not have the member.
LEMMA BarrenClass ==
  ASSUME NEW project, NEW stubs, ProjectIsWhole(project, stubs), Grounded(project, stubs),
         NEW kind \in Kinds, NEW member, NEW t, Barren(BuildGraph(project, stubs), kind, member, t),
         NEW m \in t, NEW c \in ClassesOf(project, m)
  PROVE  ParentsOf(c) \subseteq t /\ member \notin c.members[kind]
<1> DEFINE g == BuildGraph(project, stubs)
<1>1. SaysItAll(g, m) /\ ~HasItself(g, kind, m, member) /\ ParentNames(g, m) \subseteq t
  BY DEF Barren
<1>2. /\ m \notin {"", "?"} /\ m \in Mentioned(project, stubs)
      /\ m \notin DOMAIN g.models => m \in DOMAIN stubs.models
  BY <1>1, BarrenIsKnown
<1>3. ModelKey(c) = m /\ c \in Classes(project) /\ Whole(project)
  BY <1>2, KeyOfClass, ClassesAreFinite DEF ClassesOf
<1>4. /\ \A x \in c.members[kind] : HasItself(g, kind, m, x)
      /\ m \in DOMAIN g.models =>
           /\ ParentsOf(c) \subseteq ParentNames(g, m) \cup {m, "?"}
           /\ "?" \in ParentsOf(c) => g.models[m].unresolved
  BY <1>2, <1>3, ClassIsKept
<1> HIDE DEF g
<1>5. member \notin c.members[kind]
  BY <1>1, <1>4
<1>6. CASE m \in DOMAIN g.models
  <2>1. ~g.models[m].unresolved
    BY <1>1, <1>6 DEF SaysItAll
  <2> QED BY <1>1, <1>4, <1>5, <1>6, <2>1
<1>7. CASE m \notin DOMAIN g.models
  <2>1. ParentsOf(c) \subseteq {m}
    BY <1>2, <1>7 DEF Grounded
  <2> QED BY <1>5, <2>1
<1> QED BY <1>6, <1>7

\* What is called absent, the running system has not.
LEMMA AbsentIsMissing ==
  ASSUME NEW project, NEW stubs, ProjectIsWhole(project, stubs), Grounded(project, stubs),
         NEW kind \in Kinds, NEW member, NEW model \in Names(BuildGraph(project, stubs)),
         Resolve(BuildGraph(project, stubs), kind, model, member) = "not found"
  PROVE  ~MayHave(project, stubs, kind, model, member)
<1> DEFINE g == BuildGraph(project, stubs)
           next == [m \in Mentioned(project, stubs) |-> UNION {ParentsOf(c) : c \in ClassesOf(project, m)}]
<1>1. IsFiniteSet(Names(g))
  BY NamesAreFinite
<1>2. PICK t : model \in t /\ Barren(g, kind, member, t) /\ member \notin g.unattributed
  BY <1>1, AbsentIsBarren
<1>3. \A m \in t : SaysItAll(g, m) /\ ~HasItself(g, kind, m, member)
  BY <1>2 DEF Barren
<1>4. \A m \in t : \A c \in ClassesOf(project, m) : ParentsOf(c) \subseteq t /\ member \notin c.members[kind]
  BY <1>2, BarrenClass
<1>5. Lineage(project, stubs, model) \subseteq t
  <2>1. t \subseteq DOMAIN next
    BY <1>3, BarrenIsKnown
  <2>2. \A m \in t : next[m] \subseteq t
    BY <1>4, <2>1
  <2> HIDE DEF next
  <2>3. Reached(next, {model}) \subseteq t
    BY <1>2, <2>1, <2>2, ReachedIsLeast
  <2> QED BY <2>3 DEF Lineage, next
<1>6. ASSUME NEW m \in t
      PROVE  /\ m # "?" /\ ~Elsewhere(project, stubs, m)
             /\ ~(m \in DOMAIN stubs.models /\ member \in stubs.models[m][kind])
  <2>1. /\ m \notin {"", "?"}
        /\ m \in DOMAIN g.models => \E c \in Classes(project) : c.name = m
        /\ m \notin DOMAIN g.models => stubs.complete /\ m \in DOMAIN stubs.models
    BY <1>3, BarrenIsKnown
  <2>2. ~Elsewhere(project, stubs, m)
    <3>1. CASE m \in DOMAIN g.models
      <4>1. PICK c \in Classes(project) : c.name = m
        BY <2>1, <3>1
      <4>2. \E d \in Classes(project) : d.name = m /\ m \notin ToSet(d.inherit)
        BY <4>1 DEF Grounded
      <4> QED BY <4>2 DEF Elsewhere, ClassesOf
    <3>2. CASE m \notin DOMAIN g.models
      BY <2>1, <3>2 DEF Elsewhere
    <3> QED BY <3>1, <3>2
  <2>3. g.stubs = stubs
    BY DEF BuildGraph
  <2> HIDE DEF g
  <2>4. ~(m \in DOMAIN stubs.models /\ member \in stubs.models[m][kind])
    BY <1>3, <2>3 DEF HasItself
  <2> QED BY <2>1, <2>2, <2>4
<1>7. member \notin Builtin[kind]
  BY <1>2, <1>3 DEF HasItself
<1>8. ASSUME NEW c \in Classes(project), c.name = "", c.inherit = <<>> \/ Head(c.inherit) = "?"
      PROVE  member \notin c.members[kind]
  <2>1. \A i \in DOMAIN c.inherit : c.inherit[i] = "?"
    <3>1. c.inherit \in Seq(STRING)
      <4>1. c \in ModelClass
        BY ClassesAreFinite
      <4> QED BY <4>1 DEF ModelClass
    <3>2. c.inherit = <<>> \/ (Len(c.inherit) = 1 /\ Head(c.inherit) = "?")
      BY <1>8 DEF Grounded
    <3> QED BY <3>1, <3>2, AtMostOne
  <2>2. ModelKey(c) = ""
    BY <1>8, <2>1 DEF ModelKey
  <2>3. c.members["field"] \cup c.members["method"] \subseteq g.unattributed
    BY <2>2 DEF BuildGraph
  <2> QED BY <1>2, <2>3 DEF Kinds
<1> HIDE DEF g
<1> QED BY <1>4, <1>5, <1>6, <1>7, <1>8 DEF MayHave

\* What the resolver has been asked, and what it said.
ResolverInv ==
  /\ rule = "resolver" /\ input \in Projects
  /\ judged => verdict = Answers(BuildGraph(input[1], input[2]))

\* A field or a method is called absent only where no class, parent or stub of the running system
\* gives it to the model, for any addons and any stubs: what is not known is never absent.
THEOREM AbsenceIsSound == ResolverSpec => []AbsenceIsProved
<1>1. Unjudged /\ rule = "resolver" /\ input \in Projects => ResolverInv
  BY DEF Unjudged, ResolverInv
<1>2. ResolverInv /\ [JudgeResolver]_ruleVars => ResolverInv'
  <2> SUFFICES ASSUME ResolverInv, [JudgeResolver]_ruleVars PROVE ResolverInv'
    OBVIOUS
  <2>1. CASE JudgeResolver
    BY <2>1 DEF ResolverInv, JudgeResolver, Judge
  <2>2. CASE UNCHANGED ruleVars
    BY <2>2 DEF ResolverInv, ruleVars
  <2> QED BY <2>1, <2>2
<1>3. ResolverInv => AbsenceIsProved
  <2> SUFFICES ASSUME ResolverInv, judged, Grounded(input[1], input[2]),
                      NEW kind \in Kinds, NEW model \in DOMAIN verdict[kind], Absent(kind, model)
               PROVE  ~MayHave(input[1], input[2], kind, model, Asked)
    BY DEF AbsenceIsProved, Said
  <2> DEFINE g == BuildGraph(input[1], input[2])
             models == DOMAIN g.models \cup DOMAIN g.extended \cup DOMAIN g.stubs.models
  <2>1. ProjectIsWhole(input[1], input[2]) /\ verdict = Answers(g)
    BY ProjectsAssumption DEF ResolverInv
  <2> HIDE DEF g
  <2>2. verdict[kind] = [x \in models |-> Resolve(g, kind, x, Asked)]
    BY <2>1 DEF Answers, Kinds, ResolveField, ResolveMethod
  <2>3. model \in models /\ Resolve(g, kind, model, Asked) = "not found"
    BY <2>2 DEF Absent
  <2>4. model \in Names(g)
    BY <2>3 DEF Names
  <2> QED BY <2>1, <2>3, <2>4, AbsentIsMissing DEF g
<1> QED BY <1>1, <1>2, <1>3, PTL DEF ResolverSpec
=============================================================================
