------------------------------ MODULE ConfigEdit ------------------------------
(***************************************************************************)
(* odoo-doctor.toml (core/config.py, core/config_edit.py): how the files   *)
(* above a folder are merged, and how [ignore] rules is edited in place.   *)
(*                                                                         *)
(* A text is [pieces, ended]: the sections, keys and other lines of a file *)
(* in order, and whether the last line ends.  A piece is [kind, name,      *)
(* value]; the value of a key is the set of what it lists, and a key        *)
(* "rules" has besides the names its comments quote, in the field muted.   *)
(***************************************************************************)
EXTENDS Naturals, Sequences, FiniteSets, SequencesExt

\* The names of sections and keys, those of the edits among them.
TomlName == STRING \cup {"ignore", "rules"}
Piece == [kind : {"section", "key", "joined"}, name : TomlName, value : SUBSET STRING, muted : SUBSET STRING]
TomlText == [pieces : Seq(Piece), ended : BOOLEAN]

Section(name)     == [kind |-> "section", name |-> name, value |-> {}, muted |-> {}]
Key(name, value)  == [kind |-> "key", name |-> name, value |-> value, muted |-> {}]
RuleList(set)     == Key("rules", set)
Glued            == [kind |-> "joined", name |-> "", value |-> {}, muted |-> {}]
Empty             == [pieces |-> <<>>, ended |-> TRUE]

SectionAt(text, i) ==
  LET k == SelectLastInSubSeq(text.pieces, 1, i, LAMBDA p : p.kind = "section")
  IN IF k = 0 THEN "" ELSE text.pieces[k].name

\* What a TOML reader finds; two tables or two keys of one name are refused.
Settings(text) ==
  {<<SectionAt(text, i), text.pieces[i].name, text.pieces[i].value>> :
     i \in {k \in DOMAIN text.pieces : text.pieces[k].kind = "key"}}

IsToml(text) ==
  /\ \A i \in DOMAIN text.pieces : text.pieces[i].kind # "joined"
  /\ \A i, k \in DOMAIN text.pieces : i # k /\ text.pieces[i].kind = text.pieces[k].kind =>
       text.pieces[i].name # text.pieces[k].name
       \/ (text.pieces[i].kind = "key" /\ SectionAt(text, i) # SectionAt(text, k))

\* load_config: the files of a chain, outermost first; a key of an inner file replaces that of an
\* outer one.
Merged(chain) ==
  UNION {{s \in Settings(chain[i]) :
            \A k \in (i + 1)..Len(chain) : \A t \in Settings(chain[k]) : <<s[1], s[2]>> # <<t[1], t[2]>>} :
          i \in DOMAIN chain}

ValueOf(settings, section, key, default) ==
  IF \E s \in settings : s[1] = section /\ s[2] = key
  THEN (CHOOSE s \in settings : s[1] = section /\ s[2] = key)[3] ELSE default

\* _build_config, as far as the registry and the ignore list are concerned.
BuildConfig(settings) ==
  [ignored |-> ValueOf(settings, "ignore", "rules", {}),
   plugins |-> ValueOf(settings, "plugins", "enabled", {}) # {},
   every   |-> \A s \in settings : s[1] # "plugins" \/ s[2] # "allow",
   allow   |-> ValueOf(settings, "plugins", "allow", {})]
-----------------------------------------------------------------------------
(* set_rule_ignored *)

First(pieces, from, Test(_)) == SelectInSubSeq(pieces, from, Len(pieces), Test)

\* Mutant: the section goes on to the end of the file.
BodyOfRest(pieces, start) == (start + 1)..Len(pieces)

\* The lines of a section: up to the next header.
BodyOf(pieces, start) ==
  LET next == First(pieces, start + 1, LAMBDA p : p.kind = "section")
  IN (start + 1)..(IF next = 0 THEN Len(pieces) ELSE next - 1)

\* The text with the rule put into the list or taken out; the same text when there is nothing
\* to do. Names that comments inside the list quote are read as items.
SetRuleIgnored(text, rule, ignored) ==
  LET pieces == text.pieces
      start  == First(pieces, 1, LAMBDA p : p.kind = "section" /\ p.name = "ignore")
      lists  == {i \in BodyOf(pieces, start) : pieces[i].kind = "key" /\ pieces[i].name = "rules"}
      list   == CHOOSE i \in lists : \A k \in lists : i <= k
      listed == pieces[list].value \cup pieces[list].muted
      joins  == start = Len(pieces) /\ ~text.ended
  IN CASE start = 0 /\ ignored ->
            [pieces |-> pieces \o <<Section("ignore"), RuleList({rule})>>, ended |-> TRUE]
       [] start # 0 /\ lists = {} /\ ignored ->
            IF joins THEN [pieces |-> [pieces EXCEPT ![start] = Glued], ended |-> TRUE]
            ELSE [text EXCEPT !.pieces = InsertAt(pieces, start + 1, RuleList({rule}))]
       [] start # 0 /\ lists # {} /\ ignored # (rule \in listed) ->
            [text EXCEPT !.pieces[list] = RuleList(IF ignored THEN listed \cup {rule} ELSE listed \ {rule})]
       [] OTHER -> text

\* A file that the edit understands: no name is quoted in a comment of the list, and no header is
\* left open at the end.
Plainly(text) ==
  /\ IsToml(text)
  /\ \A i \in DOMAIN text.pieces : text.pieces[i].muted = {}
  /\ text.ended \/ text.pieces = <<>> \/ Last(text.pieces).kind # "section"
=============================================================================
