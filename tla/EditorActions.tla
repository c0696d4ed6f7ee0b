----------------------------- MODULE EditorActions -----------------------------
(***************************************************************************)
(* The hovers and quick fixes of a finding (lsp/actions.py, lsp/hover.py), *)
(* made for the text in the editor from a scan of the file on disk, and    *)
(* the suppression comments they write (rules/suppression.py).             *)
(*                                                                         *)
(* A text is its language ("py", "xml" or another), its lines, the rules  *)
(* that flag the file as a whole, on line 1 whatever is there, and those   *)
(* of them that have a fixer.  A line is [id, says]: which line it is, and *)
(* what stands on it: some code, the rules that flag it, those that a      *)
(* fixer can repair, the rules that a comment on it disables for the next  *)
(* line or the whole file, whether that comment is all there is, whether   *)
(* the line leaves a string or a tag open (or closes it), ends with a      *)
(* backslash, begins a tag, or must be the first one (#!, <?xml).          *)
(***************************************************************************)
EXTENDS Naturals, Sequences, SequencesExt, FiniteSetsExt

CONSTANTS Documents,  \* the files of a session
          Typing,     \* what a user may type as a line
          MaxChanges  \* bound: changes of the text, typed or accepted

\* A line without code has the empty text.
LineSays ==
  [code : STRING \cup {""}, hits : SUBSET STRING, fix : SUBSET STRING, mute : SUBSET STRING, wide : SUBSET STRING,
   whole : BOOLEAN, leaves : BOOLEAN, glued : BOOLEAN, begins : BOOLEAN, first : BOOLEAN]
Text == [lang : STRING, lines : Seq([id : Nat, says : LineSays]), pinned : SUBSET STRING, mends : SUBSET STRING]

\* The rules that flag a file as a whole.
FileRules == UNION {d.pinned : d \in Documents}

\* A rule flags either lines or files; a line has one comment, and one that must be the first is complete in
\* itself.
IsLine(s) ==
  /\ s \in LineSays /\ s.fix \subseteq s.hits /\ s.hits \cap FileRules = {}
  /\ s.wide = {} \/ s.mute = {}
  /\ s.first => ~s.leaves /\ s.mute = {}

\* The identities of typed lines begin here.
FirstTyped == 100

ASSUME EditorAssumption ==
  /\ Documents \subseteq Text /\ \A says \in Typing : IsLine(says)
  /\ \A t \in Documents :
       /\ t.mends \subseteq t.pinned
       /\ \A i, k \in DOMAIN t.lines :
            IsLine(t.lines[i].says) /\ t.lines[i].id < FirstTyped /\ (i # k => t.lines[i].id # t.lines[k].id)

VARIABLES
  page,      \* the file on disk
  shownFrom, \* the text the server's findings were made from
  draft,     \* the text in the editor
  changes,   \* of the text so far
  deed       \* ghost: the last hover or action: [kind, rule, line, before, fresh]

editorVars == <<page, shownFrom, draft, changes, deed>>

NoDeed == [kind |-> "none", rule |-> "", line |-> 0, before |-> <<>>, fresh |-> FALSE]
-----------------------------------------------------------------------------
(* What a scan makes of a text *)

Lines(t)   == DOMAIN t.lines
Says(t, i) == t.lines[i].says

\* A line that begins within a string, or within a tag; a text that ends in one cannot be read,
\* nor one with a tag in a tag.
Held(t, i)  == Cardinality({k \in 1..(i - 1) : Says(t, k).leaves}) % 2 = 1
Parses(t)   == ~Held(t, Len(t.lines) + 1) /\ \A i \in Lines(t) : Says(t, i).begins => ~Held(t, i)

\* scan_python_suppressions and scan_xml_suppressions: <<line, rule>>, line 0 for the whole file.
DisabledAt(t) ==
  IF ~Parses(t) THEN {}
  ELSE UNION {LET s == Says(t, i)
              IN IF Held(t, i) THEN {} ELSE IF s.wide # {} THEN {0} \X s.wide ELSE {i + 1} \X s.mute : i \in Lines(t)}

\* The findings of a scan, as <<line, rule>>.
FindingsOf(t) ==
  LET flagged == (UNION {{i} \X Says(t, i).hits : i \in Lines(t)}) \cup ({1} \X t.pinned)
  IN IF ~Parses(t) THEN {} ELSE {f \in flagged : {f, <<0, f[2]>>} \cap DisabledAt(t) = {}}
-----------------------------------------------------------------------------
(* What is offered *)

\* Mutant: a line of this number is enough.
BothHaveLine(i) == i \in Lines(draft) /\ i \in Lines(page)

\* line_in_sync
LineInSync(i) == i \in Lines(draft) /\ i \in Lines(page) /\ Says(draft, i) = Says(page, i)

Commented(t) == t.lang \in {"py", "xml"}

\* _python_accepts_comment_before and _xml_accepts_comment_before
Accepts(t, i) ==
  IF t.lang = "xml" THEN Says(t, i).begins /\ ~Says(t, i).first
  ELSE Parses(t) /\ ~Held(t, i) /\ (i > 1 => ~Says(t, i - 1).glued)

Blank == [code |-> "", hits |-> {}, fix |-> {}, mute |-> {}, wide |-> {}, whole |-> FALSE,
          leaves |-> FALSE, glued |-> FALSE, begins |-> FALSE, first |-> FALSE]
Marker(t, mute, wide) ==
  [id |-> 0, says |-> [Blank EXCEPT !.mute = mute, !.wide = wide, !.whole = TRUE, !.begins = t.lang = "xml"]]

\* disable_line_edit: the texts it may lead to, none when it answers None.
DisableLineEdit(t, r, i) ==
  LET above == i > 1 /\ Says(t, i - 1).whole /\ Says(t, i - 1).mute # {}
  IN CASE ~Commented(t) -> {}
       [] Commented(t) /\ above ->
            {[t EXCEPT !.lines[i - 1].says.mute = @ \cup {r}] : x \in {1} \ {k \in {1} : r \in Says(t, i - 1).mute}}
       [] OTHER -> {[t EXCEPT !.lines = InsertAt(@, i, Marker(t, {r}, {}))] : x \in {k \in {i} : Accepts(t, k)}}

\* disable_file_edit: at the top, or after the line that must be first.
DisableFileEdit(t, r) ==
  LET told == \E i \in Lines(t) : r \in Says(t, i).wide
      top  == IF t.lines # <<>> /\ Says(t, 1).first THEN 2 ELSE 1
  IN IF ~Commented(t) \/ told THEN {} ELSE {[t EXCEPT !.lines = InsertAt(@, top, Marker(t, {}, {r}))]}

\* What is left of a line that a rule flags when a fixer has repaired it.
Mended(s, r) == [s EXCEPT !.hits = @ \ {r}, !.fix = @ \ {r}]

\* fix_edits: the rule's fixer on the text in the editor, if it finds something to repair there.
FixEdits(t, r, i) ==
  (IF r \in t.mends THEN {[t EXCEPT !.pinned = @ \ {r}, !.mends = @ \ {r}]} ELSE {})
  \cup (IF r \in Says(t, i).fix THEN {[t EXCEPT !.lines[i].says = Mended(@, r)]} ELSE {})
-----------------------------------------------------------------------------
EditorInit ==
  /\ page \in Documents /\ shownFrom = page /\ draft = page /\ changes = 0 /\ deed = NoDeed

\* The user inserts or removes a line.
Edit ==
  /\ changes < MaxChanges /\ changes' = changes + 1
  /\ \/ \E says \in Typing, i \in 1..(Len(draft.lines) + 1) :
          draft' = [draft EXCEPT !.lines = InsertAt(@, i, [id |-> FirstTyped + changes, says |-> says])]
     \/ \E i \in Lines(draft) : draft' = [draft EXCEPT !.lines = RemoveAt(@, i)]
  /\ deed' = NoDeed /\ UNCHANGED <<page, shownFrom>>

SaveDraft == page' = draft /\ page # draft /\ deed' = NoDeed /\ UNCHANGED <<shownFrom, draft, changes>>

\* A scan ends that read the file as it is now.
ScanPage == shownFrom' = page /\ shownFrom # page /\ deed' = NoDeed /\ UNCHANGED <<page, draft, changes>>

Did(kind, f) == deed' = [kind |-> kind, rule |-> f[2], line |-> f[1], before |-> draft, fresh |-> shownFrom = page]

\* The user accepts an action.
Accept(kind, f, texts) ==
  /\ changes < MaxChanges /\ changes' = changes + 1
  /\ draft' \in texts /\ Did(kind, f) /\ UNCHANGED <<page, shownFrom>>

Hover(f) == LineInSync(f[1]) /\ Did("hover", f) /\ UNCHANGED <<page, shownFrom, draft, changes>>

\* code_actions_for, with the edits that depend on the line left out when it is not in sync.
FixIt(f)         == LineInSync(f[1]) /\ Accept("fix", f, FixEdits(draft, f[2], f[1]))
DisableOnLine(f) == LineInSync(f[1]) /\ Accept("line", f, DisableLineEdit(draft, f[2], f[1]))
DisableInFile(f) == Accept("file", f, DisableFileEdit(draft, f[2]))

EditorNext == \/ Edit \/ SaveDraft \/ ScanPage
              \/ \E f \in FindingsOf(shownFrom) : Hover(f) \/ FixIt(f) \/ DisableOnLine(f) \/ DisableInFile(f)

EditorSpec == EditorInit /\ [][EditorNext]_editorVars
-----------------------------------------------------------------------------
\* The findings by the identity of their lines, 0 for the file as a whole.
Reported(t) == {IF f[2] \in t.pinned THEN <<0, f[2]>> ELSE <<t.lines[f[1]].id, f[2]>> : f \in FindingsOf(t)}

\* What there is besides comments: the code, line by line without the empty ones.
Coded(t)  == {i \in Lines(t) : Says(t, i).code # ""}
CodeOf(t) == {<<Cardinality({k \in Coded(t) : k < i}), Says(t, i).code>> : i \in Coded(t)}

\* The finding points at a statement; and the line above has no comment that disables rules and
\* shares its line with something else or has words of its own, and none that is in a string.
Ordinary(t, r, i) ==
  /\ r \notin shownFrom.pinned
  /\ i > 1 /\ Says(t, i - 1).mute # {} => Says(t, i - 1).whole /\ ~Held(t, i - 1)

\* While the findings are those of the file on disk, what is offered for an edited text is about
\* the statement the finding points at: a hover explains it, and a quick fix, once saved and
\* scanned, has taken away that finding (or the rule's findings in the file), left all others
\* where they were and the code as it was ("an edit computed from the finding's line number
\* would hit the wrong statement", lsp/actions.py:172-174; "None where the comment would not be
\* safe or would not work", lsp/actions.py:91-92).
ActionsHitTheirLine ==
  LET t == deed.before
      i == deed.line
      r == deed.rule
      one == {<<IF r \in t.pinned THEN 0 ELSE t.lines[i].id, r>>}
  IN deed.fresh =>
       CASE deed.kind = "hover" -> r \notin shownFrom.pinned => r \in Says(t, i).hits
         [] deed.kind = "line" -> Ordinary(t, r, i) =>
              /\ r \in Says(t, i).hits /\ CodeOf(draft) = CodeOf(t) /\ Parses(draft) = Parses(t)
              /\ Reported(draft) = Reported(t) \ one
         [] deed.kind = "fix" -> r \in Says(t, i).hits \cup t.pinned /\ Reported(draft) = Reported(t) \ one
         [] deed.kind = "file" ->
              /\ Reported(draft) = {f \in Reported(t) : f[2] # r} /\ CodeOf(draft) = CodeOf(t)
              /\ t.lines # <<>> /\ Says(t, 1).first => Says(draft, 1).first
         [] OTHER -> TRUE
=============================================================================
