-------------------------------- MODULE Fixer --------------------------------
(***************************************************************************)
(* odoo-doctor fix (cli/app.py, core/fixer.py): scan, compute the fixes of  *)
(* every file in memory, then replace the files one by one, while somebody  *)
(* edits them.                                                              *)
(*                                                                          *)
(* A text is a list of elements, each of a record (a manifest is one        *)
(* record), with its offence and the lines its tag and its content take.    *)
(* Findings name a line, and fixers change how many lines there are.        *)
(***************************************************************************)
EXTENDS Naturals, Sequences, FiniteSets

CONSTANTS
  File,
  Inside,    \* those that resolve into a scanned directory
  TextsOf,   \* File -> the texts its author may save
  MaxEdits,  \* how often somebody saves or deletes a file
  None

\* The fixers: one for manifests, the others run with --upgrade-to only.
Rule      == {"chatter", "fields", "rename", "tree"}
Migration == Rule \ {"fields"}

\* Their order in the sort by line and rule name.
Rank(r) == CASE r = "chatter" -> 1 [] r = "fields" -> 2 [] r = "rename" -> 3 [] r = "tree" -> 4

\* custom: a chatter with attributes or content of its own.  hard: the fixer cannot make the change, although
\* the finding is a certain one: a name, an empty value, any field where a comma is missing at the end; a tag
\* that the text and the parsed tree count differently, an offence that is there again after the edit.
Element == [record : Nat, offence : Rule \cup {"none"}, tag : 1..2, rest : Nat, custom : BOOLEAN, hard : BOOLEAN]

\* whole: the file parses.
Texts == [elements : Seq(Element), whole : BOOLEAN]

\* A manifest, which alone has missing fields, has nothing else to fix here.
IsText(t) ==
  /\ t \in Texts
  /\ \A j, k \in DOMAIN t.elements :
       t.elements[j].offence = "fields" => t.elements[k].offence \in {"fields", "none"}

ASSUME FixerAssumption ==
  /\ IsFiniteSet(File) /\ Inside \subseteq File /\ MaxEdits \in Nat
  /\ None \notin File \cup Texts
  /\ \A f \in File : \A t \in TextsOf[f] : IsText(t)

VARIABLES
  disk,      \* File -> its text, or None
  upgrade,   \* --upgrade-to is given
  pc, todo,  \* the phase and the files it has left
  findings,  \* File -> the findings the scan made
  at,        \* the file being fixed or written
  text,      \* its running text
  original,  \* its text as it was read
  queue,     \* its findings still to be fixed
  changed,   \* File -> its new text, or None
  temp,      \* the temporary file next to it, or None
  fixed,     \* how many findings were fixed
  skipped,   \* File -> its findings that are reported as skipped
  edits,     \* how many saves and deletions there were
  quiet      \* history: none since the scan began

run  == <<pc, todo, findings, at, text, original, queue, changed, temp, fixed, skipped>>
vars == <<disk, upgrade, run, edits, quiet>>
Rest == UNCHANGED <<upgrade, edits, quiet>>

Init ==
  /\ disk \in [File -> UNION {TextsOf[f] : f \in File}] /\ \A f \in File : disk[f] \in TextsOf[f]
  /\ upgrade \in BOOLEAN
  /\ pc = "scan" /\ todo = File
  /\ findings = [f \in File |-> {}] /\ changed = [f \in File |-> None]
  /\ at = None /\ text = None /\ original = None /\ queue = {} /\ temp = None
  /\ fixed = 0 /\ skipped = [f \in File |-> {}] /\ edits = 0 /\ quiet = TRUE
-----------------------------------------------------------------------------
(* Whoever edits the files *)

Save(f) ==
  /\ edits < MaxEdits
  /\ \E t \in TextsOf[f] \cup {None} : t # disk[f] /\ disk' = [disk EXCEPT ![f] = t]
  /\ edits' = edits + 1 /\ quiet' = FALSE
  /\ UNCHANGED <<upgrade, run>>
-----------------------------------------------------------------------------
(* Lines, findings and fixers *)

\* The last line of the k-th element; elements start on a line of their own.
LastLine(t, k) ==
  LET upTo[n \in 0..Len(t.elements)] == IF n = 0 THEN 0 ELSE upTo[n - 1] + t.elements[n].tag + t.elements[n].rest
  IN upTo[k]

FirstLine(t, k) == LastLine(t, k - 1) + 1

\* line_of: where the tag ends.
TagLine(t, k) == LastLine(t, k) - t.elements[k].rest

Offenders(t, r, rule) == {k \in DOMAIN t.elements : t.elements[k].record = r /\ t.elements[k].offence = rule}

First(set) == CHOOSE k \in set : \A l \in set : k <= l

Offending(t, rule) == {k \in DOMAIN t.elements : t.elements[k].offence = rule}

\* Each renamed field is reported, and each missing one, on line 1; the other rules report a record, at its
\* first offender.  A chatter that is not plain is reported with medium confidence, which no fixer takes.
Findings(t) ==
  IF t = None \/ ~t.whole THEN {}
  ELSE {[line |-> TagLine(t, k), rule |-> "rename", high |-> TRUE, field |-> 0] : k \in Offending(t, "rename")}
       \cup {[line |-> 1, rule |-> "fields", high |-> TRUE, field |-> k] : k \in Offending(t, "fields")}
       \cup UNION {{[line |-> TagLine(t, First(Offenders(t, r, rule))), rule |-> rule,
                     high |-> \A k \in Offenders(t, r, rule) : ~t.elements[k].custom, field |-> 0] :
                       rule \in {x \in {"chatter", "tree"} : Offenders(t, r, x) # {}}} :
                    r \in {t.elements[k].record : k \in DOMAIN t.elements}}

\* can_fix
Chosen(set) == {d \in set : d.high /\ (d.rule \in Migration => upgrade)}

\* record_span: the record with this line in it.
RecordsAt(t, line) ==
  {t.elements[k].record : k \in {x \in DOMAIN t.elements : line \in FirstLine(t, x)..LastLine(t, x)}}

\* What a fixer is about to change: the whole manifest, a tag that ends on the line, or the record.
Looks(t, d) ==
  CASE d.rule = "fields" -> Offending(t, d.rule)
    [] d.rule = "rename" -> {k \in Offending(t, d.rule) : TagLine(t, k) = d.line}
    [] OTHER -> UNION {Offenders(t, r, d.rule) : r \in RecordsAt(t, d.line)}

\* It no longer finds its place, or a manifest it can read.
Lost(t, d) == \/ d.rule = "rename" /\ Looks(t, d) = {}
              \/ d.rule \in {"chatter", "tree"} /\ RecordsAt(t, d.line) = {}
              \/ d.rule = "fields" /\ ~t.whole

\* What it can change.
Easy(t, d) == {k \in Looks(t, d) : ~t.elements[k].hard}

\* A manifest gets the fields that can be added, whichever of them the finding is about, and the fixer
\* declines when there are none; a record is mended as a whole or not at all.
TooHard(t, d) == IF d.rule = "fields" THEN Looks(t, d) # {} /\ Easy(t, d) = {} ELSE Easy(t, d) # Looks(t, d)

\* Adding a field adds a line; a chatter becomes one tag.
Without(e, rule) ==
  [e EXCEPT !.offence = "none",
            !.tag  = IF rule = "chatter" THEN 1 ELSE @,
            !.rest = CASE rule = "chatter" -> 0 [] rule = "fields" -> @ + 1 [] OTHER -> @]

Changed(t, d) ==
  [t EXCEPT !.elements = [k \in DOMAIN @ |-> IF k \in Easy(t, d) THEN Without(@[k], d.rule) ELSE @[k]]]

\* Mutant: the fixer trusts the finding that the chatter is a plain one.
TrustsFinding(t, d) == IF Lost(t, d) \/ TooHard(t, d) THEN None ELSE Changed(t, d)

\* What a fixer makes of a text for a finding, which may be the same text; None: it declines.
FixerResult(t, d) ==
  IF Lost(t, d) \/ TooHard(t, d) \/ (\E k \in Looks(t, d) : d.rule = "chatter" /\ t.elements[k].custom)
  THEN None
  ELSE Changed(t, d)

\* Ties: by rule name, then as they were reported.
TieFirst(d, e) == d.line = e.line /\ (Rank(d.rule) < Rank(e.rule) \/ (d.rule = e.rule /\ d.field <= e.field))

\* Mutant: from the first line to the last.
FirstInFile(d) == \A e \in queue : d.line < e.line \/ TieFirst(d, e)

\* From the last line to the first.
NextInFile(d) == \A e \in queue : d.line > e.line \/ TieFirst(d, e)
-----------------------------------------------------------------------------
(* The command *)

ScanFile(f) ==
  /\ pc = "scan" /\ f \in todo
  /\ todo' = todo \ {f}
  /\ findings' = [findings EXCEPT ![f] = Findings(disk[f])]
  /\ Rest /\ UNCHANGED <<disk, pc, at, text, original, queue, changed, temp, fixed, skipped>>

StartFixing ==
  /\ pc = "scan" /\ todo = {}
  /\ pc' = "fix" /\ todo' = {f \in File : Chosen(findings[f]) # {}}
  /\ Rest /\ UNCHANGED <<disk, findings, at, text, original, queue, changed, temp, fixed, skipped>>

\* The next file with fixable findings; what cannot be read or lies outside is skipped.
ReadFile(f) ==
  /\ pc = "fix" /\ at = None /\ f \in todo
  /\ todo' = todo \ {f}
  /\ IF f \notin Inside \/ disk[f] = None
     THEN skipped' = [skipped EXCEPT ![f] = Chosen(findings[f])] /\ UNCHANGED <<at, text, original, queue>>
     ELSE /\ at' = f /\ text' = disk[f] /\ original' = disk[f] /\ queue' = Chosen(findings[f])
          /\ UNCHANGED skipped
  /\ Rest /\ UNCHANGED <<disk, pc, findings, changed, temp, fixed>>

\* One fixer; a result that does not parse is dropped.
Apply(d) ==
  /\ pc = "fix" /\ at # None /\ d \in queue /\ NextInFile(d)
  /\ queue' = queue \ {d}
  /\ LET new == FixerResult(text, d)
     IN IF new = None \/ (new # text /\ ~new.whole)
        THEN skipped' = [skipped EXCEPT ![at] = @ \cup {d}] /\ UNCHANGED <<text, fixed>>
        ELSE text' = new /\ fixed' = fixed + (IF new # text THEN 1 ELSE 0) /\ UNCHANGED skipped
  /\ Rest /\ UNCHANGED <<disk, pc, todo, findings, at, original, changed, temp>>

EndFile ==
  /\ pc = "fix" /\ at # None /\ queue = {}
  /\ changed' = [changed EXCEPT ![at] = IF text # original THEN text ELSE None]
  /\ at' = None /\ text' = None /\ original' = None
  /\ Rest /\ UNCHANGED <<disk, pc, todo, findings, queue, temp, fixed, skipped>>

\* --fix goes on to write, --fix-dry-run ends.
EndFixing ==
  /\ pc = "fix" /\ at = None /\ todo = {}
  /\ \/ pc' = "write" /\ todo' = {f \in File : changed[f] # None}
     \/ pc' = "dry" /\ UNCHANGED todo
  /\ Rest /\ UNCHANGED <<disk, findings, at, text, original, queue, changed, temp, fixed, skipped>>

Half == [elements |-> <<>>, whole |-> FALSE]

\* Mutant: the file itself is opened and truncated.
WriteInPlace(f) ==
  /\ pc = "write" /\ temp = None /\ f \in todo /\ todo' = todo \ {f}
  /\ at' = f /\ temp' = changed[f] /\ disk' = [disk EXCEPT ![f] = Half]
  /\ Rest /\ UNCHANGED <<pc, findings, text, original, queue, changed, fixed, skipped>>

\* write_fixed: a temporary file with the mode of the target; a target that is gone ends the command.
WriteTemp(f) ==
  /\ pc = "write" /\ temp = None /\ f \in todo /\ todo' = todo \ {f}
  /\ IF disk[f] = None THEN pc' = "failed" /\ UNCHANGED <<at, temp>>
                       ELSE at' = f /\ temp' = changed[f] /\ UNCHANGED pc
  /\ Rest /\ UNCHANGED <<disk, findings, text, original, queue, changed, fixed, skipped>>

Replace ==
  /\ pc = "write" /\ temp # None
  /\ disk' = [disk EXCEPT ![at] = temp] /\ temp' = None /\ at' = None
  /\ Rest /\ UNCHANGED <<pc, todo, findings, text, original, queue, changed, fixed, skipped>>

EndWriting ==
  /\ pc = "write" /\ temp = None /\ todo = {}
  /\ pc' = "done"
  /\ Rest /\ UNCHANGED <<disk, todo, findings, at, text, original, queue, changed, temp, fixed, skipped>>

Kill ==
  /\ pc \in {"scan", "fix", "write"} /\ pc' = "killed"
  /\ Rest /\ UNCHANGED <<disk, todo, findings, at, text, original, queue, changed, temp, fixed, skipped>>

Next ==
  \/ \E f \in File : Save(f) \/ ScanFile(f) \/ ReadFile(f) \/ WriteTemp(f)
  \/ \E d \in queue : Apply(d)
  \/ StartFixing \/ EndFile \/ EndFixing \/ Replace \/ EndWriting \/ Kill

Spec == Init /\ [][Next]_vars
-----------------------------------------------------------------------------
(* Properties *)

\* Every variable keeps its type; the running text belongs to the file being fixed.
TypeOK ==
  /\ \A f \in File : (disk[f] = None \/ IsText(disk[f])) /\ (changed[f] = None \/ IsText(changed[f]))
  /\ pc \in {"scan", "fix", "write", "dry", "done", "failed", "killed"} /\ todo \subseteq File
  /\ at \in File \cup {None} /\ (text = None <=> original = None)
  /\ (pc = "fix" => (text = None <=> at = None)) /\ (pc = "write" => (temp = None <=> at = None))
  /\ (queue # {} => at \in Inside)
  /\ \A f \in File : skipped[f] \subseteq Chosen(findings[f])
  /\ fixed + Cardinality(UNION {{f} \X skipped[f] : f \in File})
       <= Cardinality(UNION {{f} \X Chosen(findings[f]) : f \in File})

\* When nobody edits, a finished fix leaves nothing a second one would fix: no fixer moves the lines of
\* one still to come (core/fixer.py:9-13, 211-214).  What it leaves the fixers decline, and findings of that
\* file and rule are reported as skipped ("either fixed or reported", upgrade_safety/fixers.py:6-7).
FixFinishes ==
  pc = "done" /\ quiet =>
    \A f \in Inside : \A d \in Chosen(Findings(disk[f])) :
      /\ FixerResult(disk[f], d) = None
      /\ \E e \in skipped[f] : e.rule = d.rule

\* A file is never left half written or broken: whenever the command is killed, a file holds
\* what its author saved or a complete result that parses (core/fixer.py:160-176).
FilesWhole == \A f \in File : disk[f] \in TextsOf[f] \cup {None} \/ disk[f].whole

\* Content the fixers cannot carry over is kept, also when it is written between the scan
\* and the fix: a custom chatter stays in every computed text.
CustomKept ==
  \A k \in DOMAIN (IF text = None THEN <<>> ELSE text.elements) :
    LET e == original.elements[k]
    IN e.custom /\ e.offence = "chatter" => text.elements[k].offence = "chatter"

\* The command never writes a file that lies outside the scanned directories.
OutsideUntouched == [][\A f \in File \ Inside : disk'[f] # disk[f] => edits' # edits]_vars
=============================================================================
