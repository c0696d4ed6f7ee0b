----------------------------- MODULE FixerProofs -----------------------------
(***************************************************************************)
(* What a fix run and the manifest fixer keep for every set of files, every *)
(* content of them and any number of edits in between.                       *)
(***************************************************************************)
EXTENDS Fixer, DataOrder, SetInduction, WellFoundedInduction, FiniteSetTheorems, TLAPS

(* The command *)

\* The file being fixed or written lies inside, and what is to be written is whole.
WritesInv ==
  /\ DOMAIN disk = File /\ DOMAIN changed = File /\ edits \in Nat
  /\ at # None => at \in Inside
  /\ temp # None => at \in Inside /\ temp.whole
  /\ pc \in {"scan", "fix"} => temp = None
  /\ text = original \/ text.whole
  /\ \A f \in File : changed[f] # None => f \in Inside /\ changed[f].whole
  /\ pc = "write" => \A f \in todo : f \in File /\ changed[f] # None

FixInv == WritesInv /\ FilesWhole

\* The invariant of the files and the findings holds at first.
LEMMA FixStart == Init => FixInv
  BY DEF Init, FixInv, WritesInv, FilesWhole

\* Every step keeps it.
LEMMA FixStep == FixInv /\ [Next]_vars => FixInv'
<1> SUFFICES ASSUME FixInv, [Next]_vars PROVE FixInv'
  OBVIOUS
<1> USE FixerAssumption DEF FixInv, WritesInv, FilesWhole, Rest, run
<1>1. ASSUME NEW f \in File, Save(f) PROVE FixInv'
  BY <1>1 DEF Save
<1>2. ASSUME NEW f \in File, ScanFile(f) PROVE FixInv'
  BY <1>2 DEF ScanFile
<1>3. ASSUME NEW f \in File, ReadFile(f) PROVE FixInv'
  BY <1>3 DEF ReadFile
<1>4. ASSUME NEW f \in File, WriteTemp(f) PROVE FixInv'
  BY <1>4 DEF WriteTemp
<1>5. ASSUME NEW d \in queue, Apply(d) PROVE FixInv'
  BY <1>5 DEF Apply
<1>6. CASE StartFixing
  BY <1>6 DEF StartFixing
<1>7. CASE EndFile
  <2>1. at \in Inside /\ (text # original => text.whole)
    BY <1>7 DEF EndFile
  <2>2. changed' = [changed EXCEPT ![at] = IF text # original THEN text ELSE None]
    BY <1>7 DEF EndFile
  <2>3. \A f \in File : changed'[f] # None => f \in Inside /\ changed'[f].whole
    BY <2>1, <2>2
  <2>4. DOMAIN changed' = File
    BY <2>2
  <2>5. UNCHANGED <<disk, edits, temp, pc>> /\ temp = None /\ pc = "fix"
    BY <1>7 DEF EndFile
  <2>6. at' = None /\ text' = None /\ original' = None
    BY <1>7 DEF EndFile
  <2> HIDE DEF FixInv
  <2>7. WritesInv'
    BY <2>3, <2>4, <2>5, <2>6 DEF FixInv
  <2>8. FilesWhole'
    BY <2>5 DEF FixInv
  <2> QED BY <2>7, <2>8 DEF FixInv
<1>8. CASE EndFixing
  BY <1>8 DEF EndFixing
<1>9. CASE Replace
  BY <1>9 DEF Replace
<1>10. CASE EndWriting
  BY <1>10 DEF EndWriting
<1>11. CASE Kill
  BY <1>11 DEF Kill
<1>12. CASE UNCHANGED vars
  BY <1>12 DEF vars
<1> QED
  BY <1>1, <1>2, <1>3, <1>4, <1>5, <1>6, <1>7, <1>8, <1>9, <1>10, <1>11, <1>12 DEF Next

\* So it holds of every behaviour.
LEMMA FixInvariant == Spec => []FixInv
  BY FixStart, FixStep, PTL DEF Spec

\* Wherever the command is killed, every file holds what its author saved or a complete result
\* that parses (write_fixed, validate_text).
THEOREM FilesStayWhole == Spec => []FilesWhole
<1>1. FixInv => FilesWhole
  BY DEF FixInv
<1> QED BY <1>1, FixInvariant, PTL

\* Only somebody else's edit changes a file outside the scanned directories (allowed_roots).
THEOREM OutsideStays == Spec => OutsideUntouched
<1>1. FixInv /\ [Next]_vars => [\A f \in File \ Inside : disk'[f] # disk[f] => edits' # edits]_vars
  <2> SUFFICES ASSUME FixInv, [Next]_vars, NEW f \in File \ Inside, disk'[f] # disk[f]
               PROVE  edits' # edits
    OBVIOUS
  <2>1. (\E g \in File : Save(g)) \/ Replace
    BY DEF Next, vars, run, ScanFile, ReadFile, WriteTemp, Apply, StartFixing, EndFile, EndFixing,
           EndWriting, Kill
  <2>2. ~Replace
    BY DEF Replace, FixInv, WritesInv
  <2>3. PICK g \in File : Save(g)
    BY <2>1, <2>2
  <2> QED BY <2>3 DEF Save, FixInv, WritesInv
<1> QED BY <1>1, FixInvariant, PTL DEF Spec, OutsideUntouched
-----------------------------------------------------------------------------
(* Texts *)

\* The running text has the elements of the one that was read, and what is not plain is as it was.
CarriesCustom(t, o) ==
  /\ DOMAIN t.elements = DOMAIN o.elements
  /\ \A k \in DOMAIN t.elements :
       o.elements[k].custom => /\ t.elements[k].custom
                               /\ o.elements[k].offence = "chatter" => t.elements[k].offence = "chatter"

TextsInv ==
  /\ \A f \in File : (disk[f] = None \/ IsText(disk[f])) /\ (changed[f] = None \/ IsText(changed[f]))
  /\ temp = None \/ IsText(temp)
  /\ pc = "scan" => at = None
  /\ pc = "fix" /\ at # None => text # None
  /\ text # None => original # None /\ IsText(text) /\ CarriesCustom(text, original)

\* What a fixer looks at has the offence it fixes.
LEMMA LooksOffend ==
  ASSUME NEW t, NEW d, NEW k \in Looks(t, d) PROVE k \in DOMAIN t.elements /\ t.elements[k].offence = d.rule
  <1>1. CASE d.rule = "fields"
    BY <1>1 DEF Looks, Offending
  <1>2. CASE d.rule = "rename"
    <2>1. d.rule # "fields"
      BY <1>2
    <2>2. Looks(t, d) = {x \in Offending(t, d.rule) : TagLine(t, x) = d.line}
      BY <1>2, <2>1 DEF Looks
    <2>3. QED BY <2>2 DEF Offending
  <1>3. CASE d.rule # "fields" /\ d.rule # "rename"
    <2>1. Looks(t, d) = UNION {Offenders(t, r, d.rule) : r \in RecordsAt(t, d.line)}
      BY <1>3 DEF Looks
    <2>2. PICK r : k \in Offenders(t, r, d.rule)
      BY <2>1
    <2>3. QED BY <2>2 DEF Offenders
  <1>4. QED BY <1>1, <1>2, <1>3

\* An element without its offence is an element that is otherwise the same.
LEMMA WithoutType ==
  ASSUME NEW e \in Element, NEW rule
  PROVE  /\ Without(e, rule) \in Element
         /\ Without(e, rule).offence = "none" /\ Without(e, rule).custom = e.custom
         /\ Without(e, rule).record = e.record /\ Without(e, rule).hard = e.hard
  <1> DEFINE t == IF rule = "chatter" THEN 1 ELSE e.tag
             n == CASE rule = "chatter" -> 0 [] rule = "fields" -> e.rest + 1 [] OTHER -> e.rest
  <1>1. Without(e, rule) = [e EXCEPT !.offence = "none", !.tag = t, !.rest = n]
    BY DEF Without
  <1>2. e.tag \in 1..2 /\ e.rest \in Nat
    BY DEF Element
  <1>3. t \in 1..2
    BY <1>2
  <1>4. n \in Nat
    <2>1. CASE rule = "chatter"
      BY <2>1
    <2>2. CASE rule = "fields"
      BY <1>2, <2>2
    <2>3. CASE rule # "chatter" /\ rule # "fields"
      BY <1>2, <2>3
    <2>4. QED BY <2>1, <2>2, <2>3
  <1> HIDE DEF t, n
  <1>5. QED BY <1>1, <1>3, <1>4 DEF Element

\* A fixer changes an element that has the offence, and no chatter that is not plain.
LEMMA FixerKeeps ==
  ASSUME NEW t, IsText(t), NEW d, FixerResult(t, d) # None
  PROVE  /\ IsText(FixerResult(t, d)) /\ DOMAIN FixerResult(t, d).elements = DOMAIN t.elements
         /\ \A k \in DOMAIN t.elements :
              t.elements[k].custom => /\ FixerResult(t, d).elements[k].custom
                                      /\ t.elements[k].offence = "chatter"
                                           => FixerResult(t, d).elements[k].offence = "chatter"
  <1> DEFINE els == [k \in DOMAIN t.elements |-> IF k \in Easy(t, d) THEN Without(t.elements[k], d.rule) ELSE t.elements[k]]
             new == FixerResult(t, d)
  <1>1. new = Changed(t, d) /\ ~(\E k \in Looks(t, d) : d.rule = "chatter" /\ t.elements[k].custom)
    BY DEF FixerResult
  <1>2. new = [t EXCEPT !.elements = els]
    BY <1>1 DEF Changed
  <1>3. t.elements \in Seq(Element) /\ t.whole \in BOOLEAN /\ t \in Texts
    BY DEF IsText, Texts
  <1>4. \A k \in DOMAIN t.elements : t.elements[k] \in Element
    BY <1>3
  <1>5. \A k \in DOMAIN t.elements :
          /\ els[k] \in Element /\ els[k].custom = t.elements[k].custom /\ els[k].record = t.elements[k].record
          /\ els[k].offence \in {"none", t.elements[k].offence}
    BY <1>4, WithoutType
  <1>6. ASSUME NEW k \in DOMAIN t.elements, t.elements[k].custom, t.elements[k].offence = "chatter"
        PROVE  els[k] = t.elements[k]
    BY <1>1, <1>6, LooksOffend DEF Easy
  <1>7. els \in Seq(Element)
    <2>1. DOMAIN t.elements = 1..Len(t.elements) /\ Len(t.elements) \in Nat
      BY <1>3
    <2>2. els \in [1..Len(t.elements) -> Element]
      BY <1>5, <2>1
    <2> QED BY <2>1, <2>2
  <1> HIDE DEF els, new
  <1>8. new \in Texts /\ new.elements = els
    BY <1>2, <1>3, <1>7 DEF Texts
  <1>9. DOMAIN els = DOMAIN t.elements
    BY DEF els
  <1>10. IsText(new)
    <2> SUFFICES ASSUME NEW j \in DOMAIN els, NEW k \in DOMAIN els, els[j].offence = "fields"
                 PROVE  els[k].offence \in {"fields", "none"}
      BY <1>8 DEF IsText
    <2>1. t.elements[j].offence = "fields"
      BY <1>5, <1>9
    <2>2. t.elements[k].offence \in {"fields", "none"}
      BY <1>9, <2>1 DEF IsText
    <2> QED BY <1>5, <1>9, <2>2
  <1>11. QED BY <1>5, <1>6, <1>8, <1>9, <1>10 DEF new

\* Every step keeps the texts well-formed and the findings about them.
LEMMA TextsStep == FixInv /\ TextsInv /\ [Next]_vars => TextsInv'
  <1> SUFFICES ASSUME FixInv, TextsInv, [Next]_vars PROVE TextsInv'
    OBVIOUS
  <1>1. DOMAIN disk = File /\ DOMAIN changed = File
    BY DEF FixInv, WritesInv
  <1> USE DEF Rest, run
  <1>2. ASSUME NEW f \in File, Save(f) PROVE TextsInv'
    <2>1. PICK t \in TextsOf[f] \cup {None} : disk' = [disk EXCEPT ![f] = t]
      BY <1>2 DEF Save
    <2>2. t = None \/ IsText(t)
      BY FixerAssumption DEF FixerAssumption
    <2>3. QED BY <1>1, <1>2, <2>1, <2>2 DEF Save, TextsInv
  <1>3. ASSUME NEW f \in File, ScanFile(f) \/ WriteTemp(f) PROVE TextsInv'
    BY <1>3 DEF ScanFile, WriteTemp, TextsInv
  <1>4. ASSUME NEW f \in File, ReadFile(f) PROVE TextsInv'
    <2>1. disk[f] = None \/ IsText(disk[f])
      BY DEF TextsInv
    <2>2. CASE UNCHANGED <<at, text, original>>
      BY <1>4, <2>2 DEF ReadFile, TextsInv
    <2>3. CASE disk[f] # None /\ text' = disk[f] /\ original' = disk[f]
      <3>1. CarriesCustom(disk[f], disk[f])
        BY DEF CarriesCustom
      <3>2. CarriesCustom(text', original')
        BY <2>3, <3>1
      <3>3. IsText(text')
        BY <2>1, <2>3
      <3>4. QED BY <1>4, <2>3, <3>2, <3>3 DEF ReadFile, TextsInv
    <2>4. QED BY <1>4, <2>2, <2>3 DEF ReadFile
  <1>5. ASSUME NEW d \in queue, Apply(d) PROVE TextsInv'
    <2>1. text # None /\ original # None /\ IsText(text) /\ CarriesCustom(text, original)
      BY <1>5 DEF Apply, TextsInv
    <2>2. UNCHANGED <<disk, pc, at, original, changed, temp>>
      BY <1>5 DEF Apply
    <2>3. CASE text' = text
      BY <2>1, <2>2, <2>3 DEF TextsInv
    <2>4. CASE FixerResult(text, d) # None /\ text' = FixerResult(text, d)
      <3>1. IsText(text') /\ CarriesCustom(text', original')
        BY <2>1, <2>2, <2>4, FixerKeeps DEF CarriesCustom
      <3>2. QED BY <2>1, <2>2, <2>4, <3>1 DEF TextsInv
    <2>5. QED BY <1>5, <2>3, <2>4 DEF Apply
  <1>6. CASE EndFile
    <2>1. at \in File /\ IsText(text)
      BY <1>6, FixerAssumption DEF EndFile, FixInv, WritesInv, FixerAssumption, TextsInv
    <2>2. QED BY <1>1, <1>6, <2>1 DEF EndFile, TextsInv
  <1>7. CASE Replace
    <2>1. IsText(temp)
      BY <1>7 DEF Replace, TextsInv
    <2>2. QED BY <1>1, <1>7, <2>1 DEF Replace, TextsInv
  <1>8. CASE StartFixing \/ EndFixing \/ EndWriting \/ Kill \/ UNCHANGED vars
    BY <1>8 DEF StartFixing, EndFixing, EndWriting, Kill, vars, TextsInv
  <1>9. QED BY <1>2, <1>3, <1>4, <1>5, <1>6, <1>7, <1>8 DEF Next

\* A chatter that is not a plain one stays in every text the fixers compute, also when it is
\* written between the scan and the fix (is_plain_chatter_div).
THEOREM CustomStays == Spec => []CustomKept
  <1>1. Init => TextsInv
    BY FixerAssumption DEF Init, TextsInv, FixerAssumption
  <1>2. FixInv /\ TextsInv /\ [Next]_vars => TextsInv'
    BY TextsStep
  <1>3. TextsInv => CustomKept
    BY DEF TextsInv, CustomKept, CarriesCustom
  <1>4. QED BY <1>1, <1>2, <1>3, FixInvariant, PTL DEF Spec
-----------------------------------------------------------------------------
(* Fixing from the last line to the first *)

\* The elements that the finding d of t is about, and those that its fixer changes.
Members(t, d) ==
  {k \in Offending(t, d.rule) :
     /\ d.rule = "rename" => TagLine(t, k) = d.line
     /\ d.rule \in {"chatter", "tree"} =>
          \E h \in DOMAIN t.elements : TagLine(t, h) = d.line /\ t.elements[h].record = t.elements[k].record}

Mendable(t, d) ==
  {k \in Members(t, d) : /\ ~t.elements[k].hard
                         /\ d.rule = "fields" \/ \A j \in Members(t, d) : ~t.elements[j].hard}

\* t when the findings in D are fixed.
Mended(t, D) ==
  [t EXCEPT !.elements = [k \in DOMAIN @ |-> IF \E d \in D : k \in Mendable(t, d) THEN Without(@[k], @[k].offence)
                                            ELSE @[k]]]

\* S holds what is reported when the findings in D are dealt with.
Reports(t, D, S) ==
  \A d \in D : \A k \in Members(t, d) : t.elements[k].hard =>
    IF d.rule = "fields" THEN (\E x \in S : x.rule = "fields") \/ (D = {d} /\ Mendable(t, d) # {})
                         ELSE d \in S

\* The finding d comes before those in D.
Ahead(d, D) == \A e \in D : d.line < e.line \/ d.rule = "fields"

\* What is left to a fixer it declines, and it is reported.
Done(t, S) == \A d \in Chosen(Findings(t)) : FixerResult(t, d) = None /\ \E e \in S : e.rule = d.rule

\* What the run has made of the file.
Outcome(f) == IF changed[f] = None THEN disk[f] ELSE changed[f]

\* Every file is as the scan found it, and those that are dealt with are done; the text being fixed is the file
\* with the findings behind those in the queue fixed, and what they left is reported.
FixingInv ==
  /\ DOMAIN skipped = File
  /\ \A f \in File : findings[f] = Findings(disk[f])
  /\ todo \subseteq {f \in File : Chosen(findings[f]) # {}} /\ at \notin todo
  /\ \A f \in Inside \ (todo \cup {at}) : Done(Outcome(f), skipped[f])
  /\ at = None => queue = {}
  /\ at # None =>
       LET all == Chosen(findings[at]) IN
       /\ at \in Inside /\ original = disk[at] /\ original # None
       /\ queue \subseteq all /\ text = Mended(original, all \ queue)
       /\ \A d \in queue : Ahead(d, all \ queue)
       /\ Reports(original, all \ queue, skipped[at])

WritingInv ==
  /\ \A f \in Inside : /\ Done(Outcome(f), skipped[f])
                       /\ changed[f] = None \/ f \in todo \/ f = at \/ disk[f] = changed[f]
  /\ temp = None <=> at = None
  /\ temp # None => temp = changed[at]

QuietInv ==
  quiet =>
    /\ pc = "scan" => /\ DOMAIN findings = File /\ DOMAIN skipped = File /\ todo \subseteq File /\ at = None /\ queue = {}
                      /\ \A f \in File : changed[f] = None /\ (f \notin todo => findings[f] = Findings(disk[f]))
    /\ pc = "fix" => FixingInv
    /\ pc = "write" => WritingInv
    /\ FixFinishes

\* What a text is made of.
LEMMA ElementTypes ==
  ASSUME NEW t \in Texts
  PROVE  /\ Len(t.elements) \in Nat /\ DOMAIN t.elements = 1..Len(t.elements)
         /\ \A k \in DOMAIN t.elements :
              t.elements[k] \in Element /\ t.elements[k].tag \in 1..2 /\ t.elements[k].rest \in Nat
  <1>1. t.elements \in Seq(Element)
    BY DEF Texts
  <1>2. Len(t.elements) \in Nat /\ DOMAIN t.elements = 1..Len(t.elements)
    BY <1>1
  <1>3. \A k \in DOMAIN t.elements : t.elements[k] \in Element
    BY <1>1
  <1>4. \A e \in Element : e.tag \in 1..2 /\ e.rest \in Nat
    BY DEF Element
  <1> QED BY <1>2, <1>3, <1>4

\* Lines: each element ends its own tag and content after the one before.
LEMMA LinesAddUp ==
  ASSUME NEW t \in Texts
  PROVE  /\ LastLine(t, 0) = 0
         /\ \A k \in 0..Len(t.elements) : LastLine(t, k) \in Nat
         /\ \A k \in DOMAIN t.elements : LastLine(t, k) = LastLine(t, k - 1) + t.elements[k].tag + t.elements[k].rest
  <1> DEFINE N == Len(t.elements)
             Size(n) == t.elements[n].tag + t.elements[n].rest
             step == [p \in Nat \X (1..N) |-> p[1] + Size(p[2])]
             Sum(f, n) == IF n = 0 THEN 0 ELSE f[n - 1] + t.elements[n].tag + t.elements[n].rest
             F == CHOOSE f : f = [n \in 0..N |-> Sum(f, n)]
  <1>1. N \in Nat /\ DOMAIN t.elements = 1..N
    BY ElementTypes
  <1>2. \A n \in 1..N : t.elements[n].tag \in Nat /\ t.elements[n].rest \in Nat /\ Size(n) \in Nat
    <2>1. \A n \in 1..N : t.elements[n].tag \in Nat /\ t.elements[n].rest \in Nat
      BY <1>1, ElementTypes
    <2> QED BY <2>1
  <1>3. step \in [Nat \X (1..N) -> Nat] /\ \A m \in Nat, n \in 1..N : step[<<m, n>>] = m + Size(n)
    <2> HIDE DEF Size, N
    <2> QED BY <1>2
  <1>4. PICK f \in [0..N -> Nat] : Recursive(f, 0..N, 0, step)
    <2> HIDE DEF step, N
    <2> QED BY <1>1, <1>3, IntervalRecursion
  <1>5. ASSUME NEW n \in 0..N PROVE f[n] = Sum(f, n)
    <2>1. CASE n = 0
      <3> HIDE DEF step
      <3> QED BY <1>4, <2>1 DEF Recursive
    <2>2. CASE n # 0
      <3>1. n \in 1..N /\ n - 1 \in 0..N
        BY <1>1, <2>2
      <3>2. f[n - 1] \in Nat
        BY <1>4, <3>1
      <3>3. f[n] = step[<<f[n - 1], n>>]
        <4> HIDE DEF step
        <4> QED BY <1>4, <2>2 DEF Recursive
      <3>4. f[n] = f[n - 1] + Size(n)
        <4> HIDE DEF step, Size, N
        <4> QED BY <1>3, <3>1, <3>2, <3>3
      <3> QED BY <1>2, <2>2, <3>1, <3>2, <3>4
    <2> QED BY <2>1, <2>2
  <1>6. f = [n \in 0..N |-> Sum(f, n)]
    <2> HIDE DEF step, Sum, N
    <2>1. f = [n \in 0..N |-> f[n]]
      BY <1>4
    <2> QED BY <1>5, <2>1
  <1>7. F = [n \in 0..N |-> Sum(F, n)]
    <2> HIDE DEF Sum, N
    <2> QED BY <1>6
  <1> HIDE DEF F
  <1>8. \A n \in 0..N : F[n] = Sum(F, n)
    <2> HIDE DEF Sum, N
    <2> QED BY <1>7
  <1>9. \A k : LastLine(t, k) = F[k]
    BY DEF LastLine, F
  <1>10. \A n \in 0..N : F[n] \in Nat
    <2> DEFINE S == {k \in Nat : k <= N => F[k] \in Nat}
    <2>1. 0 \in S
      BY <1>1, <1>8
    <2>2. ASSUME NEW k \in Nat, k \in S PROVE k + 1 \in S
      <3> SUFFICES ASSUME k + 1 <= N PROVE F[k + 1] \in Nat
        OBVIOUS
      <3>1. k + 1 \in 0..N /\ k + 1 \in 1..N /\ (k + 1) - 1 = k /\ k + 1 # 0 /\ F[k] \in Nat
        BY <1>1, <2>2
      <3>2. F[k + 1] = F[k] + t.elements[k + 1].tag + t.elements[k + 1].rest
        BY <1>8, <3>1
      <3> QED BY <1>2, <3>1, <3>2
    <2> HIDE DEF S
    <2>3. Nat \subseteq S
      BY <2>1, <2>2, NatSetInduction
    <2> QED BY <1>1, <2>3 DEF S
  <1>11. \A k \in DOMAIN t.elements : F[k] = F[k - 1] + t.elements[k].tag + t.elements[k].rest
    BY <1>1, <1>8
  <1>12. F[0] = 0
    BY <1>1, <1>8
  <1>13. QED BY <1>9, <1>10, <1>11, <1>12

\* An element begins after the ones before it have ended.
LEMMA LinesGrow ==
  ASSUME NEW t \in Texts
  PROVE  \A j, k \in 0..Len(t.elements) : j < k => LastLine(t, j) < LastLine(t, k)
  <1> DEFINE N == Len(t.elements)
             S == {k \in Nat : k <= N => \A j \in 0..N : j < k => LastLine(t, j) < LastLine(t, k)}
  <1>1. N \in Nat /\ DOMAIN t.elements = 1..N
    BY ElementTypes
  <1>2. 0 \in S
    BY <1>1
  <1>3. ASSUME NEW k \in Nat, k \in S PROVE k + 1 \in S
    <2> SUFFICES ASSUME k + 1 <= N, NEW j \in 0..N, j < k + 1 PROVE LastLine(t, j) < LastLine(t, k + 1)
      OBVIOUS
    <2>1. k + 1 \in DOMAIN t.elements /\ (k + 1) - 1 = k /\ k \in 0..N /\ k <= N
      BY <1>1
    <2>2. t.elements[k + 1].tag \in 1..2 /\ t.elements[k + 1].rest \in Nat
      BY <2>1, ElementTypes
    <2>3. LastLine(t, k) \in Nat /\ LastLine(t, j) \in Nat
      BY <2>1, LinesAddUp
    <2>5. LastLine(t, k + 1) = LastLine(t, k) + t.elements[k + 1].tag + t.elements[k + 1].rest
      BY <2>1, LinesAddUp
    <2>6. LastLine(t, k + 1) > LastLine(t, k) /\ LastLine(t, k + 1) \in Nat
      <3>1. \A a, c \in Nat, b \in 1..2 : a + b + c > a /\ a + b + c \in Nat
        OBVIOUS
      <3> QED BY <2>2, <2>3, <2>5, <3>1
    <2>4. j = k \/ LastLine(t, j) < LastLine(t, k)
      BY <1>1, <1>3, <2>1
    <2> QED BY <2>3, <2>4, <2>6
  <1> HIDE DEF S
  <1>4. Nat \subseteq S
    BY <1>2, <1>3, NatSetInduction
  <1> QED BY <1>1, <1>4 DEF S

\* Where a tag ends: within its element, so on a line of its own.
LEMMA TagLines ==
  ASSUME NEW t \in Texts
  PROVE  /\ \A k \in DOMAIN t.elements :
              /\ TagLine(t, k) \in Nat /\ FirstLine(t, k) \in Nat /\ LastLine(t, k) \in Nat
              /\ TagLine(t, k) = LastLine(t, k - 1) + t.elements[k].tag
              /\ FirstLine(t, k) <= TagLine(t, k) /\ TagLine(t, k) <= LastLine(t, k)
         /\ \A j, k \in DOMAIN t.elements : j < k => LastLine(t, j) < FirstLine(t, k) /\ TagLine(t, j) < TagLine(t, k)
  <1>1. Len(t.elements) \in Nat /\ DOMAIN t.elements = 1..Len(t.elements)
    BY DEF Texts
  <1>2. ASSUME NEW k \in DOMAIN t.elements
        PROVE  /\ TagLine(t, k) \in Nat /\ FirstLine(t, k) \in Nat /\ LastLine(t, k) \in Nat
               /\ TagLine(t, k) = LastLine(t, k - 1) + t.elements[k].tag
               /\ FirstLine(t, k) <= TagLine(t, k) /\ TagLine(t, k) <= LastLine(t, k)
    <2>1. t.elements[k].tag \in 1..2 /\ t.elements[k].rest \in Nat
      BY ElementTypes
    <2>2. k - 1 \in 0..Len(t.elements) /\ k \in 0..Len(t.elements)
      BY <1>1
    <2>3. LastLine(t, k - 1) \in Nat /\ LastLine(t, k) = LastLine(t, k - 1) + t.elements[k].tag + t.elements[k].rest
      BY <2>2, LinesAddUp
    <2> QED BY <2>1, <2>3 DEF TagLine, FirstLine
  <1>3. ASSUME NEW j \in DOMAIN t.elements, NEW k \in DOMAIN t.elements, j < k
        PROVE  LastLine(t, j) < FirstLine(t, k)
    <2>1. j \in 0..Len(t.elements) /\ k - 1 \in 0..Len(t.elements) /\ (j = k - 1 \/ j < k - 1)
      BY <1>1, <1>3
    <2>2. LastLine(t, j) \in Nat /\ LastLine(t, k - 1) \in Nat
      BY <2>1, LinesAddUp
    <2>3. LastLine(t, j) <= LastLine(t, k - 1)
      BY <2>1, <2>2, LinesGrow
    <2> QED BY <2>2, <2>3 DEF FirstLine
  <1>4. ASSUME NEW j \in DOMAIN t.elements, NEW k \in DOMAIN t.elements, j < k
        PROVE  TagLine(t, j) < TagLine(t, k)
    BY <1>2, <1>3, <1>4
  <1> QED BY <1>2, <1>3, <1>4

\* Two tags end on two lines.
LEMMA TagLinesDiffer ==
  ASSUME NEW t \in Texts, NEW j \in DOMAIN t.elements, NEW k \in DOMAIN t.elements, TagLine(t, j) = TagLine(t, k)
  PROVE  j = k
  <1>1. j \in Nat /\ k \in Nat
    BY ElementTypes
  <1>2. ~(j < k) /\ ~(k < j)
    BY TagLines
  <1> QED BY <1>1, <1>2

\* Lines depend on the elements up to there.
LEMMA SameLines ==
  ASSUME NEW t \in Texts, NEW u \in Texts, DOMAIN t.elements = DOMAIN u.elements,
         NEW m \in DOMAIN t.elements, \A k \in DOMAIN t.elements : k <= m => t.elements[k] = u.elements[k]
  PROVE  TagLine(t, m) = TagLine(u, m)
  <1> DEFINE S == {k \in Nat : k <= m => LastLine(t, k) = LastLine(u, k)}
  <1>1. m \in Nat /\ DOMAIN t.elements = 1..Len(t.elements) /\ Len(t.elements) \in Nat
    BY DEF Texts
  <1>2. 0 \in S
    BY LinesAddUp
  <1>3. ASSUME NEW k \in Nat, k \in S PROVE k + 1 \in S
    <2> SUFFICES ASSUME k + 1 <= m PROVE LastLine(t, k + 1) = LastLine(u, k + 1)
      OBVIOUS
    <2>1. k + 1 \in DOMAIN t.elements /\ k + 1 \in DOMAIN u.elements /\ (k + 1) - 1 = k /\ k <= m
      BY <1>1
    <2>2. LastLine(t, k) = LastLine(u, k) /\ t.elements[k + 1] = u.elements[k + 1]
      BY <1>1, <1>3, <2>1
    <2>3. LastLine(t, k + 1) = LastLine(t, k) + t.elements[k + 1].tag + t.elements[k + 1].rest
      BY <2>1, LinesAddUp
    <2>4. LastLine(u, k + 1) = LastLine(u, k) + u.elements[k + 1].tag + u.elements[k + 1].rest
      BY <2>1, LinesAddUp
    <2> QED BY <2>2, <2>3, <2>4
  <1> HIDE DEF S
  <1>4. Nat \subseteq S
    BY <1>2, <1>3, NatSetInduction
  <1>5. LastLine(t, m) = LastLine(u, m)
    BY <1>1, <1>4 DEF S
  <1>6. t.elements[m] = u.elements[m]
    BY <1>1
  <1> QED BY <1>5, <1>6 DEF TagLine

\* The first of a set of numbers belongs to it and is at most every other.
LEMMA FirstIs ==
  ASSUME NEW S \in SUBSET Nat, S # {}
  PROVE  First(S) \in S /\ \A l \in S : First(S) <= l
  <1>1. \E k \in S : \A l \in S : k <= l
    BY LeastNat
  <1> QED BY <1>1 DEF First

\* The finding d is reported at h: at its field or tag, or at the first one of its record.
HeadOf(t, d, h) ==
  /\ h \in Offending(t, d.rule) /\ d.rule \in Rule /\ d.high \in BOOLEAN
  /\ d = [line  |-> IF d.rule = "fields" THEN 1 ELSE TagLine(t, h), rule |-> d.rule, high |-> d.high,
          field |-> IF d.rule = "fields" THEN h ELSE 0]
  /\ d.rule \in {"fields", "rename"} => d.high
  /\ d.rule \in {"chatter", "tree"} =>
       /\ \A k \in Offenders(t, t.elements[h].record, d.rule) : h <= k
       /\ d.high <=> \A k \in Offenders(t, t.elements[h].record, d.rule) : ~t.elements[k].custom

\* A finding names an offending element of a file that parses.
LEMMA FindingHead ==
  ASSUME NEW t \in Texts, NEW d \in Findings(t)
  PROVE  t.whole /\ \E h : HeadOf(t, d, h)
  <1> DEFINE Rules(r) == {x \in {"chatter", "tree"} : Offenders(t, r, x) # {}}
             Clear(r, rule) == \A k \in Offenders(t, r, rule) : ~t.elements[k].custom
             Of(r, rule) == [line |-> TagLine(t, First(Offenders(t, r, rule))), rule |-> rule, high |-> Clear(r, rule), field |-> 0]
             Named(k) == [line |-> TagLine(t, k), rule |-> "rename", high |-> TRUE, field |-> 0]
             Field(k) == [line |-> 1, rule |-> "fields", high |-> TRUE, field |-> k]
  <1>1. /\ t.whole
        /\ \/ d \in {Named(k) : k \in Offending(t, "rename")}
           \/ d \in {Field(k) : k \in Offending(t, "fields")}
           \/ d \in UNION {{Of(r, rule) : rule \in Rules(r)} : r \in {t.elements[k].record : k \in DOMAIN t.elements}}
    <2>1. t.whole
      BY DEF Findings
    <2> QED BY <2>1 DEF Findings
  <1>2. ASSUME NEW k \in Offending(t, "rename"), d = Named(k) PROVE HeadOf(t, d, k)
    <2>1. d.rule = "rename" /\ d.high = TRUE
      BY <1>2
    <2>2. d = [line |-> TagLine(t, k), rule |-> d.rule, high |-> d.high, field |-> 0]
      BY <1>2, <2>1
    <2> QED BY <2>1, <2>2 DEF HeadOf, Rule
  <1>3. ASSUME NEW k \in Offending(t, "fields"), d = Field(k) PROVE HeadOf(t, d, k)
    <2>1. d.rule = "fields" /\ d.high = TRUE
      BY <1>3
    <2>2. d = [line |-> 1, rule |-> d.rule, high |-> d.high, field |-> k]
      BY <1>3, <2>1
    <2> QED BY <2>1, <2>2 DEF HeadOf, Rule
  <1>4. ASSUME NEW r, NEW rule \in Rules(r), d = Of(r, rule)
        PROVE  HeadOf(t, d, First(Offenders(t, r, rule)))
    <2> DEFINE O == Offenders(t, r, rule)
               h == First(O)
               c == Clear(r, rule)
    <2>1. O \subseteq DOMAIN t.elements /\ O \subseteq Nat /\ O # {}
      BY ElementTypes DEF Offenders
    <2>2. h \in O /\ \A l \in O : h <= l
      <3> HIDE DEF O
      <3> QED BY <2>1, FirstIs
    <2>3. d = [line |-> TagLine(t, h), rule |-> rule, high |-> c, field |-> 0]
      BY <1>4
    <2>4. c \in BOOLEAN /\ (c <=> \A k \in O : ~t.elements[k].custom)
      OBVIOUS
    <2>5. t.elements[h].record = r /\ t.elements[h].offence = rule /\ rule \in {"chatter", "tree"}
      BY <2>2 DEF Offenders
    <2> HIDE DEF h, c
    <2>6. d.rule = rule /\ d.high = c /\ d = [line |-> TagLine(t, h), rule |-> d.rule, high |-> d.high, field |-> 0]
      BY <2>3
    <2>7. h \in Offending(t, d.rule)
      BY <2>1, <2>2, <2>5, <2>6 DEF Offending
    <2>8. HeadOf(t, d, h)
      BY <2>2, <2>4, <2>5, <2>6, <2>7 DEF HeadOf, Rule
    <2> QED BY <2>8 DEF h
  <1> QED BY <1>1, <1>2, <1>3, <1>4

\* It is about the fields of the manifest, about that element alone, or about its record's offenders, none of
\* which is before it.
LEMMA HeadMembers ==
  ASSUME NEW t \in Texts, NEW d, NEW h, HeadOf(t, d, h)
  PROVE  /\ h \in Members(t, d)
         /\ d.rule = "fields" => Members(t, d) = Offending(t, d.rule)
         /\ d.rule = "rename" => Members(t, d) = {h}
         /\ d.rule \in {"chatter", "tree"} => Members(t, d) = Offenders(t, t.elements[h].record, d.rule)
         /\ d.rule # "fields" => d.line = TagLine(t, h) /\ \A k \in Members(t, d) : h <= k
  <1>1. h \in DOMAIN t.elements /\ t.elements[h].offence = d.rule /\ h \in Offending(t, d.rule) /\ d.rule \in Rule
    BY DEF HeadOf, Offending
  <1>2. ASSUME d.rule # "fields" PROVE d.line = TagLine(t, h)
    BY <1>2 DEF HeadOf
  <1>3. ASSUME d.rule # "fields" PROVE \A k \in DOMAIN t.elements : TagLine(t, k) = d.line <=> k = h
    BY <1>1, <1>2, <1>3, TagLinesDiffer
  <1>4. h <= h
    BY <1>1, ElementTypes
  <1>5. CASE d.rule = "fields"
    <2>1. Members(t, d) = Offending(t, d.rule)
      BY <1>5 DEF Members
    <2> QED BY <1>1, <1>5, <2>1
  <1>6. CASE d.rule = "rename"
    <2>1. Members(t, d) = {h}
      BY <1>1, <1>3, <1>6 DEF Members, Offending
    <2> QED BY <1>2, <1>4, <1>6, <2>1
  <1>7. CASE d.rule \in {"chatter", "tree"}
    <2>1. Members(t, d) = Offenders(t, t.elements[h].record, d.rule)
      BY <1>1, <1>3, <1>7 DEF Members, Offending, Offenders
    <2>2. \A k \in Members(t, d) : h <= k
      BY <1>7, <2>1 DEF HeadOf
    <2>3. h \in Members(t, d)
      BY <1>1, <2>1 DEF Offenders
    <2> QED BY <1>2, <1>7, <2>1, <2>2, <2>3
  <1> QED BY <1>1, <1>5, <1>6, <1>7 DEF Rule

\* What a finding is about has the offence it names.
LEMMA MembersOffend ==
  \A t, d : \A k \in Members(t, d) : k \in DOMAIN t.elements /\ t.elements[k].offence = d.rule
  BY DEF Members, Offending

\* No element is in two findings and no two findings are on one line, except those of a manifest.
LEMMA FindingsApart ==
  ASSUME NEW t \in Texts, NEW d \in Findings(t), NEW e \in Findings(t)
  PROVE  /\ (\E k : k \in Members(t, d) /\ k \in Members(t, e)) => d = e \/ d.rule = "fields"
         /\ d.line = e.line => d = e \/ d.rule = "fields" \/ e.rule = "fields"
  <1>1. PICK h : HeadOf(t, d, h)
    BY FindingHead
  <1>2. PICK g : HeadOf(t, e, g)
    BY FindingHead
  <1>3. ASSUME NEW k, k \in Members(t, d), k \in Members(t, e), d.rule # "fields" PROVE d = e
    <2>1. d.rule = e.rule /\ d.rule \in Rule
      BY <1>1, <1>3, MembersOffend DEF HeadOf
    <2>2. h = g
      <3>1. CASE d.rule = "rename"
        <4>1. Members(t, d) = {h}
          BY <1>1, <3>1, HeadMembers
        <4>2. Members(t, e) = {g}
          BY <1>2, <2>1, <3>1, HeadMembers
        <4> QED BY <1>3, <4>1, <4>2
      <3>2. CASE d.rule \in {"chatter", "tree"}
        <4>1. /\ Members(t, d) = Offenders(t, t.elements[h].record, d.rule) /\ h \in Members(t, d)
              /\ \A x \in Members(t, d) : h <= x
          BY <1>1, <1>3, <3>2, HeadMembers
        <4>2. /\ Members(t, e) = Offenders(t, t.elements[g].record, d.rule) /\ g \in Members(t, e)
              /\ \A x \in Members(t, e) : g <= x
          BY <1>2, <1>3, <2>1, <3>2, HeadMembers
        <4>3. t.elements[h].record = t.elements[g].record
          BY <1>3, <4>1, <4>2 DEF Offenders
        <4>4. h <= g /\ g <= h /\ h \in DOMAIN t.elements /\ g \in DOMAIN t.elements
          BY <4>1, <4>2, <4>3 DEF Offenders
        <4> QED BY <4>4, ElementTypes
      <3> QED BY <1>3, <2>1, <3>1, <3>2 DEF Rule
    <2>3. d.high = e.high
      BY <1>1, <1>2, <1>3, <2>1, <2>2 DEF HeadOf, Rule
    <2> QED BY <1>1, <1>2, <2>1, <2>2, <2>3 DEF HeadOf
  <1>4. ASSUME d.line = e.line, d.rule # "fields", e.rule # "fields" PROVE d = e
    <2>1. h \in DOMAIN t.elements /\ g \in DOMAIN t.elements /\ TagLine(t, h) = TagLine(t, g)
      BY <1>1, <1>2, <1>4 DEF HeadOf, Offending
    <2>2. h = g
      BY <2>1, TagLinesDiffer
    <2>3. h \in Members(t, d) /\ h \in Members(t, e)
      BY <1>1, <1>2, <2>2, HeadMembers
    <2> QED BY <1>3, <1>4, <2>3
  <1> QED BY <1>3, <1>4

\* The findings of a manifest are all about its fields.
LEMMA ManifestFindings ==
  ASSUME NEW t, IsText(t), NEW d \in Findings(t), NEW e \in Findings(t), d.rule = "fields"
  PROVE  e.rule = "fields"
  <1>1. t \in Texts
    BY DEF IsText
  <1>2. PICK h : HeadOf(t, d, h)
    BY <1>1, FindingHead
  <1>3. PICK g : HeadOf(t, e, g)
    BY <1>1, FindingHead
  <1>4. t.elements[g].offence \in {"fields", "none"}
    BY <1>2, <1>3 DEF HeadOf, Offending, IsText
  <1> QED BY <1>3, <1>4 DEF HeadOf, Offending, Rule

\* Every offence is in a finding, and a missing field is in its own.
LEMMA OffencesFound ==
  ASSUME NEW t \in Texts, t.whole, NEW k \in DOMAIN t.elements, t.elements[k].offence \in Rule
  PROVE  \E d \in Findings(t) : k \in Members(t, d) /\ (d.rule = "fields" => d.field = k /\ d.high)
  <1> DEFINE rule == t.elements[k].offence
             r == t.elements[k].record
             O == Offenders(t, r, rule)
             Rules(q) == {x \in {"chatter", "tree"} : Offenders(t, q, x) # {}}
             Of(q, x) == [line |-> TagLine(t, First(Offenders(t, q, x))), rule |-> x,
                          high |-> \A j \in Offenders(t, q, x) : ~t.elements[j].custom, field |-> 0]
             Named(j) == [line |-> TagLine(t, j), rule |-> "rename", high |-> TRUE, field |-> 0]
             Field(j) == [line |-> 1, rule |-> "fields", high |-> TRUE, field |-> j]
  <1>1. Findings(t) = {Named(j) : j \in Offending(t, "rename")} \cup {Field(j) : j \in Offending(t, "fields")}
                      \cup UNION {{Of(q, x) : x \in Rules(q)} : q \in {t.elements[j].record : j \in DOMAIN t.elements}}
    <2>1. t # None
      BY FixerAssumption DEF FixerAssumption
    <2> QED BY <2>1 DEF Findings
  <1>2. k \in Offending(t, rule)
    BY DEF Offending
  <1>3. CASE rule = "rename"
    <2>1. Named(k) \in Findings(t)
      <3> HIDE DEF Of, Rules, Named, Field
      <3> QED BY <1>1, <1>2, <1>3
    <2>2. Named(k).rule = "rename" /\ Named(k).line = TagLine(t, k)
      OBVIOUS
    <2> HIDE DEF Named
    <2>3. k \in Members(t, Named(k))
      BY <1>2, <1>3, <2>2 DEF Members
    <2> QED BY <2>1, <2>2, <2>3
  <1>4. CASE rule = "fields"
    <2>1. Field(k) \in Findings(t)
      <3> HIDE DEF Of, Rules, Named, Field
      <3> QED BY <1>1, <1>2, <1>4
    <2>2. Field(k).rule = "fields" /\ Field(k).field = k /\ Field(k).high
      OBVIOUS
    <2> HIDE DEF Field
    <2>3. k \in Members(t, Field(k))
      BY <1>2, <1>4, <2>2 DEF Members
    <2> QED BY <2>1, <2>2, <2>3
  <1>5. CASE rule \in {"chatter", "tree"}
    <2>1. k \in O /\ O \subseteq DOMAIN t.elements /\ O \subseteq Nat
      BY ElementTypes DEF Offenders
    <2>2. First(O) \in O
      <3> HIDE DEF O
      <3> QED BY <2>1, FirstIs
    <2>3. rule \in Rules(r)
      BY <1>5, <2>1
    <2>4. Of(r, rule) \in Findings(t)
      <3> HIDE DEF Of, Rules, Named, Field
      <3> QED BY <1>1, <2>3
    <2>5. Of(r, rule).rule = rule /\ Of(r, rule).line = TagLine(t, First(O))
      OBVIOUS
    <2>6. First(O) \in DOMAIN t.elements /\ t.elements[First(O)].record = r
      BY <2>2 DEF Offenders
    <2>7. k \in Members(t, Of(r, rule))
      <3> HIDE DEF Of
      <3> QED BY <1>2, <1>5, <2>5, <2>6 DEF Members
    <2> QED BY <1>5, <2>4, <2>5, <2>7
  <1> QED BY <1>3, <1>4, <1>5 DEF Rule

\* The elements of the mended text.
LEMMA MendedText ==
  ASSUME NEW t \in Texts, NEW D
  PROVE  /\ Mended(t, D) \in Texts /\ Mended(t, D) # None /\ Mended(t, D).whole = t.whole
         /\ DOMAIN Mended(t, D).elements = DOMAIN t.elements
         /\ \A k \in DOMAIN t.elements :
              Mended(t, D).elements[k] = IF \E d \in D : k \in Mendable(t, d)
                                         THEN Without(t.elements[k], t.elements[k].offence) ELSE t.elements[k]
         /\ \A k \in DOMAIN t.elements : /\ Mended(t, D).elements[k].record = t.elements[k].record
                                         /\ Mended(t, D).elements[k].custom = t.elements[k].custom
                                         /\ Mended(t, D).elements[k].hard = t.elements[k].hard
                                         /\ Mended(t, D).elements[k].offence \in Rule
                                              => Mended(t, D).elements[k] = t.elements[k]
  <1> DEFINE els == [k \in DOMAIN t.elements |-> IF \E d \in D : k \in Mendable(t, d)
                                                 THEN Without(t.elements[k], t.elements[k].offence) ELSE t.elements[k]]
  <1>1. Mended(t, D) = [t EXCEPT !.elements = els]
    BY DEF Mended
  <1>2. \A k \in DOMAIN t.elements : /\ els[k] \in Element /\ els[k].record = t.elements[k].record
                                     /\ els[k].custom = t.elements[k].custom /\ els[k].hard = t.elements[k].hard
                                     /\ els[k] # t.elements[k] => els[k].offence = "none"
    BY ElementTypes, WithoutType
  <1>3. els \in [1..Len(t.elements) -> Element]
    <2>1. DOMAIN t.elements = 1..Len(t.elements)
      BY ElementTypes
    <2>2. \A k \in DOMAIN t.elements : els[k] \in Element
      BY <1>2
    <2> QED BY <2>1, <2>2
  <1>4. DOMAIN els = DOMAIN t.elements
    OBVIOUS
  <1>5. \A k \in DOMAIN t.elements : els[k] = IF \E d \in D : k \in Mendable(t, d)
                                              THEN Without(t.elements[k], t.elements[k].offence) ELSE t.elements[k]
    OBVIOUS
  <1> HIDE DEF els
  <1>6. els \in Seq(Element)
    BY <1>3, ElementTypes
  <1>7. Mended(t, D) \in Texts /\ Mended(t, D).elements = els /\ Mended(t, D).whole = t.whole
    BY <1>1, <1>6 DEF Texts
  <1>8. Mended(t, D) # None
    BY <1>7, FixerAssumption DEF FixerAssumption
  <1>9. "none" \notin Rule
    BY DEF Rule
  <1> QED BY <1>2, <1>4, <1>5, <1>7, <1>8, <1>9

\* Two texts with the same elements are the same.
LEMMA SameText ==
  ASSUME NEW t \in Texts, NEW u \in Texts, t.whole = u.whole, DOMAIN t.elements = DOMAIN u.elements,
         \A k \in DOMAIN t.elements : t.elements[k] = u.elements[k]
  PROVE  t = u
  <1>1. t.elements \in Seq(Element) /\ u.elements \in Seq(Element)
    BY DEF Texts
  <1>2. t.elements = [k \in DOMAIN t.elements |-> t.elements[k]] /\ u.elements = [k \in DOMAIN u.elements |-> u.elements[k]]
    BY <1>1
  <1>3. t.elements = u.elements
    BY <1>2
  <1> QED BY <1>3 DEF Texts

\* Nothing is mended without a finding.
LEMMA MendedNone ==
  ASSUME NEW t \in Texts PROVE Mended(t, {}) = t
  <1> DEFINE u == Mended(t, {})
  <1>1. /\ u \in Texts /\ t.whole = u.whole /\ DOMAIN t.elements = DOMAIN u.elements
        /\ \A k \in DOMAIN t.elements : t.elements[k] = u.elements[k]
    BY MendedText
  <1> HIDE DEF u
  <1>2. t = u
    BY <1>1, SameText
  <1> QED BY <1>2 DEF u

\* What is not behind the head of d is as it was.
LEMMA AboveKept ==
  ASSUME NEW t, IsText(t), NEW D \in SUBSET Findings(t), NEW d \in Findings(t), d.rule # "fields", Ahead(d, D),
         NEW h, HeadOf(t, d, h)
  PROVE  /\ \A k \in Members(t, d) : Mended(t, D).elements[k] = t.elements[k]
         /\ TagLine(Mended(t, D), h) = d.line
  <1> DEFINE u == Mended(t, D)
  <1>0. t \in Texts
    BY DEF IsText
  <1>1. h \in DOMAIN t.elements /\ d.line = TagLine(t, h) /\ d.line \in Nat
    <2>1. h \in DOMAIN t.elements /\ d.line = TagLine(t, h)
      BY <1>0, HeadMembers DEF HeadOf, Offending
    <2> QED BY <1>0, <2>1, TagLines
  <1>2. d \notin D /\ \A e \in D : d.line < e.line /\ e.rule # "fields"
    <2>1. \A e \in D : d.line < e.line
      BY DEF Ahead
    <2>2. \A e \in D : e.rule # "fields"
      BY ManifestFindings
    <2> QED BY <1>1, <2>1, <2>2
  <1>3. ASSUME NEW e \in D, NEW k \in Members(t, e) PROVE h < k
    <2>1. PICK g : HeadOf(t, e, g)
      BY <1>0, FindingHead
    <2>2. e.line = TagLine(t, g) /\ g <= k
      BY <1>0, <1>2, <2>1, HeadMembers
    <2>3. g \in DOMAIN t.elements /\ k \in DOMAIN t.elements
      BY <2>1, MembersOffend DEF HeadOf, Offending
    <2>4. h \in Nat /\ g \in Nat /\ k \in Nat
      BY <1>0, <1>1, <2>3, ElementTypes
    <2>5. TagLine(t, h) < TagLine(t, g) /\ TagLine(t, h) \in Nat /\ TagLine(t, g) \in Nat
      BY <1>0, <1>1, <1>2, <2>2, <2>3, TagLines
    <2>6. ~(g < h) /\ g # h
      BY <1>0, <1>1, <2>3, <2>5, TagLines
    <2> QED BY <2>2, <2>4, <2>6
  <1>4. ASSUME NEW k \in DOMAIN t.elements, k <= h PROVE u.elements[k] = t.elements[k]
    <2>1. h \in Nat /\ k \in Nat
      BY <1>0, <1>1, ElementTypes
    <2>2. ~(\E e \in D : k \in Mendable(t, e))
      BY <1>3, <1>4, <2>1 DEF Mendable
    <2> QED BY <1>0, <2>2, MendedText
  <1>5. ASSUME NEW k \in Members(t, d) PROVE u.elements[k] = t.elements[k]
    <2>1. ~(\E e \in D : k \in Mendable(t, e))
      BY <1>0, <1>2, FindingsApart DEF Mendable
    <2>2. k \in DOMAIN t.elements
      BY MembersOffend
    <2> QED BY <1>0, <2>1, <2>2, MendedText
  <1>6. TagLine(u, h) = TagLine(t, h)
    <2>1. u \in Texts /\ DOMAIN u.elements = DOMAIN t.elements
      BY <1>0, MendedText
    <2> HIDE DEF u
    <2> QED BY <1>0, <1>1, <1>4, <2>1, SameLines
  <1> QED BY <1>1, <1>5, <1>6

\* On the line of a tag there is one record.
LEMMA OneRecordThere ==
  ASSUME NEW u \in Texts, NEW h \in DOMAIN u.elements
  PROVE  RecordsAt(u, TagLine(u, h)) = {u.elements[h].record}
  <1> DEFINE l == TagLine(u, h)
             On == {x \in DOMAIN u.elements : l \in FirstLine(u, x)..LastLine(u, x)}
  <1>1. l \in Nat /\ l \in FirstLine(u, h)..LastLine(u, h)
    BY TagLines
  <1>2. ASSUME NEW x \in DOMAIN u.elements, l \in FirstLine(u, x)..LastLine(u, x) PROVE x = h
    <2>1. x \in Nat /\ h \in Nat
      BY ElementTypes
    <2>2. FirstLine(u, x) \in Nat /\ LastLine(u, x) \in Nat /\ FirstLine(u, x) <= l /\ l <= LastLine(u, x)
      BY <1>2, TagLines
    <2>3. ~(x < h)
      BY <1>1, <2>2, TagLines
    <2>4. ~(h < x)
      BY <1>1, <2>2, TagLines
    <2> QED BY <2>1, <2>3, <2>4
  <1>3. On = {h}
    BY <1>1, <1>2
  <1>4. RecordsAt(u, l) = {u.elements[k].record : k \in On}
    BY DEF RecordsAt
  <1> QED BY <1>3, <1>4

\* The fixer of the last finding still to come looks at what the scan reported.
LEMMA LooksAtMembers ==
  ASSUME NEW t, IsText(t), NEW D \in SUBSET Findings(t), NEW d \in Findings(t), d.rule # "fields", Ahead(d, D)
  PROVE  /\ Looks(Mended(t, D), d) = Members(t, d) /\ RecordsAt(Mended(t, D), d.line) # {}
         /\ Members(t, d) # {} /\ \A k \in Members(t, d) : Mended(t, D).elements[k] = t.elements[k]
  <1> DEFINE u == Mended(t, D)
  <1>0. t \in Texts
    BY DEF IsText
  <1>1. PICK h : HeadOf(t, d, h)
    BY <1>0, FindingHead
  <1>2. (\A k \in Members(t, d) : u.elements[k] = t.elements[k]) /\ TagLine(u, h) = d.line
    BY <1>1, AboveKept
  <1>3. /\ h \in Members(t, d) /\ d.rule \in Rule
        /\ \A k \in Members(t, d) : k \in DOMAIN t.elements /\ t.elements[k].offence = d.rule
    BY <1>0, <1>1, HeadMembers, MembersOffend DEF HeadOf
  <1>4. /\ u \in Texts /\ DOMAIN u.elements = DOMAIN t.elements
        /\ \A k \in DOMAIN t.elements : u.elements[k].record = t.elements[k].record
        /\ \A k \in DOMAIN t.elements : u.elements[k].offence = d.rule => t.elements[k].offence = d.rule
    BY <1>0, <1>3, MendedText
  <1> HIDE DEF u
  <1>5. RecordsAt(u, d.line) = {t.elements[h].record}
    BY <1>2, <1>3, <1>4, OneRecordThere
  <1>6. CASE d.rule = "rename"
    <2>1. Looks(u, d) = {k \in Offending(u, d.rule) : TagLine(u, k) = d.line}
      BY <1>6 DEF Looks
    <2>2. Members(t, d) = {h}
      BY <1>0, <1>1, <1>6, HeadMembers
    <2>3. \A k \in DOMAIN u.elements : TagLine(u, k) = d.line => k = h
      BY <1>2, <1>3, <1>4, TagLinesDiffer
    <2>4. u.elements[h].offence = d.rule
      BY <1>2, <1>3
    <2>5. Looks(u, d) = {h}
      BY <1>2, <1>3, <1>4, <2>1, <2>3, <2>4 DEF Offending
    <2> QED BY <1>2, <1>3, <1>5, <2>2, <2>5 DEF u
  <1>7. CASE d.rule \in {"chatter", "tree"}
    <2>1. Looks(u, d) = UNION {Offenders(u, r, d.rule) : r \in RecordsAt(u, d.line)}
      BY <1>7 DEF Looks
    <2>2. Looks(u, d) = Offenders(u, t.elements[h].record, d.rule)
      BY <1>5, <2>1
    <2>3. Members(t, d) = Offenders(t, t.elements[h].record, d.rule)
      BY <1>0, <1>1, <1>7, HeadMembers
    <2>4. Members(t, d) \subseteq Looks(u, d)
      BY <1>2, <1>4, <2>2, <2>3 DEF Offenders
    <2>5. Looks(u, d) \subseteq Members(t, d)
      BY <1>4, <2>2, <2>3 DEF Offenders
    <2>6. Looks(u, d) = Members(t, d)
      BY <2>4, <2>5
    <2> QED BY <1>2, <1>3, <1>5, <2>6 DEF u
  <1> QED BY <1>3, <1>6, <1>7 DEF Rule

\* A fixer that changes what can be changed of its finding, if that has not been done, makes the mended text.
LEMMA ChangedIsMended ==
  ASSUME NEW t \in Texts, NEW D, NEW d,
         \A k \in Easy(Mended(t, D), d) : k \in Mendable(t, d) /\ Mended(t, D).elements[k] = t.elements[k],
         \A k \in Mendable(t, d) : k \in Easy(Mended(t, D), d) \/ \E e \in D : k \in Mendable(t, e)
  PROVE  Changed(Mended(t, D), d) = Mended(t, D \cup {d})
  <1> DEFINE u == Mended(t, D)
             v == Mended(t, D \cup {d})
             els == [k \in DOMAIN u.elements |-> IF k \in Easy(u, d) THEN Without(u.elements[k], d.rule) ELSE u.elements[k]]
  <1>1. /\ u \in Texts /\ u.whole = t.whole /\ DOMAIN u.elements = DOMAIN t.elements
        /\ \A k \in DOMAIN t.elements :
             u.elements[k] = IF \E e \in D : k \in Mendable(t, e)
                             THEN Without(t.elements[k], t.elements[k].offence) ELSE t.elements[k]
    BY MendedText
  <1>2. /\ v \in Texts /\ v.whole = t.whole /\ DOMAIN v.elements = DOMAIN t.elements
        /\ \A k \in DOMAIN t.elements :
             v.elements[k] = IF \E e \in D \cup {d} : k \in Mendable(t, e)
                             THEN Without(t.elements[k], t.elements[k].offence) ELSE t.elements[k]
    BY MendedText
  <1>3. Changed(u, d) = [u EXCEPT !.elements = els]
    BY DEF Changed
  <1>4. /\ \A k \in Easy(u, d) : k \in Mendable(t, d) /\ u.elements[k] = t.elements[k]
        /\ \A k \in Mendable(t, d) : k \in Easy(u, d) \/ \E e \in D : k \in Mendable(t, e)
    OBVIOUS
  <1> HIDE DEF u, v
  <1>5. ASSUME NEW k \in DOMAIN t.elements PROVE els[k] = v.elements[k]
    <2>1. CASE k \in Easy(u, d)
      <3>1. k \in Mendable(t, d) /\ t.elements[k].offence = d.rule
        BY <1>4, <2>1, MembersOffend DEF Mendable
      <3>2. els[k] = Without(t.elements[k], d.rule)
        BY <1>1, <1>4, <2>1
      <3>3. v.elements[k] = Without(t.elements[k], t.elements[k].offence)
        BY <1>2, <3>1
      <3> QED BY <3>1, <3>2, <3>3
    <2>2. CASE k \notin Easy(u, d)
      <3>1. els[k] = u.elements[k]
        BY <1>1, <2>2
      <3>2. (\E e \in D \cup {d} : k \in Mendable(t, e)) <=> \E e \in D : k \in Mendable(t, e)
        BY <1>4, <2>2
      <3> HIDE DEF els
      <3> QED BY <1>1, <1>2, <3>1, <3>2
    <2> QED BY <2>1, <2>2
  <1>6. v.elements = [k \in DOMAIN t.elements |-> v.elements[k]]
    <2>1. v.elements \in Seq(Element)
      BY <1>2 DEF Texts
    <2> QED BY <1>2, <2>1
  <1>7. els = [k \in DOMAIN t.elements |-> els[k]]
    BY <1>1
  <1> HIDE DEF els
  <1>8. els = v.elements
    BY <1>5, <1>6, <1>7
  <1>9. Changed(u, d) = v
    BY <1>1, <1>2, <1>3, <1>8 DEF Texts
  <1> QED BY <1>9 DEF u, v

\* When there is nothing to be changed of its finding, nothing changes.
LEMMA NothingMended ==
  ASSUME NEW t \in Texts, NEW D, NEW d, \A k \in Mendable(t, d) : \E e \in D : k \in Mendable(t, e)
  PROVE  Mended(t, D \cup {d}) = Mended(t, D)
  <1> DEFINE u == Mended(t, D)
             v == Mended(t, D \cup {d})
  <1>1. u \in Texts /\ v \in Texts /\ u.whole = v.whole /\ DOMAIN u.elements = DOMAIN v.elements
    BY MendedText
  <1>2. \A k \in DOMAIN u.elements : u.elements[k] = v.elements[k]
    <2> SUFFICES ASSUME NEW k \in DOMAIN t.elements PROVE u.elements[k] = v.elements[k]
      BY MendedText
    <2>1. (\E e \in D \cup {d} : k \in Mendable(t, e)) <=> \E e \in D : k \in Mendable(t, e)
      OBVIOUS
    <2> QED BY <2>1, MendedText
  <1> HIDE DEF u, v
  <1>3. u = v
    BY <1>1, <1>2, SameText
  <1> QED BY <1>3 DEF u, v

\* What a fixer does to the text that the fixers behind it have left: it mends what its finding is about and
\* can be mended, or declines, which is reported.
Mends(t, D, d) ==
  LET made == FixerResult(Mended(t, D), d)
  IN /\ made = None \/ made = Mended(t, D \cup {d})
     /\ made = None => Mended(t, D \cup {d}) = Mended(t, D)
     /\ \A S : Reports(t, D, S) => Reports(t, D \cup {d}, IF made = None THEN S \cup {d} ELSE S)

\* A view is mended record by record.
LEMMA ViewMends ==
  ASSUME NEW t, IsText(t), NEW D \in SUBSET Findings(t), NEW d \in Findings(t), d.high, Ahead(d, D), d.rule # "fields"
  PROVE  Mends(t, D, d)
  <1> DEFINE u == Mended(t, D)
             made == FixerResult(u, d)
             hard == \E k \in Members(t, d) : t.elements[k].hard
  <1>0. t \in Texts
    BY DEF IsText
  <1>1. PICK h : HeadOf(t, d, h)
    BY <1>0, FindingHead
  <1>2. /\ Looks(u, d) = Members(t, d) /\ RecordsAt(u, d.line) # {} /\ Members(t, d) # {}
        /\ \A k \in Members(t, d) : u.elements[k] = t.elements[k]
    BY LooksAtMembers
  <1>3. \A k \in Members(t, d) : d.rule = "chatter" => ~u.elements[k].custom
    <2> SUFFICES ASSUME NEW k \in Members(t, d), d.rule = "chatter" PROVE ~t.elements[k].custom
      BY <1>2
    <2>1. Members(t, d) = Offenders(t, t.elements[h].record, d.rule)
      BY <1>0, <1>1, HeadMembers
    <2> QED BY <1>1, <2>1 DEF HeadOf
  <1> HIDE DEF u
  <1>4. Easy(u, d) = {k \in Members(t, d) : ~t.elements[k].hard}
    BY <1>2 DEF Easy
  <1>5. ~Lost(u, d)
    BY <1>2 DEF Lost
  <1>6. CASE hard
    <2>1. TooHard(u, d)
      BY <1>2, <1>4, <1>6 DEF TooHard
    <2>2. made = None
      BY <2>1 DEF FixerResult
    <2>3. Mendable(t, d) = {}
      BY <1>6 DEF Mendable
    <2>4. Mended(t, D \cup {d}) = Mended(t, D)
      BY <1>0, <2>3, NothingMended
    <2>5. ASSUME NEW S, Reports(t, D, S) PROVE Reports(t, D \cup {d}, S \cup {d})
      <3>1. \A e \in D : e.rule # "fields"
        BY ManifestFindings
      <3> QED BY <2>5, <3>1 DEF Reports
    <2> QED BY <2>2, <2>4, <2>5 DEF Mends, u
  <1>7. CASE ~hard
    <2>1. ~TooHard(u, d) /\ Easy(u, d) = Members(t, d) /\ Mendable(t, d) = Members(t, d)
      BY <1>2, <1>4, <1>7 DEF TooHard, Mendable
    <2>2. made = Changed(u, d)
      BY <1>2, <1>3, <1>5, <2>1 DEF FixerResult
    <2>3. Changed(u, d) = Mended(t, D \cup {d})
      BY <1>0, <1>2, <2>1, ChangedIsMended DEF u
    <2>4. Mended(t, D \cup {d}) # None
      BY <1>0, MendedText
    <2>5. ASSUME NEW S, Reports(t, D, S) PROVE Reports(t, D \cup {d}, S)
      <3>1. \A e \in D : e.rule # "fields"
        BY ManifestFindings
      <3> QED BY <1>7, <2>5, <3>1 DEF Reports
    <2> QED BY <2>2, <2>3, <2>4, <2>5 DEF Mends, u
  <1> QED BY <1>6, <1>7

\* A manifest is mended with its first finding.
LEMMA ManifestMends ==
  ASSUME NEW t, IsText(t), NEW D \in SUBSET Findings(t), NEW d \in Findings(t), d.rule = "fields"
  PROVE  Mends(t, D, d)
  <1> DEFINE u == Mended(t, D)
             made == FixerResult(u, d)
             missing == Offending(t, "fields")
  <1>0. t \in Texts
    BY DEF IsText
  <1>1. t.whole /\ missing # {}
    BY <1>0, FindingHead DEF HeadOf
  <1>2. \A e : e.rule = "fields" => Members(t, e) = missing /\ Mendable(t, e) = {k \in missing : ~t.elements[k].hard}
    BY DEF Members, Mendable
  <1>3. \A e \in D : e.rule = "fields"
    BY ManifestFindings
  <1>4. u \in Texts /\ u.whole = t.whole /\ u # None
    BY <1>0, MendedText
  <1>5. made = IF TooHard(u, d) THEN None ELSE Changed(u, d)
    <2>1. ~Lost(u, d)
      BY <1>1, <1>4 DEF Lost
    <2> QED BY <2>1 DEF FixerResult
  <1>6. Looks(u, d) = Offending(u, "fields") /\ (TooHard(u, d) <=> Looks(u, d) # {} /\ Easy(u, d) = {})
    BY DEF Looks, TooHard
  <1>7. CASE D = {}
    <2>1. u = t
      BY <1>0, <1>7, MendedNone
    <2>2. Easy(u, d) = Mendable(t, d) /\ Looks(u, d) = missing
      BY <1>2, <1>6, <2>1 DEF Easy
    <2>3. TooHard(u, d) <=> Mendable(t, d) = {}
      BY <1>1, <1>6, <2>2
    <2>4. Changed(u, d) = Mended(t, D \cup {d}) /\ Mended(t, D \cup {d}) # None
      BY <1>0, <2>1, <2>2, ChangedIsMended, MendedText
    <2>5. Mendable(t, d) = {} => Mended(t, D \cup {d}) = Mended(t, D)
      BY <1>0, NothingMended
    <2>6. ASSUME NEW S PROVE Reports(t, D \cup {d}, IF made = None THEN S \cup {d} ELSE S)
      <3>1. D \cup {d} = {d}
        BY <1>7
      <3>2. CASE made = None
        BY <3>1, <3>2 DEF Reports
      <3>3. CASE made # None
        BY <1>5, <2>3, <3>1, <3>3 DEF Reports
      <3> QED BY <3>2, <3>3
    <2> HIDE DEF u
    <2>7. made = None \/ made = Mended(t, D \cup {d})
      BY <1>5, <2>4
    <2>8. made = None => Mended(t, D \cup {d}) = Mended(t, D)
      BY <1>5, <2>3, <2>4, <2>5
    <2> QED BY <2>6, <2>7, <2>8 DEF Mends, u
  <1>8. CASE D # {}
    <2>1. PICK e \in D : TRUE
      BY <1>8
    <2>2. Mendable(t, e) = Mendable(t, d)
      BY <1>2, <1>3
    <2>3. Mended(t, D \cup {d}) = u
      BY <1>0, <2>1, <2>2, NothingMended
    <2>4. Looks(u, d) = {k \in missing : t.elements[k].hard} /\ Easy(u, d) = {}
      <3>1. ASSUME NEW k \in DOMAIN t.elements
            PROVE  u.elements[k].offence = "fields" <=> k \in missing /\ t.elements[k].hard
        <4>1. CASE k \in Mendable(t, d)
          <5>1. u.elements[k] = Without(t.elements[k], t.elements[k].offence)
            BY <1>0, <2>1, <2>2, <4>1, MendedText
          <5>2. t.elements[k] \in Element
            BY <1>0, ElementTypes
          <5>3. u.elements[k].offence = "none"
            BY <5>1, <5>2, WithoutType
          <5> HIDE DEF u
          <5> QED BY <1>2, <4>1, <5>3
        <4>2. CASE k \notin Mendable(t, d)
          <5>1. ~\E x \in D : k \in Mendable(t, x)
            BY <1>2, <1>3, <4>2
          <5>2. u.elements[k] = t.elements[k]
            BY <1>0, <5>1, MendedText
          <5> HIDE DEF u
          <5> QED BY <1>2, <4>2, <5>2 DEF Offending
        <4> QED BY <4>1, <4>2
      <3>2. DOMAIN u.elements = DOMAIN t.elements /\ \A k \in DOMAIN t.elements : u.elements[k].hard = t.elements[k].hard
        BY <1>0, MendedText
      <3> HIDE DEF u
      <3>3. Looks(u, d) = {k \in missing : t.elements[k].hard}
        BY <1>6, <3>1, <3>2 DEF Offending
      <3> QED BY <3>2, <3>3 DEF Easy, Offending
    <2>5. CASE \E k \in missing : t.elements[k].hard
      <3>1. made = None
        BY <1>5, <1>6, <2>4, <2>5
      <3>2. ASSUME NEW S PROVE Reports(t, D \cup {d}, S \cup {d})
        BY <1>3 DEF Reports
      <3> QED BY <2>3, <3>1, <3>2 DEF Mends
    <2>6. CASE ~\E k \in missing : t.elements[k].hard
      <3>1. made = Changed(u, d)
        BY <1>5, <1>6, <2>4, <2>6
      <3>2. Changed(u, d) = Mended(t, D \cup {d})
        BY <1>0, <2>1, <2>2, <2>4, ChangedIsMended
      <3>3. ASSUME NEW S PROVE Reports(t, D \cup {d}, S)
        BY <1>2, <1>3, <2>6 DEF Reports
      <3> QED BY <1>4, <2>3, <3>1, <3>2, <3>3 DEF Mends
    <2> QED BY <2>5, <2>6
  <1> QED BY <1>7, <1>8

\* With every finding dealt with, what is left the fixers decline, and it is reported.
LEMMA MendedDone ==
  ASSUME NEW t, IsText(t), NEW S, Reports(t, Chosen(Findings(t)), S)
  PROVE  Done(Mended(t, Chosen(Findings(t))), S)
  <1> DEFINE C == Chosen(Findings(t))
             v == Mended(t, C)
  <1>0. t \in Texts /\ C \subseteq Findings(t)
    BY DEF IsText, Chosen
  <1>1. /\ v \in Texts /\ v.whole = t.whole /\ DOMAIN v.elements = DOMAIN t.elements
        /\ \A k \in DOMAIN t.elements :
             /\ v.elements[k] = IF \E e \in C : k \in Mendable(t, e)
                                THEN Without(t.elements[k], t.elements[k].offence) ELSE t.elements[k]
             /\ v.elements[k].record = t.elements[k].record /\ v.elements[k].custom = t.elements[k].custom
             /\ v.elements[k].offence \in Rule => v.elements[k] = t.elements[k]
    BY <1>0, MendedText
  <1>2. \A k \in DOMAIN t.elements :
          t.elements[k].offence \in Rule /\ (\E e \in C : k \in Mendable(t, e)) => v.elements[k].offence = "none"
    <2>1. \A k \in DOMAIN t.elements : Without(t.elements[k], t.elements[k].offence).offence = "none"
      BY <1>0, ElementTypes, WithoutType
    <2> HIDE DEF v, C
    <2> QED BY <1>1, <2>1
  <1>3. Reports(t, C, S)
    OBVIOUS
  <1> HIDE DEF v
  <1> SUFFICES ASSUME NEW g \in Chosen(Findings(v)) PROVE FixerResult(v, g) = None /\ \E e \in S : e.rule = g.rule
    BY DEF Done, v
  <1>4. g \in Findings(v) /\ g.high /\ (g.rule \in Migration => upgrade)
    BY DEF Chosen
  <1>5. PICK h : HeadOf(v, g, h)
    BY <1>1, <1>4, FindingHead
  <1>6. t.whole
    BY <1>1, <1>4, FindingHead
  <1>7. /\ h \in DOMAIN t.elements /\ g.rule \in Rule /\ g.rule # "none" /\ v.elements[h] = t.elements[h]
        /\ t.elements[h].offence = g.rule
    <2>1. h \in DOMAIN t.elements /\ v.elements[h].offence = g.rule /\ g.rule \in Rule
      BY <1>1, <1>5 DEF HeadOf, Offending
    <2> QED BY <1>1, <2>1 DEF Rule
  <1>8. PICK d \in Findings(t) : h \in Members(t, d) /\ (d.rule = "fields" => d.field = h /\ d.high)
    BY <1>0, <1>6, <1>7, OffencesFound
  <1>9. d.rule = g.rule
    BY <1>7, <1>8, MembersOffend
  <1>10. PICK m : HeadOf(t, d, m)
    BY <1>0, FindingHead
  <1>11. ~\E e \in C : h \in Mendable(t, e)
    BY <1>2, <1>7
  <1>12. d.high => d \in C /\ h \notin Mendable(t, d)
    BY <1>4, <1>9, <1>11 DEF C, Chosen
  <1>13. CASE g.rule = "fields"
    <2>1. d \in C /\ t.elements[h].hard /\ Members(t, d) = Offending(t, "fields") /\ d.field = h
      BY <1>8, <1>9, <1>12, <1>13 DEF Members, Mendable
    <2>2. \A k \in Offending(v, "fields") : v.elements[k].hard
      <3> SUFFICES ASSUME NEW k \in Offending(v, "fields") PROVE v.elements[k].hard
        OBVIOUS
      <3>1. k \in DOMAIN t.elements /\ v.elements[k].offence = "fields"
        BY <1>1 DEF Offending
      <3>2. v.elements[k] = t.elements[k]
        BY <1>1, <3>1 DEF Rule
      <3>3. k \in Members(t, d) /\ k \notin Mendable(t, d)
        BY <1>2, <2>1, <3>1, <3>2 DEF Offending, Rule
      <3> QED BY <1>9, <1>13, <3>2, <3>3 DEF Mendable
    <2>3. TooHard(v, g)
      <3>1. Looks(v, g) = Offending(v, "fields")
        BY <1>13 DEF Looks
      <3>2. h \in Looks(v, g)
        BY <1>1, <1>7, <1>13, <3>1 DEF Offending
      <3> QED BY <1>13, <2>2, <3>1, <3>2 DEF TooHard, Easy
    <2>4. \E e \in S : e.rule = "fields"
      <3>1. CASE C = {d} /\ Mendable(t, d) # {}
        <4>1. PICK j \in Mendable(t, d) : TRUE
          BY <3>1
        <4>2. j \in DOMAIN t.elements /\ t.elements[j].offence = "fields" /\ ~t.elements[j].hard
          BY <1>9, <1>13, <4>1, MembersOffend DEF Mendable
        <4>3. PICK e \in Findings(t) : j \in Members(t, e) /\ (e.rule = "fields" => e.field = j /\ e.high)
          BY <1>0, <1>6, <4>2, OffencesFound DEF Rule
        <4>4. e.rule = "fields" /\ e.field = j /\ e \in C
          <5>1. e.rule = "fields"
            BY <4>2, <4>3, MembersOffend
          <5> QED BY <4>3, <5>1 DEF C, Chosen, Migration
        <4> QED BY <2>1, <3>1, <4>2, <4>4
      <3> QED BY <1>3, <1>8, <1>9, <1>13, <2>1, <3>1 DEF Reports
    <2> QED BY <1>13, <2>3, <2>4 DEF FixerResult
  <1>14. CASE g.rule = "rename"
    <2>1. Members(t, d) = {h} /\ d.high
      BY <1>0, <1>8, <1>9, <1>10, <1>14, HeadMembers DEF HeadOf
    <2>2. d \in C /\ t.elements[h].hard
      BY <1>12, <1>14, <2>1 DEF Mendable
    <2>3. Looks(v, g) = {k \in Offending(v, g.rule) : TagLine(v, k) = g.line}
      BY <1>14 DEF Looks
    <2>4. h \in Looks(v, g)
      BY <1>1, <1>5, <1>14, <2>3, HeadMembers DEF HeadOf
    <2>5. TooHard(v, g)
      BY <1>7, <1>14, <2>2, <2>4 DEF TooHard, Easy
    <2>6. d \in S
      BY <1>3, <1>8, <1>9, <1>14, <2>2 DEF Reports
    <2> QED BY <1>9, <2>5, <2>6 DEF FixerResult
  <1>15. CASE g.rule \in {"chatter", "tree"}
    <2>1. Members(t, d) = Offenders(t, t.elements[m].record, d.rule)
      BY <1>0, <1>9, <1>10, <1>15, HeadMembers
    <2>2. \A k \in Members(t, d) : /\ k \in DOMAIN t.elements /\ t.elements[k].offence = g.rule
                                   /\ t.elements[k].record = t.elements[h].record
      BY <1>8, <1>9, <2>1 DEF Offenders
    <2>3. ASSUME NEW k \in Members(t, d), k \notin Mendable(t, d) \/ d \notin C
          PROVE  v.elements[k] = t.elements[k] /\ k \in Offenders(v, v.elements[h].record, g.rule)
      <3>1. ~\E e \in C : k \in Mendable(t, e)
        <4> SUFFICES ASSUME NEW e \in C, k \in Mendable(t, e) PROVE FALSE
          OBVIOUS
        <4>1. e \in Findings(t) /\ k \in Members(t, e)
          BY <1>0 DEF Mendable
        <4>2. d = e
          BY <1>0, <1>9, <1>15, <4>1, FindingsApart
        <4> QED BY <2>3, <4>2
      <3>2. v.elements[k] = t.elements[k]
        BY <1>1, <2>2, <3>1
      <3> QED BY <1>1, <1>7, <2>2, <3>2 DEF Offenders
    <2>4. d.high
      <3> SUFFICES ASSUME ~d.high PROVE FALSE
        OBVIOUS
      <3>1. PICK k \in Members(t, d) : t.elements[k].custom
        BY <1>9, <1>10, <1>15, <2>1 DEF HeadOf
      <3>2. d \notin C
        BY DEF C, Chosen
      <3>3. v.elements[k].custom /\ k \in Offenders(v, v.elements[h].record, g.rule)
        BY <2>3, <3>1, <3>2
      <3> QED BY <1>4, <1>5, <1>15, <3>3 DEF HeadOf
    <2>5. PICK j \in Members(t, d) : t.elements[j].hard
      BY <1>8, <1>12, <2>4 DEF Mendable
    <2>6. v.elements[j] = t.elements[j] /\ j \in Offenders(v, v.elements[h].record, g.rule)
      BY <1>9, <1>15, <2>3, <2>5 DEF Mendable
    <2>7. RecordsAt(v, g.line) = {v.elements[h].record}
      <3>1. h \in DOMAIN v.elements /\ g.line = TagLine(v, h)
        BY <1>1, <1>5, <1>15, HeadMembers DEF HeadOf, Offending
      <3> QED BY <1>1, <3>1, OneRecordThere
    <2>8. Looks(v, g) = Offenders(v, v.elements[h].record, g.rule)
      <3>1. Looks(v, g) = UNION {Offenders(v, r, g.rule) : r \in RecordsAt(v, g.line)}
        BY <1>15 DEF Looks
      <3> QED BY <2>7, <3>1
    <2>9. TooHard(v, g)
      BY <1>15, <2>5, <2>6, <2>8 DEF TooHard, Easy
    <2>10. d \in S
      BY <1>3, <1>9, <1>12, <1>15, <2>4, <2>5 DEF Reports
    <2> QED BY <1>9, <2>9, <2>10 DEF FixerResult
  <1> QED BY <1>7, <1>13, <1>14, <1>15 DEF Rule

\* What chosen and done mean depends on the run's flags only.
LEMMA SameMeaning ==
  ASSUME upgrade' = upgrade
  PROVE  /\ \A s : Chosen(s)' = Chosen(s)
         /\ \A t, S : Done(t, S)' <=> Done(t, S)
  <1>1. \A s : Chosen(s)' = Chosen(s)
    BY DEF Chosen
  <1> QED BY <1>1 DEF Done

\* The scan.
LEMMA QuietScan ==
  ASSUME FixInv, QuietInv, quiet, quiet', (\E f \in File : ScanFile(f)) \/ StartFixing
  PROVE  QuietInv'
  <1>1. CASE \E f \in File : ScanFile(f)
    BY <1>1 DEF ScanFile, Rest, QuietInv, FixFinishes
  <1>2. CASE StartFixing
    <2>1. /\ upgrade' = upgrade /\ UNCHANGED <<disk, findings, at, text, original, queue, changed, skipped>>
          /\ pc = "scan" /\ todo = {} /\ pc' = "fix" /\ todo' = {f \in File : Chosen(findings[f]) # {}}
      BY <1>2 DEF StartFixing, Rest
    <2>2. /\ at = None /\ queue = {} /\ DOMAIN skipped = File
          /\ \A f \in File : changed[f] = None /\ findings[f] = Findings(disk[f])
      BY <2>1 DEF QuietInv
    <2>3. None \notin File /\ Inside \subseteq File
      BY FixerAssumption DEF FixerAssumption
    <2>4. (\A s : Chosen(s)' = Chosen(s)) /\ \A t, S : Done(t, S)' <=> Done(t, S)
      BY <2>1, SameMeaning
    <2>5. ASSUME NEW f \in Inside \ (todo' \cup {at'}) PROVE Done(Outcome(f), skipped[f])'
      <3>1. Chosen(Findings(disk[f])) = {} /\ changed[f] = None
        BY <2>1, <2>2, <2>3
      <3>2. Done(disk[f], skipped[f])
        BY <3>1 DEF Done
      <3>3. Outcome(f)' = disk[f] /\ skipped'[f] = skipped[f]
        BY <2>1, <3>1 DEF Outcome
      <3>4. Done(disk[f], skipped[f])'
        BY <2>1, <2>4, <3>2
      <3> QED BY <2>1, <3>3, <3>4
    <2>6. todo' \subseteq {f \in File : Chosen(findings[f])' # {}} /\ at' \notin todo'
      BY <2>1, <2>2, <2>3, <2>4
    <2>7. FixingInv'
      BY <2>1, <2>2, <2>5, <2>6 DEF FixingInv
    <2> QED BY <2>1, <2>7 DEF QuietInv, FixFinishes
  <1> QED BY <1>1, <1>2

\* A file is read, or skipped since it lies outside.
LEMMA QuietRead ==
  ASSUME FixInv, TextsInv, QuietInv, quiet, quiet', NEW f \in File, ReadFile(f)
  PROVE  QuietInv'
  <1>1. /\ upgrade' = upgrade /\ UNCHANGED <<disk, pc, findings, changed>>
        /\ pc = "fix" /\ at = None /\ f \in todo /\ todo' = todo \ {f}
    BY DEF ReadFile, Rest
  <1>2. FixingInv
    BY <1>1 DEF QuietInv
  <1>3. /\ None \notin File /\ Inside \subseteq File /\ todo \subseteq {x \in File : Chosen(findings[x]) # {}}
        /\ queue = {} /\ \A x \in File : findings[x] = Findings(disk[x])
    BY <1>1, <1>2, FixerAssumption DEF FixingInv, FixerAssumption
  <1>4. (\A s : Chosen(s)' = Chosen(s)) /\ \A t, S : Done(t, S)' <=> Done(t, S)
    BY <1>1, SameMeaning
  <1>5. disk[f] # None
    <2>1. Chosen(Findings(disk[f])) # {}
      BY <1>1, <1>3
    <2>2. Chosen({}) = {}
      BY DEF Chosen
    <2> QED BY <2>1, <2>2 DEF Findings
  <1>6. ASSUME NEW x \in Inside \ todo, skipped'[x] = skipped[x] PROVE Done(Outcome(x), skipped[x])'
    <2>1. Done(Outcome(x), skipped[x])
      BY <1>1, <1>2, <1>3 DEF FixingInv
    <2>2. Done(Outcome(x), skipped[x])' <=> Done(Outcome(x)', skipped'[x])
      BY <1>4 DEF Done
    <2>3. Outcome(x)' = Outcome(x)
      BY <1>1 DEF Outcome
    <2> QED BY <1>6, <2>1, <2>2, <2>3
  <1>7. todo' \subseteq {x \in File : Chosen(findings[x])' # {}} /\ \A x \in File : findings'[x] = Findings(disk'[x])
    BY <1>1, <1>3, <1>4
  <1>8. CASE f \notin Inside
    <2>1. UNCHANGED <<at, text, original, queue>> /\ skipped' = [skipped EXCEPT ![f] = Chosen(findings[f])]
      BY <1>8 DEF ReadFile
    <2>2. DOMAIN skipped' = File /\ \A x \in Inside : skipped'[x] = skipped[x]
      BY <1>2, <1>3, <1>8, <2>1 DEF FixingInv
    <2>3. \A x \in Inside \ (todo' \cup {at'}) : Done(Outcome(x), skipped[x])'
      BY <1>1, <1>6, <1>8, <2>1, <2>2
    <2>4. at' = None /\ queue' = {} /\ at' \notin todo'
      BY <1>1, <1>3, <2>1
    <2>5. FixingInv'
      BY <1>7, <2>2, <2>3, <2>4 DEF FixingInv
    <2> QED BY <1>1, <2>5 DEF QuietInv, FixFinishes
  <1>9. CASE f \in Inside
    <2> DEFINE all == Chosen(findings[f])
    <2>1. at' = f /\ text' = disk[f] /\ original' = disk[f] /\ queue' = all /\ UNCHANGED skipped
      BY <1>5, <1>9 DEF ReadFile
    <2>2. all = Chosen(findings[at])' /\ all \ queue' = {}
      BY <1>1, <1>4, <2>1
    <2>3. text' = Mended(original', {})
      <3>1. disk[f] \in Texts
        BY <1>5 DEF TextsInv, IsText
      <3> QED BY <2>1, <3>1, MendedNone
    <2>4. Reports(original', {}, skipped'[at']) /\ \A d \in queue' : Ahead(d, {})
      BY DEF Ahead, Reports
    <2>5. \A x \in Inside \ (todo' \cup {at'}) : Done(Outcome(x), skipped[x])'
      BY <1>1, <1>6, <2>1
    <2>6. DOMAIN skipped' = File /\ at' \notin todo' /\ at' # None
      BY <1>1, <1>2, <1>3, <2>1 DEF FixingInv
    <2>7. at' \in Inside /\ original' = disk'[at'] /\ original' # None
      BY <1>1, <1>5, <1>9, <2>1
    <2> HIDE DEF all
    <2>8. FixingInv'
      BY <1>7, <2>1, <2>2, <2>3, <2>4, <2>5, <2>6, <2>7 DEF FixingInv
    <2> QED BY <1>1, <2>8 DEF QuietInv, FixFinishes
  <1> QED BY <1>8, <1>9

\* One fixer.
LEMMA QuietApply ==
  ASSUME FixInv, TextsInv, QuietInv, quiet, quiet', NEW d \in queue, Apply(d)
  PROVE  QuietInv'
  <1> DEFINE all == Chosen(findings[at])
             D == all \ queue
             made == FixerResult(text, d)
             more == Mended(original, D \cup {d})
  <1>1. /\ upgrade' = upgrade /\ UNCHANGED <<disk, pc, todo, findings, at, original, changed>>
        /\ pc = "fix" /\ at # None /\ NextInFile(d) /\ queue' = queue \ {d}
    BY DEF Apply, Rest
  <1>2. FixingInv
    BY <1>1 DEF QuietInv
  <1>3. /\ at \in Inside /\ original = disk[at] /\ original # None /\ queue \subseteq all /\ text = Mended(original, D)
        /\ \A x \in queue : Ahead(x, D)
        /\ Reports(original, D, skipped[at])
    BY <1>1, <1>2 DEF FixingInv
  <1>4. at \in File /\ Inside \subseteq File /\ findings[at] = Findings(original) /\ IsText(original)
    BY <1>2, <1>3, FixerAssumption DEF FixingInv, TextsInv, FixerAssumption
  <1>5. /\ all \subseteq Findings(original) /\ D \subseteq Findings(original) /\ d \in Findings(original) /\ d.high
        /\ d \in all /\ d \notin D /\ Ahead(d, D) /\ original \in Texts
    BY <1>3, <1>4 DEF Chosen, IsText
  <1>6. Mends(original, D, d)
    <2> HIDE DEF D, all, made, more
    <2> QED BY <1>4, <1>5, ViewMends, ManifestMends
  <1>7. all \ queue' = D \cup {d}
    BY <1>1, <1>5
  <1>8. more.whole
    <2>1. original.whole
      BY <1>5, FindingHead
    <2> HIDE DEF D
    <2> QED BY <1>5, <2>1, MendedText
  <1>9. text' = more /\ Reports(original, D \cup {d}, skipped'[at]) /\ DOMAIN skipped' = File
        /\ \A x \in File : x # at => skipped'[x] = skipped[x]
    <2>1. /\ made = None \/ made = more
          /\ made = None => more = text
          /\ Reports(original, D \cup {d}, IF made = None THEN skipped[at] \cup {d} ELSE skipped[at])
      BY <1>3, <1>6 DEF Mends
    <2>2. DOMAIN skipped = File
      BY <1>2 DEF FixingInv
    <2>3. CASE made = None
      <3>1. text' = text /\ skipped' = [skipped EXCEPT ![at] = @ \cup {d}]
        BY <2>3 DEF Apply
      <3> HIDE DEF made, more, D
      <3> QED BY <1>4, <2>1, <2>2, <2>3, <3>1
    <2>4. CASE made # None
      <3>1. made = more /\ made.whole
        BY <1>8, <2>1, <2>4
      <3>2. text' = made /\ skipped' = skipped
        <4> HIDE DEF more, D
        <4> QED BY <2>4, <3>1 DEF Apply
      <3> HIDE DEF made, more, D
      <3> QED BY <2>1, <2>2, <2>4, <3>1, <3>2
    <2> QED BY <2>3, <2>4
  <1>10. \A x \in queue' : Ahead(x, D \cup {d})
    <2> SUFFICES ASSUME NEW x \in queue, x # d, x.rule # "fields" PROVE x.line < d.line
      BY <1>1, <1>3 DEF Ahead
    <2>1. x \in Findings(original) /\ d.rule # "fields"
      BY <1>3, <1>4, <1>5, ManifestFindings
    <2>2. x.line # d.line
      BY <1>5, <2>1, FindingsApart
    <2>3. x.line \in Nat /\ d.line \in Nat
      <3>1. \A y \in Findings(original) : y.line \in Nat
        BY <1>5, FindingHead, TagLines DEF HeadOf, Offending
      <3> QED BY <1>5, <2>1, <3>1
    <2> QED BY <1>1, <2>2, <2>3 DEF NextInFile, TieFirst
  <1>11. (\A s : Chosen(s)' = Chosen(s)) /\ \A t, S : Done(t, S)' <=> Done(t, S)
    BY <1>1, SameMeaning
  <1>12. all = Chosen(findings[at])' /\ queue' \subseteq all
    BY <1>1, <1>3, <1>11
  <1> HIDE DEF all, D, made, more
  <1>13. text' = Mended(original', all \ queue') /\ Reports(original', all \ queue', skipped'[at'])
         /\ \A x \in queue' : Ahead(x, all \ queue')
    BY <1>1, <1>7, <1>9, <1>10 DEF more
  <1>14. ASSUME NEW x \in Inside \ (todo' \cup {at'}) PROVE Done(Outcome(x), skipped[x])'
    <2>1. Done(Outcome(x), skipped[x])
      BY <1>1, <1>2 DEF FixingInv
    <2>2. Done(Outcome(x), skipped[x])' <=> Done(Outcome(x)', skipped'[x])
      BY <1>11 DEF Done
    <2>3. Outcome(x)' = Outcome(x) /\ skipped'[x] = skipped[x]
      BY <1>1, <1>4, <1>9 DEF Outcome
    <2> QED BY <2>1, <2>2, <2>3, <1>11
  <1>15. /\ \A x \in File : findings'[x] = Findings(disk'[x])
         /\ todo' \subseteq {x \in File : Chosen(findings[x])' # {}} /\ at' \notin todo' /\ at' # None
    BY <1>1, <1>2, <1>11 DEF FixingInv
  <1>16. FixingInv'
    BY <1>1, <1>3, <1>9, <1>12, <1>13, <1>14, <1>15 DEF FixingInv
  <1> QED BY <1>1, <1>16 DEF QuietInv, FixFinishes

\* All its findings are dealt with.
LEMMA QuietEndFile ==
  ASSUME FixInv, TextsInv, QuietInv, quiet, quiet', EndFile
  PROVE  QuietInv'
  <1> DEFINE all == Chosen(findings[at])
  <1>1. /\ upgrade' = upgrade /\ UNCHANGED <<disk, pc, todo, findings, queue, skipped>>
        /\ pc = "fix" /\ at # None /\ queue = {} /\ at' = None
        /\ changed' = [changed EXCEPT ![at] = IF text # original THEN text ELSE None]
    BY DEF EndFile, Rest
  <1>2. FixingInv
    BY <1>1 DEF QuietInv
  <1>3. /\ at \in Inside /\ at \notin todo /\ original = disk[at] /\ original # None /\ text = Mended(original, all)
        /\ Reports(original, all, skipped[at])
    <2>1. all \ queue = all
      BY <1>1
    <2> QED BY <1>1, <1>2, <2>1 DEF FixingInv
  <1>4. /\ at \in File /\ Inside \subseteq File /\ None \notin File /\ findings[at] = Findings(original) /\ IsText(original)
    BY <1>2, <1>3, FixerAssumption DEF FixingInv, TextsInv, FixerAssumption
  <1>5. Done(text, skipped[at])
    BY <1>3, <1>4, MendedDone
  <1>6. text # None
    BY <1>1 DEF TextsInv
  <1>7. \A x \in File : Outcome(x)' = IF x = at THEN text ELSE Outcome(x)
    <2>1. DOMAIN changed = File
      BY DEF FixInv, WritesInv
    <2>2. changed'[at] = (IF text # original THEN text ELSE None) /\ \A x \in File : x # at => changed'[x] = changed[x]
      BY <1>1, <1>4, <2>1
    <2>3. \A x \in File : Outcome(x)' = IF changed'[x] = None THEN disk[x] ELSE changed'[x]
      BY <1>1 DEF Outcome
    <2> QED BY <1>1, <1>3, <1>6, <2>2, <2>3 DEF Outcome
  <1>8. (\A s : Chosen(s)' = Chosen(s)) /\ \A t, S : Done(t, S)' <=> Done(t, S)
    BY <1>1, SameMeaning
  <1> HIDE DEF all
  <1>9. ASSUME NEW x \in Inside \ (todo' \cup {at'}) PROVE Done(Outcome(x), skipped[x])'
    <2>1. Done(Outcome(x)', skipped[x])
      <3>1. CASE x = at
        BY <1>4, <1>5, <1>7, <3>1
      <3>2. CASE x # at
        BY <1>1, <1>2, <1>4, <1>7, <3>2 DEF FixingInv
      <3> QED BY <3>1, <3>2
    <2>2. Done(Outcome(x), skipped[x])' <=> Done(Outcome(x)', skipped'[x])
      BY <1>8 DEF Done
    <2> QED BY <1>1, <2>1, <2>2
  <1>10. /\ \A x \in File : findings'[x] = Findings(disk'[x])
         /\ todo' \subseteq {x \in File : Chosen(findings[x])' # {}} /\ at' \notin todo' /\ DOMAIN skipped' = File
    BY <1>1, <1>2, <1>4, <1>8 DEF FixingInv
  <1>11. FixingInv'
    BY <1>1, <1>9, <1>10 DEF FixingInv
  <1> QED BY <1>1, <1>11 DEF QuietInv, FixFinishes

\* All files are dealt with.
LEMMA QuietEndFixing ==
  ASSUME FixInv, QuietInv, quiet, quiet', EndFixing
  PROVE  QuietInv'
  <1>1. /\ upgrade' = upgrade /\ UNCHANGED <<disk, findings, at, changed, temp, skipped>>
        /\ pc = "fix" /\ at = None /\ todo = {}
        /\ (pc' = "write" /\ todo' = {f \in File : changed[f] # None}) \/ pc' = "dry"
    BY DEF EndFixing, Rest
  <1>2. FixingInv /\ None \notin File /\ Inside \subseteq File /\ temp = None
    BY <1>1, FixerAssumption DEF QuietInv, FixerAssumption, FixInv, WritesInv
  <1>3. CASE pc' = "dry"
    BY <1>3 DEF QuietInv, FixFinishes
  <1>4. CASE pc' = "write" /\ todo' = {f \in File : changed[f] # None}
    <2>1. \A t, S : Done(t, S)' <=> Done(t, S)
      BY <1>1, SameMeaning
    <2>2. ASSUME NEW f \in Inside PROVE Done(Outcome(f), skipped[f])' /\ (changed'[f] = None \/ f \in todo')
      <3>1. Done(Outcome(f), skipped[f])
        BY <1>1, <1>2 DEF FixingInv
      <3>2. Outcome(f)' = Outcome(f)
        BY <1>1 DEF Outcome
      <3>3. Done(Outcome(f), skipped[f])' <=> Done(Outcome(f)', skipped'[f])
        BY <1>1, SameMeaning DEF Done
      <3> QED BY <1>1, <1>2, <1>4, <3>1, <3>2, <3>3
    <2>3. WritingInv'
      BY <1>1, <1>2, <2>2 DEF WritingInv
    <2> QED BY <1>4, <2>3 DEF QuietInv, FixFinishes
  <1> QED BY <1>1, <1>3, <1>4

\* The computed texts are written.
LEMMA QuietWrite ==
  ASSUME FixInv, QuietInv, quiet, quiet', (\E f \in File : WriteTemp(f)) \/ Replace \/ EndWriting
  PROVE  QuietInv'
  <1>1. upgrade' = upgrade /\ UNCHANGED <<findings, changed, skipped>> /\ pc = "write"
    BY DEF WriteTemp, Replace, EndWriting, Rest
  <1>2. WritingInv /\ DOMAIN disk = File /\ Inside \subseteq File /\ None \notin Inside
        /\ \A f \in todo : changed[f] # None
    BY <1>1, FixerAssumption DEF QuietInv, FixInv, WritesInv, FixerAssumption
  <1>3. ASSUME \A f \in Inside : disk'[f] = disk[f] \/ (disk'[f] = changed[f] /\ changed[f] # None)
        PROVE  \A f \in Inside : Done(Outcome(f), skipped[f])'
    <2> SUFFICES ASSUME NEW f \in Inside PROVE Done(Outcome(f), skipped[f])'
      OBVIOUS
    <2>1. Done(Outcome(f), skipped[f])
      BY <1>2 DEF WritingInv
    <2>2. Done(Outcome(f), skipped[f])' <=> Done(Outcome(f)', skipped'[f])
      BY <1>1, SameMeaning DEF Done
    <2>3. Outcome(f)' = Outcome(f)
      BY <1>1, <1>3 DEF Outcome
    <2> QED BY <1>1, <2>1, <2>2, <2>3
  <1>4. ASSUME NEW f \in File, WriteTemp(f) PROVE QuietInv'
    <2>1. temp = None /\ f \in todo /\ todo' = todo \ {f} /\ UNCHANGED disk
      BY <1>4 DEF WriteTemp
    <2>2. CASE pc' = "failed"
      BY <2>2 DEF QuietInv, FixFinishes
    <2>3. CASE at' = f /\ temp' = changed[f] /\ UNCHANGED pc
      <3>1. at = None /\ changed[f] # None /\ f # None
        BY <1>2, <2>1, FixerAssumption DEF WritingInv, FixerAssumption
      <3>2. \A g \in Inside : Done(Outcome(g), skipped[g])'
        BY <1>3, <2>1
      <3>3. \A g \in Inside : changed'[g] = None \/ g \in todo' \/ g = at' \/ disk'[g] = changed'[g]
        BY <1>1, <1>2, <2>1, <2>3, <3>1 DEF WritingInv
      <3>4. WritingInv'
        BY <1>1, <2>3, <3>1, <3>2, <3>3 DEF WritingInv
      <3> QED BY <1>1, <2>3, <3>4 DEF QuietInv, FixFinishes
    <2> QED BY <1>4, <2>2, <2>3 DEF WriteTemp
  <1>5. CASE Replace
    <2>1. /\ temp # None /\ disk' = [disk EXCEPT ![at] = temp] /\ temp' = None /\ at' = None /\ UNCHANGED <<pc, todo>>
      BY <1>5 DEF Replace
    <2>2. at \in Inside /\ temp = changed[at]
      BY <1>2, <2>1 DEF WritingInv, FixInv, WritesInv
    <2>3. disk'[at] = changed[at] /\ \A f \in File : f # at => disk'[f] = disk[f]
      BY <1>2, <2>1, <2>2
    <2>4. \A f \in Inside : Done(Outcome(f), skipped[f])'
      <3>1. \A f \in Inside : f \in File /\ changed[at] # None
        BY <1>2, <2>1, <2>2
      <3>2. \A f \in Inside : disk'[f] = disk[f] \/ (disk'[f] = changed[f] /\ changed[f] # None)
        BY <2>3, <3>1
      <3> QED BY <1>3, <3>2
    <2>5. \A f \in Inside : changed'[f] = None \/ f \in todo' \/ disk'[f] = changed'[f]
      BY <1>1, <1>2, <2>1, <2>3 DEF WritingInv
    <2>6. WritingInv'
      BY <2>1, <2>4, <2>5 DEF WritingInv
    <2> QED BY <1>1, <2>1, <2>6 DEF QuietInv, FixFinishes
  <1>6. CASE EndWriting
    <2>1. pc' = "done" /\ temp = None /\ todo = {} /\ UNCHANGED <<disk, at>>
      BY <1>6 DEF EndWriting
    <2>2. at = None
      BY <1>2, <2>1 DEF WritingInv
    <2>3. \A f \in Inside : Done(disk[f], skipped[f])
      BY <1>2, <2>1, <2>2 DEF WritingInv, Outcome
    <2>4. \A f \in Inside : \A d \in Chosen(Findings(disk[f])) : FixerResult(disk[f], d) = None /\ \E e \in skipped[f] : e.rule = d.rule
      BY <2>3 DEF Done
    <2>5. \A s : Chosen(s)' = Chosen(s)
      BY <1>1, SameMeaning
    <2>6. FixFinishes'
      BY <1>1, <2>1, <2>4, <2>5 DEF FixFinishes
    <2> QED BY <2>1, <2>6 DEF QuietInv
  <1> QED BY <1>4, <1>5, <1>6

\* Every step of a run nobody edits beside keeps what it knows of the files.
LEMMA QuietStep == FixInv /\ TextsInv /\ QuietInv /\ [Next]_vars => QuietInv'
  <1> SUFFICES ASSUME FixInv, TextsInv, QuietInv, [Next]_vars, quiet' PROVE QuietInv'
    BY DEF QuietInv
  <1>1. \A f \in File : ~Save(f)
    BY DEF Save
  <1>2. quiet
    BY <1>1 DEF Next, vars, Rest, ScanFile, ReadFile, WriteTemp, Apply, StartFixing, EndFile, EndFixing, Replace,
                EndWriting, Kill
  <1>3. CASE Kill
    BY <1>3 DEF Kill, QuietInv, FixFinishes
  <1>4. CASE UNCHANGED vars
    <2>1. /\ upgrade' = upgrade
          /\ UNCHANGED <<disk, pc, todo, findings, at, text, original, queue, changed, temp, skipped>>
      BY <1>4 DEF vars, run
    <2> QED BY <1>2, <2>1 DEF QuietInv, FixingInv, WritingInv, FixFinishes, Done, Outcome, Chosen
  <1>5. CASE (\E f \in File : ScanFile(f)) \/ StartFixing
    BY <1>2, <1>5, QuietScan
  <1>6. CASE (\E f \in File : WriteTemp(f)) \/ Replace \/ EndWriting
    BY <1>2, <1>6, QuietWrite
  <1>7. ASSUME NEW f \in File, ReadFile(f) PROVE QuietInv'
    BY <1>2, <1>7, QuietRead
  <1>8. ASSUME NEW d \in queue, Apply(d) PROVE QuietInv'
    BY <1>2, <1>8, QuietApply
  <1>9. CASE EndFile \/ EndFixing
    BY <1>2, <1>9, QuietEndFile, QuietEndFixing
  <1> QED BY <1>1, <1>3, <1>4, <1>5, <1>6, <1>7, <1>8, <1>9 DEF Next

\* A fix that nobody disturbs and that is not killed leaves nothing a second one would fix: what it leaves the
\* fixers decline, and it has reported so for the file and rule (fix_all: from the last line to the first).
THEOREM FixesFinish == Spec => []FixFinishes
  <1>1. Init => TextsInv /\ QuietInv
    BY FixerAssumption DEF Init, TextsInv, FixerAssumption, QuietInv, FixFinishes
  <1>2. FixInv /\ TextsInv /\ QuietInv /\ [Next]_vars => TextsInv' /\ QuietInv'
    BY TextsStep, QuietStep
  <1>3. QuietInv => FixFinishes
    BY DEF QuietInv, FixFinishes
  <1>4. QED BY <1>1, <1>2, <1>3, FixInvariant, PTL DEF Spec
-----------------------------------------------------------------------------
(* The manifest fixer *)

DataTypes == listed \in Seq(DataFile) /\ data \in Seq(DataFile)

Keeps == DataTypes /\ EntriesKept /\ LoadOrderKept

\* A high finding has a first loader, which comes before it.
LEMMA TargetBefore ==
  ASSUME data \in Seq(DataFile), NEW i \in Place, High(i)
  PROVE  Target(i) \in Place /\ Target(i) < i
<1>1. Loaders(i) # {} /\ Loaders(i) \subseteq Nat
  BY DEF High, Loaders, Place
<1>2. \E n \in Loaders(i) : \A m \in Loaders(i) : n <= m
  BY <1>1, LeastNat
<1>3. Target(i) \in Loaders(i)
  BY <1>2 DEF Target, Least
<1> QED BY <1>3 DEF Loaders

\* Without chained moves every entry is kept, so the rearranged list is as long as the old one.
LEMMA KeptLength ==
  ASSUME data \in Seq(DataFile), Moves
  PROVE  Kept = Place /\ Cardinality(Kept) = Len(data)
<1>1. Kept = Place
  BY DEF Moves, Kept
<1>2. Len(data) \in Nat
  OBVIOUS
<1>3. Cardinality(1..Len(data)) = IF 1 > Len(data) THEN 0 ELSE Len(data) - 1 + 1
  BY <1>2, FS_Interval, SMTT(30)
<1> QED BY <1>1, <1>2, <1>3 DEF Place

\* A file that is moved past another mentions nothing the other declares.
LEMMA NothingPassed ==
  ASSUME DataTypes, Moves, NEW i \in Place, NEW j \in Place, i < j, Before(j, i),
         About[data[i]].xml
  PROVE  About[data[j]].mentions \cap About[data[i]].declares = {}
<1>1. i \in Nat /\ j \in Nat
  BY DEF DataTypes, Place
<1>2. Slot(i) \in Nat /\ Slot(i) <= i
  BY <1>1, TargetBefore DEF DataTypes, Slot, Place
<1>3. High(j)
  BY <1>1, <1>2 DEF Before, Slot
<1>4. Target(j) \in Nat /\ Target(j) <= i
  BY <1>1, <1>2, <1>3, TargetBefore DEF DataTypes, Before, Slot, Place
<1>5. ~Clash(j)
  BY <1>3 DEF Moves
<1> QED BY <1>1, <1>4, <1>5 DEF Clash, Reads

\* The invariant of the fix of the data order holds at first.
LEMMA DataStart == DataInit => Keeps
  BY DataOrderAssumption DEF DataInit, Keeps, DataTypes, EntriesKept, LoadOrderKept, Place

\* A finding that is skipped leaves the list as it is.
LEMMA SameKeeps ==
  ASSUME Keeps, listed' = listed, data' = data
  PROVE  Keeps'
<1>1. DataTypes'
  BY DEF Keeps, DataTypes
<1>2. EntriesKept'
  BY DEF Keeps, EntriesKept
<1>3. LoadOrderKept'
  BY DEF Keeps, LoadOrderKept, Precedes
<1> QED BY <1>1, <1>2, <1>3 DEF Keeps

\* One call of that fix keeps it.
LEMMA FixKeeps ==
  ASSUME Keeps, FixDataOrder
  PROVE  Keeps'
<1>1. CASE UNCHANGED <<listed, data>>
  BY <1>1, SameKeeps
<1>2. CASE Changes /\ \E order \in [1..Cardinality(Kept) -> Kept] :
                        Sorted(order) /\ data' = [k \in DOMAIN order |-> data[order[k]]]
  <2>1. Moves /\ DataTypes /\ listed' = listed
    BY <1>2 DEF Changes, Keeps, FixDataOrder
  <2>2. Kept = Place /\ Cardinality(Kept) = Len(data)
    BY <2>1, KeptLength DEF DataTypes
  <2> DEFINE n == Len(data)
  <2>3. n \in Nat /\ Place = 1..n /\ \A i \in Place : data[i] \in DataFile
    BY <2>1 DEF DataTypes, Place
  <2>4. PICK order \in [1..n -> 1..n] :
          Sorted(order) /\ data' = [k \in 1..n |-> data[order[k]]]
    BY <1>2, <2>2, <2>3
  <2>5. data' \in Seq(DataFile) /\ Len(data') = n
    BY <2>3, <2>4
  <2>6. \A i \in 1..n : \E k \in 1..n : order[k] = i
    BY <2>2, <2>3, <2>4 DEF Sorted
  <2>7. DataTypes'
    BY <2>1, <2>5 DEF DataTypes
  <2>8. EntriesKept'
    <3>1. \A f : (\E i \in 1..n : data[i] = f) <=> \E k \in 1..n : data'[k] = f
      BY <2>3, <2>4, <2>6
    <3> QED BY <2>1, <2>5, <2>3, <3>1 DEF Keeps, EntriesKept, Place
  <2>9. LoadOrderKept'
    <3> SUFFICES ASSUME NEW f \in DataFile, NEW g \in DataFile, About[f].xml,
                        About[g].mentions \cap About[f].declares # {}, Precedes(f, g, listed)
                 PROVE  Precedes(f, g, data')
      BY <2>1 DEF LoadOrderKept, Precedes
    <3>1. PICK i \in 1..n, j \in 1..n : i < j /\ data[i] = f /\ data[j] = g
      BY <1>2 DEF Keeps, LoadOrderKept, Precedes
    <3>2. PICK k \in 1..n, l \in 1..n : order[k] = i /\ order[l] = j
      BY <2>6
    <3>3. ~Before(j, i)
      BY <2>1, <2>3, <3>1, NothingPassed
    <3>4. k < l
      <4>1. k # l
        BY <3>1, <3>2
      <4>2. ~(l < k)
        BY <2>4, <3>2, <3>3 DEF Sorted
      <4> QED BY <4>1, <4>2, <2>3
    <3>5. data'[k] = f /\ data'[l] = g
      BY <2>4, <3>1, <3>2
    <3> QED BY <2>5, <3>4, <3>5 DEF Precedes
  <2> QED BY <2>7, <2>8, <2>9 DEF Keeps
<1> QED BY <1>1, <1>2 DEF FixDataOrder

\* So it holds of every behaviour.
LEMMA DataInvariant == DataSpec => []Keeps
<1>1. Keeps /\ [FixDataOrder]_dataVars => Keeps'
  <2> SUFFICES ASSUME Keeps, [FixDataOrder]_dataVars PROVE Keeps'
    OBVIOUS
  <2>1. CASE FixDataOrder
    BY <2>1, FixKeeps
  <2>2. CASE UNCHANGED dataVars
    BY <2>2, SameKeeps DEF dataVars
  <2> QED BY <2>1, <2>2
<1> QED BY <1>1, DataStart, PTL DEF DataSpec

\* However the findings of a data list are fixed, it keeps its entries, and a file that mentions
\* what an earlier XML file declares still loads after it (fix_data_order_risk, safe_placement).
THEOREM DataListStays == DataSpec => []DataListKept
<1>1. Keeps => DataListKept
  BY DEF Keeps, DataListKept
<1> QED BY <1>1, DataInvariant, PTL
-----------------------------------------------------------------------------
(* What is left to move *)

Moving == {i \in Place : High(i)}

\* A rearrangement: the data list and the fixer's order for it.
Rearranges(order) ==
  /\ DataTypes /\ Moves /\ order \in [Place -> Place] /\ Sorted(order)
  /\ data' = [k \in Place |-> data[order[k]]]

\* What it means for the list and its order.
LEMMA Rearranged ==
  ASSUME NEW order, Rearranges(order)
  PROVE  /\ Place' = Place /\ data' \in Seq(DataFile) /\ \A k \in Place : data'[k] = data[order[k]] /\ order[k] \in Place
         /\ \A i \in Place : \E k \in Place : order[k] = i
         /\ \A k, l \in Place : k < l => Before(order[k], order[l])
         /\ \A k \in Place : k \in Nat /\ data[k] \in DataFile
<1>1. Len(data) \in Nat /\ Place = 1..Len(data) /\ \A k \in Place : k \in Nat /\ data[k] \in DataFile
  BY DEF Rearranges, DataTypes, Place
<1>2. data' = [k \in Place |-> data[order[k]]] /\ order \in [Place -> Place] /\ Sorted(order)
  BY DEF Rearranges
<1>3. Kept = Place
  BY DEF Rearranges, Moves, Kept
<1>4. DOMAIN order = Place /\ \A k \in Place : data'[k] = data[order[k]] /\ order[k] \in Place
  BY <1>2
<1>5. data' \in Seq(DataFile) /\ Len(data') = Len(data)
  BY <1>1, <1>2, <1>4
<1>6. Place' = Place
  BY <1>5 DEF Place
<1>7. \A i \in Place : \E k \in Place : order[k] = i
  BY <1>2, <1>3, <1>4 DEF Sorted
<1>8. \A k, l \in Place : k < l => Before(order[k], order[l])
  BY <1>2, <1>4 DEF Sorted
<1> QED BY <1>1, <1>4, <1>5, <1>6, <1>7, <1>8

\* No entry appears twice in the order.
LEMMA OrderOnce ==
  ASSUME NEW order, Rearranges(order), NEW k \in Place, NEW l \in Place, order[k] = order[l]
  PROVE  k = l
<1>1. order[k] \in Nat /\ k \in Nat /\ l \in Nat
  BY Rearranged
<1>2. Slot(order[k]) \in Nat
  BY <1>1, Rearranged, TargetBefore DEF Rearranges, DataTypes, Slot, Place
<1>3. ~Before(order[k], order[k])
  BY <1>1, <1>2 DEF Before
<1>4. ~(k < l) /\ ~(l < k)
  BY <1>3, Rearranged
<1> QED BY <1>1, <1>4

\* An XML file stays in front of what mentions something it declares.
LEMMA OrderRespects ==
  ASSUME NEW order, Rearranges(order), NEW k \in Place, NEW l \in Place, order[k] < order[l],
         About[data[order[k]]].xml, About[data[order[l]]].mentions \cap About[data[order[k]]].declares # {}
  PROVE  k < l
<1>1. order[k] \in Place /\ order[l] \in Place /\ k \in Nat /\ l \in Nat /\ order[k] \in Nat
  BY Rearranged
<1>2. ~Before(order[l], order[k])
  BY <1>1, NothingPassed DEF Rearranges
<1>3. ~(l < k)
  BY <1>2, Rearranged
<1>4. k # l
  BY <1>1
<1> QED BY <1>1, <1>3, <1>4

\* The files that define a group keep their order, so each creates the groups it did.
LEMMA CreatesKept ==
  ASSUME NEW order, Rearranges(order), NEW k \in Place
  PROVE  Creates(k)' = Creates(order[k])
<1> DEFINE i == order[k]
           Sharers(g) == {j \in Place : j < i /\ Reads(j) /\ g \in About[data[j]].groups}
<1>0. i \in Place /\ data'[k] = data[i] /\ Place' = Place
  BY Rearranged
<1>1. \A f \in DataFile : About[f].groups \subseteq About[f].declares /\ About[f].groups \subseteq About[f].mentions
  BY DataOrderAssumption DEF DataOrderAssumption
<1>2. ASSUME NEW g \in About[data[i]].groups, Reads(i), NEW l \in Place, l < k, Reads(l)', g \in About[data'[l]].groups
      PROVE  \E j \in Place : j < i /\ Reads(j) /\ g \in About[data[j]].groups
  <2>1. /\ order[l] \in Place /\ data'[l] = data[order[l]] /\ Reads(order[l]) /\ data[order[l]] \in DataFile
        /\ order[l] \in Nat /\ i \in Nat /\ k \in Nat /\ l \in Nat /\ data[i] \in DataFile
    BY <1>0, <1>2, Rearranged DEF Reads
  <2>2. order[l] # i
    BY <1>2, <2>1, OrderOnce
  <2>3. g \in About[data[order[l]]].mentions /\ g \in About[data[i]].declares
    BY <1>1, <1>2, <2>1
  <2>4. ~(i < order[l])
    <3> SUFFICES ASSUME i < order[l] PROVE FALSE
      OBVIOUS
    <3>1. k < l
      BY <1>2, <2>3, OrderRespects DEF Reads
    <3> QED BY <1>2, <2>1, <3>1
  <2> QED BY <1>2, <2>1, <2>2, <2>4
<1>3. ASSUME NEW g \in About[data[i]].groups, Reads(i), NEW j \in Place, j < i, Reads(j), g \in About[data[j]].groups
      PROVE  \E l \in Place : l < k /\ Reads(l)' /\ g \in About[data'[l]].groups
  <2>1. PICK l \in Place : order[l] = j
    BY Rearranged
  <2>2. data'[l] = data[j] /\ data[j] \in DataFile /\ data[i] \in DataFile
    BY <1>0, <2>1, Rearranged
  <2>3. g \in About[data[i]].mentions /\ g \in About[data[j]].declares
    BY <1>1, <1>3, <2>2
  <2>4. l < k
    BY <1>3, <2>1, <2>3, OrderRespects DEF Reads
  <2> QED BY <1>3, <2>1, <2>2, <2>4 DEF Reads
<1>4. Reads(k)' <=> Reads(i)
  BY <1>0 DEF Reads
<1>5. Creates(k)' = {g \in About[data[i]].groups : Reads(i) /\ \A l \in Place : l < k /\ Reads(l)' => g \notin About[data'[l]].groups}
  BY <1>0, <1>4 DEF Creates
<1>6. Creates(i) = {g \in About[data[i]].groups : Reads(i) /\ \A j \in Place : j < i /\ Reads(j) => g \notin About[data[j]].groups}
  BY DEF Creates
<1> QED BY <1>2, <1>3, <1>5, <1>6

\* What is still a high finding afterwards was one before, and comes behind another that was.
LEMMA HighBehind ==
  ASSUME NEW order, Rearranges(order), NEW k \in Place, High(k)'
  PROVE  High(order[k]) /\ \E l \in Place : l < k /\ High(order[l])
<1> DEFINE i == order[k]
<1>0. i \in Place /\ i \in Nat /\ k \in Nat /\ data'[k] = data[i] /\ data[i] \in DataFile /\ Place' = Place
  BY Rearranged
<1>1. PICK l \in Place : l < k /\ Reads(l)' /\ About[data'[l]].needs \cap Creates(k)' # {}
  BY <1>0 DEF High, Loaders
<1> DEFINE j == order[l]
<1>2. j \in Place /\ j \in Nat /\ l \in Nat /\ data'[l] = data[j] /\ data[j] \in DataFile /\ Reads(j)
  BY <1>1, Rearranged DEF Reads
<1>3. PICK g : g \in About[data[j]].needs /\ g \in Creates(i)
  BY <1>1, <1>2, CreatesKept
<1>4. Reads(i) /\ g \in About[data[i]].declares /\ g \in About[data[j]].mentions
  BY <1>0, <1>2, <1>3, DataOrderAssumption DEF DataOrderAssumption, Creates
<1>5. j < i
  <2>1. j # i
    BY <1>0, <1>1, <1>2, OrderOnce
  <2>2. ~(i < j)
    <3> SUFFICES ASSUME i < j PROVE FALSE
      OBVIOUS
    <3>1. k < l
      BY <1>4, OrderRespects DEF Reads
    <3> QED BY <1>0, <1>1, <1>2, <3>1
  <2> QED BY <1>0, <1>2, <2>1, <2>2
<1>6. j \in Loaders(i)
  BY <1>2, <1>3, <1>5 DEF Loaders
<1>7. High(i)
  <2> SUFFICES ASSUME ~High(i) PROVE FALSE
    OBVIOUS
  <2>1. About[data[i]].kind = "security"
    BY <1>0 DEF High
  <2>2. PICK v \in Place : v < k /\ About[data'[v]].kind = "view"
    BY <1>0 DEF High
  <2>3. order[v] \in Place /\ order[v] \in Nat /\ About[data[order[v]]].kind = "view" /\ Before(order[v], i)
    BY <2>2, Rearranged
  <2>4. ~High(order[v])
    BY <2>3 DEF High
  <2>5. Slot(order[v]) = order[v] /\ Slot(i) = i
    BY <2>4 DEF Slot
  <2>6. order[v] < i
    BY <2>3, <2>4, <2>5 DEF Before
  <2> QED BY <1>6, <2>1, <2>3, <2>6 DEF High
<1>8. High(j)
  <2> SUFFICES ASSUME ~High(j) PROVE FALSE
    OBVIOUS
  <2>1. Slot(j) = j /\ Slot(i) = Target(i)
    BY <1>7 DEF Slot
  <2>2. Target(i) \in Nat /\ Target(i) <= j
    <3>1. Loaders(i) \subseteq Nat /\ Loaders(i) # {}
      BY <1>6, Rearranged DEF Loaders
    <3>2. \E n \in Loaders(i) : \A m \in Loaders(i) : n <= m
      BY <3>1, LeastNat
    <3>3. Target(i) \in Loaders(i) /\ \A m \in Loaders(i) : Target(i) <= m
      BY <3>2 DEF Target, Least
    <3> QED BY <1>6, <3>1, <3>3
  <2>3. Before(j, i)
    BY <1>1, Rearranged
  <2> QED BY <1>2, <2>1, <2>2, <2>3 DEF Before
<1> QED BY <1>1, <1>7, <1>8

\* So every rearrangement leaves fewer of them.
LEMMA FewerMove ==
  ASSUME NEW order, Rearranges(order), Moving # {}
  PROVE  Cardinality(Moving') < Cardinality(Moving) /\ Cardinality(Moving') \in Nat /\ Cardinality(Moving) \in Nat
<1> DEFINE S == {k \in Place : High(order[k])}
<1>1. PICK k \in S : \A l \in S : k <= l
  <2>1. S \subseteq Nat /\ S # {}
    BY Rearranged DEF Moving
  <2> QED BY <2>1, LeastNat
<1>2. order[k] \in Moving /\ k \in Nat
  BY <1>1, Rearranged DEF Moving
<1>3. Place' = Place
  BY Rearranged
<1>4. ~High(k)'
  <2> SUFFICES ASSUME High(k)' PROVE FALSE
    OBVIOUS
  <2>1. PICK l \in Place : l < k /\ High(order[l])
    BY HighBehind
  <2> QED BY <1>1, <1>2, <2>1, Rearranged
<1> DEFINE R == Moving \ {order[k]}
           M == Moving'
           f == [x \in M |-> order[x]]
<1>5. \A x \in M : x \in Place /\ x # k /\ order[x] \in Moving
  BY <1>3, <1>4, HighBehind, Rearranged DEF Moving
<1>6. \A x \in M : order[x] \in R
  BY <1>5, OrderOnce
<1>7. \A x, y \in M : order[x] = order[y] => x = y
  BY <1>5, OrderOnce
<1>8. IsFiniteSet(Moving)
  <2>1. IsFiniteSet(Place)
    BY FS_Interval DEF Rearranges, DataTypes, Place
  <2> QED BY <2>1, FS_Subset DEF Moving
<1>9. IsFiniteSet(R) /\ Cardinality(R) = Cardinality(Moving) - 1 /\ Cardinality(Moving) \in Nat
  BY <1>2, <1>8, FS_RemoveElement, FS_CardinalityType
<1> HIDE DEF R, M
<1>10. f \in Injection(M, R)
  BY <1>6, <1>7 DEF Injection, IsInjective
<1> HIDE DEF f
<1>11. IsFiniteSet(M) /\ Cardinality(M) <= Cardinality(R)
  BY <1>9, <1>10, FS_Injection
<1>12. Cardinality(M) \in Nat /\ Cardinality(R) \in Nat
  BY <1>9, <1>11, FS_CardinalityType
<1> QED BY <1>9, <1>11, <1>12 DEF M

\* The calls that are left are enough for what is left to move.
CallsLeft == left \in Nat /\ (Changes => Cardinality(Moving) <= left)

\* What has to move depends on the list and its order only.
LEMMA SameMoving ==
  ASSUME UNCHANGED <<data, neat>>
  PROVE  (Changes' <=> Changes) /\ Moving' = Moving
<1>1. Place' = Place /\ \A i : Reads(i)' = Reads(i)
  BY DEF Place, Reads
<1>2. \A i : Creates(i)' = Creates(i)
  BY <1>1 DEF Creates
<1>3. \A i : Loaders(i)' = Loaders(i)
  BY <1>1, <1>2 DEF Loaders
<1>4. \A i : (High(i)' <=> High(i)) /\ Target(i)' = Target(i)
  BY <1>1, <1>3 DEF High, Target
<1>5. \A i : Clash(i)' <=> Clash(i)
  BY <1>1, <1>4 DEF Clash
<1>6. \A i : High(Target(i))' <=> High(Target(i))
  BY <1>4
<1>7. Distinct' <=> Distinct
  BY <1>1 DEF Distinct
<1>8. Moves' <=> Moves
  BY <1>1, <1>4, <1>5, <1>6, <1>7 DEF Moves
<1> QED BY <1>1, <1>4, <1>8 DEF Changes, Moving

\* Each call leaves fewer calls to make.
LEMMA CallsStep ==
  ASSUME DataTypes, CallsLeft, FixDataOrder
  PROVE  CallsLeft'
<1>1. left \in Nat /\ left > 0 /\ left' = left - 1 /\ UNCHANGED neat
  BY DEF CallsLeft, FixDataOrder
<1>2. CASE ~Changes /\ UNCHANGED data
  BY <1>1, <1>2, SameMoving DEF CallsLeft
<1>3. CASE Changes /\ \E order \in [1..Cardinality(Kept) -> Kept] :
                        Sorted(order) /\ data' = [k \in DOMAIN order |-> data[order[k]]]
  <2>1. Moves /\ Moving # {} /\ Cardinality(Moving) <= left
    BY <1>3 DEF Changes, CallsLeft, Moving
  <2>2. Kept = Place /\ 1..Cardinality(Kept) = Place
    BY <2>1, KeptLength DEF DataTypes, Place
  <2>3. PICK order \in [Place -> Place] : Sorted(order) /\ data' = [k \in DOMAIN order |-> data[order[k]]]
    BY <1>3, <2>2
  <2>4. Rearranges(order)
    BY <2>1, <2>3 DEF Rearranges
  <2>5. Cardinality(Moving') < Cardinality(Moving) /\ Cardinality(Moving') \in Nat /\ Cardinality(Moving) \in Nat
    BY <2>1, <2>4, FewerMove
  <2>6. Cardinality(Moving') <= left'
    BY <1>1, <2>1, <2>5
  <2> QED BY <1>1, <2>6 DEF CallsLeft
<1> QED BY <1>2, <1>3 DEF FixDataOrder

\* Once every finding has had its call, nothing is left that another fix of the file would
\* change (fix_data_order_risk, called by fix_all for each finding).
THEOREM FixesSettle == DataSpec => []FixAllSettles
<1>1. DataInit => CallsLeft
  <2> SUFFICES ASSUME DataInit PROVE CallsLeft
    OBVIOUS
  <2>1. left = Cardinality(Moving) /\ data \in Seq(DataFile)
    BY DataOrderAssumption DEF DataInit, DataOrderAssumption, Moving
  <2>2. IsFiniteSet(Moving)
    <3>1. IsFiniteSet(Place)
      BY <2>1, FS_Interval DEF Place
    <3> QED BY <3>1, FS_Subset DEF Moving
  <2> QED BY <2>1, <2>2, FS_CardinalityType DEF CallsLeft
<1>2. Keeps /\ CallsLeft /\ [FixDataOrder]_dataVars => CallsLeft'
  <2> SUFFICES ASSUME Keeps, CallsLeft, [FixDataOrder]_dataVars PROVE CallsLeft'
    OBVIOUS
  <2>1. CASE UNCHANGED dataVars
    BY <2>1, SameMoving DEF dataVars, CallsLeft
  <2> QED BY <2>1, CallsStep DEF Keeps
<1>3. Keeps /\ CallsLeft => FixAllSettles
  <2> SUFFICES ASSUME Keeps, CallsLeft, left = 0, Changes PROVE FALSE
    BY DEF FixAllSettles
  <2>1. Moving # {}
    BY DEF Changes, Moving
  <2>2. IsFiniteSet(Moving)
    <3>1. IsFiniteSet(Place)
      BY FS_Interval DEF Keeps, DataTypes, Place
    <3> QED BY <3>1, FS_Subset DEF Moving
  <2>3. Cardinality(Moving) \in Nat /\ Cardinality(Moving) # 0
    BY <2>1, <2>2, FS_EmptySet, FS_CardinalityType
  <2> QED BY <2>3 DEF CallsLeft
<1> QED BY <1>1, <1>2, <1>3, DataInvariant, PTL DEF DataSpec
=============================================================================
