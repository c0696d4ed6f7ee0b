--------------------------- MODULE ScanReuseProofs ---------------------------
(***************************************************************************)
(* Proofs about what is carried from one scan of a folder to the next.     *)
(***************************************************************************)
EXTENDS ScanReuse, TLAPS

(***************************************************************************)
(* Types.                                                                  *)
(***************************************************************************)

Entries == [file : File, mtime : 0..MaxClock, size : Size, content : Content]

\* None stands for nothing else.
LEMMA NoneApart ==
  /\ None \notin Content /\ None \notin Addon /\ None \notin Times /\ None \notin Stamped
  /\ None \notin Hashed /\ None \notin Of(Text) /\ None \notin Of(Inputs) /\ None \notin File
  BY NoneAssumption, ProjectAssumption DEF NoneAssumption, ProjectAssumption

\* The stat of a file that is there, and of one that is not.
LEMMA StatType ==
  ASSUME TypeOK, NEW f \in File
  PROVE  /\ Stat(f) \in Times \cup {None} /\ (Present(f) <=> Stat(f) # None)
         /\ Present(f) => /\ Stat(f) \in Times /\ disk[f].content \in Content
                          /\ Stat(f).mtime = disk[f].mtime /\ Stat(f).ctime = disk[f].ctime
                          /\ Stat(f).size = SizeOf[disk[f].content]
  <1>1. disk[f] \in [content : Text, mtime : 0..MaxClock, ctime : 0..MaxClock]
    BY DEF TypeOK
  <1>2. CASE Present(f)
    <2>1. disk[f].content \in Content /\ SizeOf[disk[f].content] \in Size
      BY <1>1, <1>2 DEF Present, Text, Size
    <2>2. Stat(f) \in Times
      BY <1>1, <1>2, <2>1 DEF Stat, Times
    <2>3. QED BY <1>2, <2>1, <2>2, NoneApart DEF Stat
  <1>3. QED BY <1>2 DEF Stat

\* A present file has a stamp, an absent one has none.
LEMMA StampOfType ==
  ASSUME TypeOK, NEW f \in File
  PROVE  StampOf(f) \in Stamp /\ (Present(f) <=> StampOf(f) # None)
         /\ (Present(f) => StampOf(f) \in Stamped /\ StampOf(f).stat = Stat(f)
                           /\ StampOf(f).rewritten \in {None, disk[f].content})
  <1>1. CASE Present(f)
    <2>1. PICK d \in {None, disk[f].content} : StampOf(f) = [stat |-> Stat(f), rewritten |-> d]
      BY <1>1 DEF StampOf
    <2>2. d \in Text /\ Stat(f) \in Times
      BY <1>1, <2>1, StatType DEF Text
    <2>3. QED BY <1>1, <2>1, <2>2, NoneApart DEF Stamp, Stamped
  <1>2. QED BY <1>1 DEF StampOf, Stamp

\* The stamps of files too young to be trusted.
LEMMA RacyType ==
  ASSUME TypeOK, NEW f \in File PROVE RacyAfter(f) \in [File -> RacyStamp]
  <1>1. CASE Present(f) /\ now - disk[f].mtime < Window
    <2>1. [stat |-> Stat(f), hash |-> disk[f].content] \in RacyStamp
      BY <1>1, StatType DEF RacyStamp, Hashed
    <2>2. QED BY <1>1, <2>1 DEF RacyAfter, TypeOK
  <1>2. QED BY <1>1 DEF RacyAfter, TypeOK

\* What a read gives is a text or nothing.
LEMMA ReadType ==
  ASSUME TypeOK, NEW f \in File, NEW c, ReadSource(f, c)
  PROVE  lru' \in SUBSET Entries /\ c \in Text
  <1>1. CASE ~Present(f)
    BY <1>1 DEF ReadSource, TypeOK, Text, Entries
  <1>2. CASE Present(f)
    <2>1. disk[f].mtime \in 0..MaxClock /\ disk[f].content \in Content /\ SizeOf[disk[f].content] \in Size
      BY <1>2 DEF TypeOK, Present, Text, Size
    <2>2. c \in Content
      BY <1>2, <2>1 DEF ReadSource, Cached, TypeOK
    <2>3. [file |-> f, mtime |-> disk[f].mtime, size |-> SizeOf[disk[f].content], content |-> c] \in Entries
      BY <2>1, <2>2 DEF Entries
    <2>4. QED BY <1>2, <2>2, <2>3 DEF ReadSource, TypeOK, Entries, Text
  <1>3. QED BY <1>1, <1>2

\* What is read from a set of files.
LEMMA ContentsType ==
  ASSUME TypeOK, NEW files PROVE Contents(files) \in Inputs
  BY DEF Contents, Inputs, Text, TypeOK

\* The empty values of the scanner's tables.
LEMMA BlankTypes ==
  /\ NoFile \in [File -> Stamp] /\ NoFile \in [File -> RacyStamp] /\ NoFile \in [File -> KeptFile]
  /\ NoAddon \in [Addon -> KeptRun] /\ Blank \in Report /\ Empty \in Reuse
  <1>1. /\ NoFile \in [File -> Stamp] /\ NoFile \in [File -> RacyStamp] /\ NoFile \in [File -> KeptFile]
        /\ NoFile \in Inputs /\ NoAddon \in [Addon -> KeptRun]
    BY DEF NoFile, NoAddon, Stamp, RacyStamp, KeptFile, KeptRun, Inputs, Text
  <1>2. NoFile \in [File -> Of(Text) \cup {None}] /\ NoAddon \in [Addon -> Of(Inputs) \cup {None, Failed}]
    BY DEF NoFile, NoAddon
  <1>3. Blank \in Report
    BY <1>1, <1>2 DEF Blank, Report
  <1>4. Empty \in Reuse
    BY <1>1 DEF Empty, Reuse, KeptReport
  <1>5. QED BY <1>1, <1>3, <1>4

\* What a scan begins with, after a change of the environment or not.
LEMMA BegunType ==
  ASSUME NEW r \in Reuse, NEW e \in Env PROVE Begun(r, e) \in Reuse
  BY BlankTypes DEF Begun, Reuse

\* What every scan leaves behind when it returns.
LEMMA ReturnType ==
  ASSUME TypeOK, NEW r \in Reuse, NEW res \in Report, Return(r, res), UNCHANGED <<world, lru, visit>>
  PROVE  TypeOK'
  <1>1. reuse' \in Reuse /\ held' \in Reuse /\ result' \in Report /\ got' \in Report
    BY BlankTypes DEF Return, Entry, TypeOK
  <1>2. /\ sigs' \in [File -> Stamp] /\ racy' \in [File -> RacyStamp]
        /\ newFiles' \in [File -> KeptFile] /\ newLint' \in [Addon -> KeptRun]
    BY BlankTypes DEF Return
  <1>3. now' \in 0..MaxClock /\ phase' = "idle" /\ todo' = {} /\ found' = {} /\ linted' = {} /\ cfg' = None
        /\ attached' = FALSE
    BY SettingsAssumption DEF Return, SettingsAssumption
  <1>4. QED BY <1>1, <1>2, <1>3 DEF TypeOK, Phase, world, visit

\* A running scan has loaded a configuration; a file whose rules are to run has a stamp.
Running ==
  /\ phase # "idle" => cfg \in Env
  /\ at # None => atSig \in Stamped

TypeInv == TypeOK /\ Running

\* A file's rules run adds to the report.
LEMMA GotRules ==
  ASSUME TypeOK, NEW f \in File, NEW x \in Of(Text), got' = [got EXCEPT !.rules[f] = x]
  PROVE  got' \in Report
  <1>1. got.rules \in [File -> Of(Text) \cup {None}] /\ got' = [got EXCEPT !.rules = [got.rules EXCEPT ![f] = x]]
    BY DEF TypeOK, Report
  <1>2. [got.rules EXCEPT ![f] = x] \in [File -> Of(Text) \cup {None}]
    BY <1>1
  <1>3. QED BY <1>1, <1>2 DEF TypeOK, Report

\* So does an addon's external lint run.
LEMMA GotLint ==
  ASSUME TypeOK, NEW a \in Addon, NEW x \in Of(Inputs) \cup {Failed}, got' = [got EXCEPT !.lint[a] = x]
  PROVE  got' \in Report
  <1>1. got.lint \in [Addon -> Of(Inputs) \cup {None, Failed}] /\ got' = [got EXCEPT !.lint = [got.lint EXCEPT ![a] = x]]
    BY DEF TypeOK, Report
  <1>2. [got.lint EXCEPT ![a] = x] \in [Addon -> Of(Inputs) \cup {None, Failed}]
    BY <1>1
  <1>3. QED BY <1>1, <1>2 DEF TypeOK, Report

\* The modules found are addons.
LEMMA ModulesAreAddons == Modules \subseteq Addon
  BY ProjectAssumption DEF Modules, ProjectAssumption

\* The key of a lint run is made of stamps.
LEMMA LintKeyType == ASSUME TypeOK, NEW a PROVE LintKey(a) \in [File -> Stamp]
  BY DEF LintKey, TypeOK, Stamp

\* The type invariant holds at first.
LEMMA InitType == Init => TypeInv
  <1> SUFFICES ASSUME Init PROVE TypeInv
    OBVIOUS
  <1>1. disk \in [File -> [content : Text, mtime : 0..MaxClock, ctime : 0..MaxClock]]
    <2>1. setting.texts \subseteq Content /\ 0 \in 0..MaxClock
      BY SettingsAssumption DEF Init, SettingsAssumption
    <2>2. QED BY <2>1 DEF Init, Text
  <1>2. 0 \in 0..MaxClock /\ 0 \in Env
    BY SettingsAssumption DEF SettingsAssumption, Env
  <1>3. QED BY <1>1, <1>2, BlankTypes DEF Init, TypeOK, Phase, Stamp, TypeInv, Running

\* Files are written and deleted.
LEMMA WriteType ==
  ASSUME TypeOK, NEW f \in File, NEW c \in Content, Write(f, c) \/ WriteBack(f, c) \/ Delete(f)
  PROVE  TypeOK'
  <1>1. setting.ticks \in 0..MaxClock /\ MaxClock \in Nat
    BY SettingsAssumption DEF SettingsAssumption, TypeOK
  <1>2. clock' \in 0..MaxClock
    BY <1>1 DEF TypeOK, Write, WriteBack, Delete
  <1>3. disk' \in [File -> [content : Text, mtime : 0..MaxClock, ctime : 0..MaxClock]]
    <2>1. CASE Write(f, c)
      BY <1>2, <2>1 DEF TypeOK, Write, Text
    <2>2. CASE WriteBack(f, c)
      BY <1>2, <2>2 DEF TypeOK, WriteBack, Text
    <2>3. CASE Delete(f)
      BY <2>3 DEF TypeOK, Delete, Text
    <2>4. QED BY <2>1, <2>2, <2>3
  <1>4. quiet' \in BOOLEAN /\ UNCHANGED scanner
    BY DEF TypeOK, Write, WriteBack, Delete
  <1>5. QED
    BY <1>2, <1>3, <1>4 DEF TypeOK, scanner, object, stamps, visit, kept

\* Every step keeps the types.
LEMMA StepType == TypeInv /\ [Next]_vars => TypeOK'
  <1> SUFFICES ASSUME TypeOK, Running, [Next]_vars PROVE TypeOK'
    BY DEF TypeInv
  <1> USE DEF world, object, stamps, visit, kept
  <1>1. ASSUME NEW f \in File, NEW c \in Content, Write(f, c) \/ WriteBack(f, c) PROVE TypeOK'
    BY <1>1, WriteType
  <1>2. ASSUME NEW f \in File, Delete(f) PROVE TypeOK'
    <2>1. CASE Content = {}
      BY <1>2, <2>1, StatType DEF Delete
    <2>2. QED BY <1>2, <2>1, WriteType
  <1>3. CASE Tick
    <2>1. setting.ticks \in 0..MaxClock /\ MaxClock \in Nat
      BY SettingsAssumption DEF SettingsAssumption, TypeOK
    <2>2. clock' \in 0..MaxClock
      BY <1>3, <2>1 DEF TypeOK, Tick
    <2>3. QED BY <1>3, <2>2 DEF TypeOK, Tick, scanner
  <1>4. CASE Configure
    <2>1. env' \in Env
      BY <1>4, SettingsAssumption DEF Configure, TypeOK, Env, SettingsAssumption
    <2>2. QED BY <1>4, <2>1 DEF TypeOK, Configure
  <1>5. CASE Forget
    BY <1>5, BlankTypes DEF TypeOK, Forget
  <1>6. CASE StartScan
    <2>1. Manifest \subseteq File /\ phase' = "discover" /\ cfg' \in Env
      BY <1>6, ProjectAssumption DEF ProjectAssumption, StartScan, TypeOK
    <2>2. QED BY <1>6, <2>1 DEF TypeOK, StartScan, Phase
  <1>7. ASSUME NEW f \in File, Discover(f) PROVE TypeOK'
    <2>1. PICK c \in Content \cup {None} : ReadSource(f, c)
      BY <1>7 DEF Discover
    <2>2. lru' \in SUBSET Entries
      BY <2>1, ReadType
    <2>3. AddonOf[f] \in Addon
      BY ProjectAssumption DEF ProjectAssumption
    <2>4. todo' \subseteq File /\ found' \subseteq Addon
      BY <1>7, <2>3 DEF Discover, TypeOK
    <2>5. QED BY <1>7, <2>2, <2>4 DEF Discover, TypeOK, Entries
  <1>8. CASE Begin
    <2>1. CASE found = {} /\ Return(held, Blank)
      BY <1>8, <2>1, BlankTypes, ReturnType DEF Begin, TypeOK
    <2>2. CASE ~(found = {} /\ Return(held, Blank))
      <3>1. cfg \in Env
        BY <1>8 DEF Begin, Running
      <3>2. QED BY <1>8, <2>2, <3>1, BegunType DEF Begin, Mutate, Entry, TypeOK, Phase, FilesOf
    <2>3. QED BY <2>1, <2>2
  <1>9. ASSUME NEW f \in File, StampFile(f) PROVE TypeOK'
    <2>1. sigs' \in [File -> Stamp] /\ racy' \in [File -> RacyStamp]
      BY <1>9, StampOfType, RacyType DEF StampFile, TypeOK
    <2>2. QED BY <1>9, <2>1 DEF StampFile, TypeOK
  <1>10. CASE ReuseLast
    <2>1. held.last.result \in Report
      BY <1>10 DEF ReuseLast, SameProject, TypeOK, Reuse, KeptReport
    <2>2. [held EXCEPT !.racy = racy] \in Reuse
      BY DEF TypeOK, Reuse
    <2>3. QED BY <1>10, <2>1, <2>2, ReturnType DEF ReuseLast
  <1>11. CASE BuildGraph
    BY <1>11, ProjectAssumption DEF BuildGraph, TypeOK, ProjectAssumption, Phase
  <1>12. ASSUME NEW f \in File, ParseManifest(f) \/ ParseModels(f) PROVE TypeOK'
    <2>1. PICK c \in Content \cup {None} : ReadSource(f, c) /\ got' = [got EXCEPT !.graph[f] = c]
      BY <1>12 DEF ParseManifest, ParseModels
    <2>2. lru' \in SUBSET Entries /\ c \in Text
      BY <2>1, ReadType
    <2>3. got' \in Report
      BY <2>1, <2>2 DEF TypeOK, Report, Inputs
    <2>4. QED BY <1>12, <2>2, <2>3 DEF ParseManifest, ParseModels, TypeOK, Entries
  <1>13. CASE GraphModules
    <2>1. CASE Modules = {} /\ Return(held, Blank)
      BY <1>13, <2>1, BlankTypes, ReturnType DEF GraphModules, TypeOK
    <2>2. QED BY <1>13, <2>1 DEF GraphModules, TypeOK, Phase, FilesOf
  <1>14. CASE StartRules
    BY <1>14 DEF StartRules, TypeOK, Phase, FilesOf
  <1>15. ASSUME NEW f \in File, VisitFile(f) PROVE TypeOK'
    <2>1. CASE Present(f) /\ Hit(f)
      <3>1. held.files[f] \in KeptFile /\ held.files[f].finding \in Of(Text)
        BY <2>1 DEF Hit, TypeOK, Reuse, KeptFile
      <3>2. newFiles' \in [File -> KeptFile] /\ got' \in Report
        BY <1>15, <2>1, <3>1, GotRules DEF VisitFile, TypeOK, Present
      <3>3. QED BY <1>15, <2>1, <3>2, RacyType DEF VisitFile, TypeOK
    <2>2. CASE ~(Present(f) /\ Hit(f))
      BY <1>15, <2>2, StampOfType, RacyType DEF VisitFile, TypeOK
    <2>3. QED BY <2>1, <2>2
  <1>16. ASSUME NEW f \in File, RunRules(f) PROVE TypeOK'
    <2>1. PICK c \in Content \cup {None}, keep \in BOOLEAN :
            /\ ReadSource(f, c)
            /\ got' = [got EXCEPT !.rules[f] = Finding(c)]
            /\ newFiles' = IF keep THEN [newFiles EXCEPT ![f] = [stamp |-> atSig, finding |-> Finding(c)]]
                           ELSE newFiles
      BY <1>16 DEF RunRules
    <2>2. lru' \in SUBSET Entries /\ c \in Text
      BY <2>1, ReadType
    <2>3. f # None /\ atSig \in Stamped /\ cfg \in Env
      BY <1>16, NoneApart DEF RunRules, Running
    <2>4. Finding(c) \in Of(Text)
      BY <2>2, <2>3 DEF Finding, Of
    <2>5. [stamp |-> atSig, finding |-> Finding(c)] \in KeptFile
      BY <2>3, <2>4 DEF KeptFile
    <2>6. newFiles' \in [File -> KeptFile]
      BY <2>1, <2>5 DEF TypeOK
    <2>7. got' \in Report
      BY <2>1, <2>4, GotRules
    <2>8. lru' \in SUBSET [file : File, mtime : 0..MaxClock, size : Size, content : Content]
      BY <2>2 DEF Entries
    <2>9. at' = None /\ atSig' = None
          /\ UNCHANGED <<world, object, phase, cfg, todo, found, stamps, newLint, result, linted>>
      BY <1>16 DEF RunRules
    <2>10. QED BY <2>6, <2>7, <2>8, <2>9 DEF TypeOK, Stamp
  <1>17. CASE StartLint
    BY <1>17, ModulesAreAddons DEF StartLint, ClearSources, TypeOK, Phase
  <1>18. ASSUME NEW a \in Addon, Lint(a) PROVE TypeOK'
    <2>1. todo' \subseteq Addon /\ phase = "lint" /\ cfg \in Env
      BY <1>18 DEF Lint, TypeOK, Running
    <2>2. held.lint[a] \in KeptRun
      BY DEF TypeOK, Reuse
    <2>3. KeptLint(a) => held.lint[a].finding \in Of(Inputs)
      BY <2>2 DEF KeptLint, KeptRun
    <2>4. Finding(LintInput(a)) \in Of(Inputs)
      BY <2>1, ContentsType DEF Finding, Of, LintInput
    <2>5. [key |-> LintKey(a), finding |-> Finding(LintInput(a))] \in KeptRun
      BY <2>4, LintKeyType DEF KeptRun
    <2>6. newLint' \in [Addon -> KeptRun]
      BY <1>18, <2>2, <2>5 DEF Lint, TypeOK
    <2>7. got' \in Report
      BY <1>18, <2>3, <2>4, GotLint DEF Lint
    <2>8. linted' \subseteq Addon
      BY <1>18 DEF Lint, TypeOK
    <2>9. UNCHANGED <<world, lru, object, phase, cfg, found, stamps, visit, newFiles, result>>
      BY <1>18 DEF Lint
    <2>10. QED BY <2>1, <2>6, <2>7, <2>8, <2>9 DEF TypeOK
  <1>19. CASE Finish
    <2> DEFINE final == [got EXCEPT !.env = cfg, !.rest = Contents(FilesOf(Modules) \ Manifest)]
               entry == [env |-> held.env, last |-> [key |-> sigs, result |-> final],
                         files |-> newFiles, lint |-> newLint, racy |-> racy]
    <2>1. cfg \in Env /\ Contents(FilesOf(Modules) \ Manifest) \in Inputs
      BY <1>19, ContentsType DEF Finish, Running
    <2>2. final \in Report
      BY <2>1 DEF TypeOK, Report
    <2>3. [key |-> sigs, result |-> final] \in KeptReport
      BY <2>2 DEF KeptReport, TypeOK
    <2>4. entry \in Reuse
      BY <2>3 DEF Reuse, TypeOK
    <2>5. Return(entry, final) /\ UNCHANGED <<world, lru, visit>>
      BY <1>19 DEF Finish
    <2>6. QED
      <3> HIDE DEF final, entry
      <3> QED BY <2>2, <2>4, <2>5, ReturnType
  <1>20. CASE UNCHANGED vars
    BY <1>20 DEF vars, TypeOK
  <1>21. QED
    BY <1>1, <1>2, <1>3, <1>4, <1>5, <1>6, <1>7, <1>8, <1>9, <1>10, <1>11, <1>12, <1>13, <1>14, <1>15,
       <1>16, <1>17, <1>18, <1>19, <1>20 DEF Next, Scan

\* Every step keeps what a running scan relies on.
LEMMA StepRunning == TypeInv /\ [Next]_vars => Running'
  <1> SUFFICES ASSUME TypeOK, Running, [Next]_vars PROVE Running'
    BY DEF TypeInv
  <1> USE DEF world, object, stamps, visit, kept, Running
  <1>1. ASSUME NEW f \in File, VisitFile(f) PROVE Running'
    BY <1>1, StampOfType DEF VisitFile
  <1>2. CASE StartScan
    BY <1>2 DEF StartScan, TypeOK
  <1>3. CASE UNCHANGED vars
    BY <1>3 DEF vars
  <1>4. QED
    BY <1>1, <1>2, <1>3, ZenonT(40)
       DEF Next, Scan, Tick, Configure, Forget, Write, WriteBack, Delete, scanner, Discover, Begin, Mutate, Return,
           StampFile, ReuseLast, BuildGraph, ParseManifest, GraphModules, ParseModels, StartRules, RunRules, StartLint,
           Lint, Finish

\* Both hold of every behaviour.
LEMMA TypeInvariance == Spec => []TypeInv
  <1>1. TypeInv /\ [Next]_vars => TypeInv'
    BY StepType, StepRunning DEF TypeInv
  <1>2. QED BY <1>1, InitType, PTL DEF Spec

\* Every variable has its type.
THEOREM TypeCorrect == Spec => []TypeOK
  <1>1. TypeInv => TypeOK
    BY DEF TypeInv
  <1>2. QED BY <1>1, TypeInvariance, PTL

-----------------------------------------------------------------------------
(***************************************************************************)
(* What was forgotten stays forgotten.                                     *)
(***************************************************************************)

\* A running scan that has lost its entry in the table leaves the table as it is.
Detached == phase # "idle" /\ ~attached => reuse = Empty

\* A scan that keeps nothing leaves nothing, in every step.
LEMMA DetachedStep == Detached /\ [Next]_vars => Detached' /\ (phase # "idle" /\ ~attached => reuse' = Empty)
  <1> SUFFICES ASSUME Detached, [Next]_vars
               PROVE  Detached' /\ (phase # "idle" /\ ~attached => reuse' = Empty)
    OBVIOUS
  <1> USE DEF world, object, stamps, visit, kept, Detached
  <1>1. CASE UNCHANGED <<phase, object>>
    BY <1>1
  <1>2. CASE StartScan \/ Forget
    BY <1>2 DEF StartScan, Forget
  <1>3. CASE UNCHANGED object /\ phase # "idle"
    BY <1>3
  <1>4. ASSUME NEW r, NEW res, Return(r, res), phase # "idle"
        PROVE  Detached' /\ (phase # "idle" /\ ~attached => reuse' = Empty)
    BY <1>4 DEF Return, Entry
  <1>5. ASSUME NEW r, Mutate(r), phase # "idle"
        PROVE  Detached' /\ (phase # "idle" /\ ~attached => reuse' = Empty)
    BY <1>5 DEF Mutate, Entry
  <1>6. CASE Scan
    <2>1. CASE Begin
      BY <1>4, <1>5, <2>1 DEF Begin
    <2>2. CASE ReuseLast \/ Finish
      BY <1>4, <2>2 DEF ReuseLast, Finish
    <2>3. CASE GraphModules
      BY <1>3, <1>4, <2>3 DEF GraphModules
    <2>4. CASE BuildGraph \/ StartRules \/ StartLint \/ \E a \in Addon : Lint(a)
      BY <1>3, <2>4 DEF BuildGraph, StartRules, StartLint, Lint
    <2>5. ASSUME NEW f \in File,
                 Discover(f) \/ StampFile(f) \/ ParseManifest(f) \/ ParseModels(f) \/ VisitFile(f) \/ RunRules(f)
          PROVE  UNCHANGED object /\ phase # "idle"
      BY <2>5 DEF Discover, StampFile, ParseManifest, ParseModels, VisitFile, RunRules
    <2>6. QED BY <1>2, <1>3, <1>6, <2>1, <2>2, <2>3, <2>4, <2>5 DEF Scan
  <1>7. QED
    BY <1>1, <1>2, <1>6 DEF Next, vars, Tick, Configure, Write, WriteBack, Delete, scanner

\* A scan under way never brings back what was forgotten meanwhile (engine.forget).
THEOREM ForgottenForGood == Spec => DroppedStaysDropped
  <1>1. Init => Detached
    BY DEF Init, Detached
  <1>2. Detached /\ [Next]_vars => Detached'
    BY DetachedStep
  <1>3. Detached /\ [Next]_vars => [phase # "idle" /\ ~attached => reuse' = Empty]_vars
    BY DetachedStep
  <1>4. QED BY <1>1, <1>2, <1>3, PTL DEF Spec, DroppedStaysDropped

-----------------------------------------------------------------------------
(***************************************************************************)
(* Where every write has a time of its own, a stat stands for one content. *)
(***************************************************************************)

\* The file had this stat when its content was c, and will have it with no other content.
Exact(f, stat, c) ==
  /\ stat.mtime <= clock /\ stat.ctime <= clock
  /\ Stat(f) = stat => disk[f].content = c

\* No file has a time that is still to come.
NoFutureTimes == \A f \in File : disk[f].mtime <= clock /\ disk[f].ctime <= clock

\* The source cache holds what the files it would be asked for hold.
CacheExact ==
  \A e \in lru : e.mtime <= clock
    /\ (Present(e.file) /\ e.mtime = disk[e.file].mtime /\ e.size = SizeOf[disk[e.file].content]
          => e.content = disk[e.file].content)

\* What is kept of a file is what its rules make of the content its stat stands for.
FilesExact(files) == \A f \in File : files[f] # None => Exact(f, files[f].stamp.stat, files[f].finding.of)

KeptExact ==
  /\ NoFutureTimes /\ CacheExact
  /\ FilesExact(held.files) /\ FilesExact(reuse.files) /\ FilesExact(newFiles)
  /\ at # None => atSig.stat.mtime <= clock /\ atSig.stat.ctime <= clock

FineInv == FineTimes => KeptExact

\* The setting of a behaviour never changes.
LEMMA SettingConstant == [Next]_vars => setting' = setting
  BY DEF Next, vars, Scan, Tick, Configure, Forget, Write, WriteBack, Delete, scanner, StartScan, Discover, Begin,
         StampFile, ReuseLast, BuildGraph, ParseManifest, GraphModules, ParseModels, StartRules, VisitFile, RunRules,
         StartLint, Lint, Finish, world

\* A step of another program.
WorldStep == Tick \/ \E f \in File : Delete(f) \/ \E c \in Content : Write(f, c) \/ WriteBack(f, c)

\* A file is left alone, deleted, written, or replaced with its mtime set back.
Left(f)     == disk'[f] = disk[f]
Deleted(f)  == /\ disk'[f].content = None /\ f \in setting.fleeting /\ MayWrite
               /\ disk'[f].mtime = disk[f].mtime /\ disk'[f].ctime = disk[f].ctime
Written(f)  == /\ disk'[f].content \in Content /\ MayWrite
               /\ disk'[f].mtime = clock' /\ disk'[f].ctime = clock'
               /\ clock' = clock + 1 \/ f \in setting.coarse
Restored(f) == /\ disk'[f].content \in Content /\ f \in setting.restorable /\ MayWrite
               /\ disk'[f].mtime = disk[f].mtime /\ disk'[f].ctime = clock' /\ clock' = clock + 1

\* What a step of the world may do to each file and to the clock.
LEMMA WorldFacts ==
  ASSUME TypeOK, WorldStep
  PROVE  /\ clock \in Nat /\ clock' \in Nat /\ clock <= clock' /\ UNCHANGED scanner
         /\ \A f \in File : Left(f) \/ Deleted(f) \/ Written(f) \/ Restored(f)
         /\ (quiet' = quiet /\ disk' = disk) \/ (~quiet' /\ MayWrite)
  <1>1. clock \in Nat /\ MaxClock \in Nat /\ setting.ticks \in Nat
    BY SettingsAssumption DEF SettingsAssumption, TypeOK
  <1>2. CASE Tick
    BY <1>1, <1>2 DEF Tick, Left, scanner
  <1>3. ASSUME NEW g \in File, Delete(g)
        PROVE  clock' = clock /\ UNCHANGED scanner /\ ~quiet' /\ MayWrite
               /\ \A f \in File : Left(f) \/ Deleted(f)
    BY <1>3 DEF Delete, Left, Deleted, TypeOK
  <1>4. ASSUME NEW g \in File, NEW c \in Content, Write(g, c)
        PROVE  clock' \in {clock, clock + 1} /\ UNCHANGED scanner /\ ~quiet' /\ MayWrite
               /\ \A f \in File : Left(f) \/ Written(f)
    <2>1. clock' \in {clock, clock + 1} /\ (clock' = clock => g \in setting.coarse)
          /\ disk' = [disk EXCEPT ![g] = [content |-> c, mtime |-> clock', ctime |-> clock']]
      BY <1>4 DEF Write
    <2>2. QED BY <1>4, <2>1 DEF Write, Left, Written, TypeOK
  <1>5. ASSUME NEW g \in File, NEW c \in Content, WriteBack(g, c)
        PROVE  clock' = clock + 1 /\ UNCHANGED scanner /\ ~quiet' /\ MayWrite
               /\ \A f \in File : Left(f) \/ Restored(f)
    BY <1>5 DEF WriteBack, Left, Restored, TypeOK
  <1>6. QED BY <1>1, <1>2, <1>3, <1>4, <1>5 DEF WorldStep

\* With fine file times, a stamp that identifies a content keeps identifying it.
LEMMA ExactWorld ==
  ASSUME TypeOK, FineTimes, NoFutureTimes, WorldStep,
         NEW f \in File, NEW stat \in Times, NEW c, Exact(f, stat, c)
  PROVE  Exact(f, stat, c)'
  <1>1. clock \in Nat /\ clock' \in Nat /\ clock <= clock' /\ stat.mtime \in Nat /\ stat.ctime \in Nat
    BY WorldFacts, SettingsAssumption DEF SettingsAssumption, Times
  <1>2. Left(f) \/ Deleted(f) \/ (Written(f) /\ clock' = clock + 1)
    BY WorldFacts DEF FineTimes, Written, Restored
  <1>3. ASSUME Stat(f)' = stat PROVE disk'[f].content = c
    <2>1. CASE Left(f)
      BY <1>3, <2>1 DEF Exact, Stat, Present, Left
    <2>2. CASE Written(f) /\ clock' = clock + 1
      <3>1. Stat(f)' # None => Stat(f)'.mtime = clock'
        BY <2>2 DEF Stat, Present, Written
      <3>2. QED BY <1>1, <1>3, <2>2, <3>1, NoneApart DEF Exact
    <2>3. CASE Deleted(f)
      <3>1. Stat(f)' = None
        BY <2>3 DEF Deleted, Stat, Present
      <3>2. QED BY <1>3, <3>1, NoneApart
    <2>4. QED BY <1>2, <2>1, <2>2, <2>3
  <1>4. QED BY <1>1, <1>3 DEF Exact

\* Nothing else touches the files: what is exact stays so.
LEMMA ExactFrame ==
  ASSUME UNCHANGED <<disk, clock>>, NEW f, NEW stat, NEW c, Exact(f, stat, c)
  PROVE  Exact(f, stat, c)'
  BY DEF Exact, Stat, Present

\* A read gives what the file holds.
LEMMA CacheRead ==
  ASSUME TypeOK, NoFutureTimes, CacheExact, NEW f \in File, NEW c, ReadSource(f, c), UNCHANGED <<disk, clock>>
  PROVE  CacheExact' /\ c = disk[f].content
  <1>1. CASE ~Present(f)
    BY <1>1 DEF ReadSource, CacheExact, Present
  <1>2. CASE Present(f)
    <2>1. \A e \in Cached(f) : e.content = disk[f].content
      BY <1>2 DEF Cached, CacheExact
    <2>2. c = disk[f].content
      BY <1>2, <2>1 DEF ReadSource
    <2>3. \A e \in lru' : e \in lru \/ e = [file |-> f, mtime |-> disk[f].mtime,
                                           size |-> SizeOf[disk[f].content], content |-> c]
      BY <1>2 DEF ReadSource
    <2>4. QED BY <2>2, <2>3 DEF CacheExact, Present, NoFutureTimes
  <1>3. QED BY <1>1, <1>2

\* A stamp taken now is exact for what the file holds now.
LEMMA StampedNow ==
  ASSUME TypeOK, NoFutureTimes, NEW f \in File, Present(f)
  PROVE  /\ StampOf(f).stat.mtime <= clock /\ StampOf(f).stat.ctime <= clock
         /\ StampOf(f).stat = Stat(f) /\ StampOf(f) # None
  BY StampOfType, StatType DEF NoFutureTimes

\* The same of all the files kept, while the disk does not move.
LEMMA FilesFrame ==
  ASSUME UNCHANGED <<disk, clock>>, NEW files, FilesExact(files) PROVE FilesExact(files)'
  BY DEF FilesExact, Exact, Stat, Present

\* And while the world moves.
LEMMA FilesWorld ==
  ASSUME TypeOK, FineTimes, NoFutureTimes, WorldStep,
         NEW files \in [File -> KeptFile], FilesExact(files)
  PROVE  FilesExact(files)'
  <1> SUFFICES ASSUME NEW f \in File, files[f] # None
               PROVE  Exact(f, files[f].stamp.stat, files[f].finding.of)'
    BY DEF FilesExact
  <1>1. files[f].stamp.stat \in Times
    BY DEF KeptFile, Stamped
  <1>2. Exact(f, files[f].stamp.stat, files[f].finding.of)
    BY DEF FilesExact
  <1>3. QED BY <1>1, <1>2, ExactWorld

\* A step of the world keeps every kept stamp exact.
LEMMA KeptExactWorld ==
  ASSUME TypeOK, Running, FineTimes, KeptExact, WorldStep PROVE KeptExact'
  <1>1. /\ clock \in Nat /\ clock' \in Nat /\ clock <= clock'
        /\ UNCHANGED <<lru, held, reuse, newFiles, at, atSig>>
    BY WorldFacts DEF scanner, object, visit, kept
  <1>2. \A f \in File : Left(f) \/ Deleted(f) \/ (Written(f) /\ clock' = clock + 1)
    BY WorldFacts DEF FineTimes, Written, Restored
  <1>3. NoFutureTimes'
    <2>1. \A f \in File : disk[f].mtime \in Nat /\ disk[f].ctime \in Nat
      BY SettingsAssumption DEF SettingsAssumption, TypeOK
    <2>2. QED BY <1>1, <1>2, <2>1 DEF KeptExact, NoFutureTimes, Left, Deleted, Written
  <1>4. CacheExact'
    <2> SUFFICES ASSUME NEW e \in lru
                 PROVE  /\ e.mtime <= clock'
                        /\ (Present(e.file)' /\ e.mtime = disk'[e.file].mtime /\ e.size = SizeOf[disk'[e.file].content]
                               => e.content = disk'[e.file].content)
      BY <1>1 DEF CacheExact
    <2>1. e.mtime \in Nat /\ e.file \in File /\ e.mtime <= clock
      BY SettingsAssumption DEF SettingsAssumption, TypeOK, KeptExact, CacheExact
    <2>2. CASE Left(e.file)
      BY <1>1, <2>1, <2>2 DEF KeptExact, CacheExact, Present, Left
    <2>3. CASE Written(e.file) /\ clock' = clock + 1
      BY <1>1, <2>1, <2>3 DEF Written
    <2>4. CASE Deleted(e.file)
      BY <1>1, <2>1, <2>4 DEF Deleted, Present
    <2>5. QED BY <1>2, <2>1, <2>2, <2>3, <2>4
  <1>5. FilesExact(held.files)' /\ FilesExact(reuse.files)' /\ FilesExact(newFiles)'
    <2>1. PICK h, r, n : h = held.files /\ r = reuse.files /\ n = newFiles
      OBVIOUS
    <2>2. h \in [File -> KeptFile] /\ r \in [File -> KeptFile] /\ n \in [File -> KeptFile]
      BY <2>1 DEF TypeOK, Reuse
    <2>3. FilesExact(h) /\ FilesExact(r) /\ FilesExact(n)
      BY <2>1 DEF KeptExact
    <2>4. FilesExact(h)' /\ FilesExact(r)' /\ FilesExact(n)'
      BY <2>2, <2>3, FilesWorld DEF KeptExact
    <2>5. h = held'.files /\ r = reuse'.files /\ n = newFiles'
      BY <1>1, <2>1
    <2>6. QED BY <2>4, <2>5
  <1>6. at' # None => atSig'.stat.mtime <= clock' /\ atSig'.stat.ctime <= clock'
    <2> SUFFICES ASSUME at # None PROVE atSig.stat.mtime <= clock' /\ atSig.stat.ctime <= clock'
      BY <1>1
    <2>1. atSig.stat.mtime <= clock /\ atSig.stat.ctime <= clock
      BY DEF KeptExact
    <2>2. atSig.stat.mtime \in Nat /\ atSig.stat.ctime \in Nat
      BY SettingsAssumption DEF SettingsAssumption, Running, Stamped, Times
    <2>3. QED BY <1>1, <2>1, <2>2
  <1>7. QED BY <1>3, <1>4, <1>5, <1>6 DEF KeptExact

\* Nothing kept is exact.
LEMMA EmptyExact == FilesExact(Empty.files) /\ FilesExact(NoFile)
  BY DEF FilesExact, Empty, NoFile

\* A step of the scan keeps every kept stamp exact.
LEMMA KeptExactScan ==
  ASSUME TypeOK, Running, KeptExact, Scan PROVE KeptExact'
  <1> USE DEF world, object, stamps, visit, kept
  <1>1. UNCHANGED <<disk, clock>>
    BY DEF Scan, StartScan, Discover, Begin, StampFile, ReuseLast, BuildGraph, ParseManifest, GraphModules,
           ParseModels, StartRules, VisitFile, RunRules, StartLint, Lint, Finish
  <1>2. \A files : FilesExact(files) => FilesExact(files)'
    BY <1>1 DEF FilesExact, Exact, Stat, Present
  <1>3. NoFutureTimes'
    BY <1>1 DEF KeptExact, NoFutureTimes
  <1>4. UNCHANGED lru => CacheExact'
    BY <1>1 DEF KeptExact, CacheExact, Present
  <1>6. FilesExact(held'.files) /\ FilesExact(reuse'.files) /\ FilesExact(newFiles')
        => FilesExact(held.files)' /\ FilesExact(reuse.files)' /\ FilesExact(newFiles)'
    <2>1. PICK h, r, n : h = held'.files /\ r = reuse'.files /\ n = newFiles'
      OBVIOUS
    <2>2. QED BY <1>2, <2>1
  <1> DEFINE Files == FilesExact(held'.files) /\ FilesExact(reuse'.files) /\ FilesExact(newFiles')
             Pending == at' # None => atSig'.stat.mtime <= clock' /\ atSig'.stat.ctime <= clock'
  <1>7. Files /\ Pending /\ CacheExact' => KeptExact'
    BY <1>3, <1>6 DEF KeptExact
  <1>8. UNCHANGED <<object, newFiles>> => Files
    BY DEF KeptExact
  <1>9. UNCHANGED visit => Pending
    BY <1>1 DEF KeptExact
  <1>10. ASSUME NEW r, FilesExact(r.files), NEW res, Return(r, res) PROVE Files
    BY <1>10, EmptyExact DEF Return, Entry, KeptExact, Empty
  <1> HIDE DEF Files, Pending
  <1>11. CASE StartScan
    <2>1. Files
      BY <1>11 DEF StartScan, Files, KeptExact
    <2>2. QED BY <1>4, <1>7, <1>9, <1>11, <2>1 DEF StartScan
  <1>12. ASSUME NEW f \in File, Discover(f) \/ ParseManifest(f) \/ ParseModels(f) PROVE KeptExact'
    <2>1. \E c : ReadSource(f, c)
      BY <1>12 DEF Discover, ParseManifest, ParseModels
    <2>2. CacheExact'
      BY <1>1, <2>1, CacheRead DEF KeptExact
    <2>3. UNCHANGED <<object, newFiles, visit>>
      BY <1>12 DEF Discover, ParseManifest, ParseModels
    <2>4. QED BY <1>7, <1>8, <1>9, <2>2, <2>3
  <1>13. CASE Begin
    <2>1. UNCHANGED <<lru, visit>>
      BY <1>13 DEF Begin
    <2>2. ASSUME Return(held, Blank) PROVE Files
      BY <1>10, <2>2 DEF KeptExact
    <2>3. ASSUME Mutate(Begun(held, cfg)), UNCHANGED newFiles PROVE Files
      <3>1. FilesExact(Begun(held, cfg).files)
        BY EmptyExact DEF Begun, KeptExact, Empty
      <3>2. QED BY <2>3, <3>1 DEF Mutate, Entry, KeptExact, Files
    <2>4. Files
      BY <1>13, <2>2, <2>3 DEF Begin
    <2>5. QED BY <1>4, <1>7, <1>9, <2>1, <2>4
  <1>14. ASSUME NEW f \in File, StampFile(f) PROVE KeptExact'
    BY <1>4, <1>7, <1>8, <1>9, <1>14 DEF StampFile
  <1>15. CASE ReuseLast
    <2>1. [held EXCEPT !.racy = racy].files = held.files
      BY DEF TypeOK, Reuse
    <2>2. Files
      BY <1>10, <1>15, <2>1 DEF ReuseLast, KeptExact
    <2>3. QED BY <1>4, <1>7, <1>9, <1>15, <2>2 DEF ReuseLast
  <1>16. CASE BuildGraph \/ StartRules
    BY <1>4, <1>7, <1>8, <1>9, <1>16 DEF BuildGraph, StartRules
  <1>17. CASE GraphModules
    <2>1. UNCHANGED <<lru, visit>> /\ (Return(held, Blank) \/ UNCHANGED <<object, newFiles>>)
      BY <1>17 DEF GraphModules
    <2>2. Files
      BY <1>8, <1>10, <2>1 DEF KeptExact
    <2>3. QED BY <1>4, <1>7, <1>9, <2>1, <2>2
  <1>18. ASSUME NEW f \in File, VisitFile(f) PROVE KeptExact'
    <2>1. FilesExact(newFiles')
      <3>1. newFiles' = newFiles \/ newFiles' = [newFiles EXCEPT ![f] = held.files[f]]
        BY <1>18 DEF VisitFile
      <3>2. QED BY <3>1 DEF KeptExact, FilesExact, TypeOK
    <2>2. Files
      BY <1>18, <2>1 DEF VisitFile, KeptExact, Files
    <2>3. Pending
      <3>1. CASE UNCHANGED visit
        BY <1>9, <3>1
      <3>2. CASE Present(f) /\ atSig' = StampOf(f)
        BY <1>1, <3>2, StampedNow DEF KeptExact, Pending
      <3>3. QED BY <1>18, <3>1, <3>2 DEF VisitFile
    <2>4. QED BY <1>4, <1>7, <1>18, <2>2, <2>3 DEF VisitFile
  <1>19. ASSUME NEW f \in File, RunRules(f) PROVE KeptExact'
    <2>1. PICK c \in Content \cup {None}, keep \in BOOLEAN :
            /\ ReadSource(f, c)
            /\ newFiles' = IF keep THEN [newFiles EXCEPT ![f] = [stamp |-> atSig, finding |-> Finding(c)]]
                           ELSE newFiles
      BY <1>19 DEF RunRules
    <2>2. CacheExact' /\ c = disk[f].content
      BY <1>1, <2>1, CacheRead DEF KeptExact
    <2>3. Exact(f, atSig.stat, c)
      BY <1>19, <2>2, NoneApart DEF RunRules, KeptExact, Exact
    <2>4. FilesExact(newFiles')
      BY <2>1, <2>3 DEF KeptExact, FilesExact, TypeOK, Finding
    <2>5. Files
      BY <1>19, <2>4 DEF RunRules, KeptExact, Files
    <2>6. Pending
      BY <1>19 DEF RunRules, Pending
    <2>7. QED BY <1>7, <2>2, <2>5, <2>6
  <1>20. CASE StartLint
    <2>1. CacheExact'
      BY <1>20 DEF StartLint, ClearSources, CacheExact
    <2>2. QED BY <1>7, <1>8, <1>9, <1>20, <2>1 DEF StartLint
  <1>21. ASSUME NEW a \in Addon, Lint(a) PROVE KeptExact'
    BY <1>4, <1>7, <1>8, <1>9, <1>21 DEF Lint
  <1>22. CASE Finish
    <2> DEFINE final == [got EXCEPT !.env = cfg, !.rest = Contents(FilesOf(Modules) \ Manifest)]
               entry == [env |-> held.env, last |-> [key |-> sigs, result |-> final],
                         files |-> newFiles, lint |-> newLint, racy |-> racy]
    <2>1. Return(entry, final) /\ UNCHANGED <<lru, visit>>
      BY <1>22 DEF Finish
    <2>2. FilesExact(entry.files)
      BY DEF KeptExact
    <2>3. Files
      <3> HIDE DEF entry, final
      <3> QED BY <1>10, <2>1, <2>2
    <2>4. QED BY <1>4, <1>7, <1>9, <2>1, <2>3
  <1>23. QED
    BY <1>11, <1>12, <1>13, <1>14, <1>15, <1>16, <1>17, <1>18, <1>19, <1>20, <1>21, <1>22 DEF Scan

\* Every step keeps the invariant of fine file times.
LEMMA FineStep == TypeInv /\ FineInv /\ [Next]_vars => FineInv'
  <1> SUFFICES ASSUME TypeOK, Running, FineTimes, KeptExact, [Next]_vars PROVE KeptExact'
    BY SettingConstant DEF TypeInv, FineInv, FineTimes
  <1>1. CASE WorldStep
    BY <1>1, KeptExactWorld
  <1>2. CASE UNCHANGED <<disk, clock, lru, held, newFiles, at, atSig>> /\ reuse' \in {reuse, Empty}
    <2>1. NoFutureTimes' /\ CacheExact'
      BY <1>2 DEF KeptExact, NoFutureTimes, CacheExact, Present
    <2>2. PICK h, r, n : h = held.files /\ r = reuse'.files /\ n = newFiles
      OBVIOUS
    <2>3. FilesExact(h) /\ FilesExact(r) /\ FilesExact(n)
      BY <1>2, <2>2, EmptyExact DEF KeptExact
    <2>4. FilesExact(h)' /\ FilesExact(r)' /\ FilesExact(n)'
      BY <1>2, <2>3, FilesFrame
    <2>5. QED BY <1>2, <2>1, <2>2, <2>4 DEF KeptExact
  <1>3. CASE Configure \/ Forget \/ UNCHANGED vars
    BY <1>2, <1>3 DEF Configure, Forget, vars, world, object, visit, kept
  <1>4. QED BY <1>1, <1>3, KeptExactScan DEF Next, WorldStep

\* Where times tell writes apart, what is kept of a file under its present stamp is what its rules
\* make of the file as it is, even while it is written between the stamp and the run.
THEOREM KeptStaysCurrent == Spec => []KeptIsCurrent
  <1>1. Init => FineInv
    <2> SUFFICES ASSUME Init PROVE KeptExact
      BY DEF FineInv
    <2>1. TypeOK
      BY InitType DEF TypeInv
    <2>2. QED BY <2>1, EmptyExact DEF Init, KeptExact, NoFutureTimes, CacheExact
  <1>2. TypeInv /\ FineInv /\ [Next]_vars => FineInv'
    BY FineStep
  <1>3. ASSUME TypeInv, FineInv PROVE KeptIsCurrent
    <2> SUFFICES ASSUME KeptExact, NEW f \in File PROVE Vouches(f, reuse.files[f]) /\ Vouches(f, newFiles[f])
      BY <1>3 DEF KeptIsCurrent, FineInv
    <2>1. QED BY DEF KeptExact, FilesExact, Exact, Vouches
  <1>4. QED BY <1>1, <1>2, <1>3, TypeInvariance, PTL DEF Spec

-----------------------------------------------------------------------------
(***************************************************************************)
(* A scan that reuses reports what one from scratch would.                 *)
(*                                                                         *)
(* Everything that is kept is tied to stamps file by file. A reading x of  *)
(* a file, made in a scan that stamped it with st, "agrees" with st: when  *)
(* a later scan makes the same stamp, the file holds x again. The racy     *)
(* hash h of that scan takes part in making the stamp.                     *)
(***************************************************************************)

\* Files that are written while a scan runs have a write time of their own for every write and
\* are not deleted; where nothing is written meanwhile, the manifests have.
Orderly ==
  \A s \in Settings :
    IF s.overlap THEN s.coarse \cup s.restorable \cup s.fleeting = {}
    ELSE (s.coarse \cup s.restorable) \cap Manifest = {}

\* A stat may stand for several contents of the file.
Loose(f) == f \in setting.coarse \cup setting.restorable

\* The hash that the scan recorded beside the stamp is that of the reading.
Recorded(st, x, h) == h # None /\ h.stat = st.stat /\ h.hash = x /\ st.rewritten = None

Vouched(f, st, x, h) ==
  \/ Exact(f, st.stat, x) /\ (Loose(f) => st.stat.mtime < clock)
  \/ Loose(f) /\ Recorded(st, x, h)
  \/ Loose(f) /\ st.rewritten = x /\ x # None

Agrees(f, st, x, h) ==
  IF st = None THEN x = None \/ (Present(f) /\ f \notin setting.fleeting)
  ELSE Vouched(f, st, x, h)

ModulesOf(graph) == {AddonOf[m] : m \in {n \in Manifest : graph[n] # None}}

\* What one stage read of the files it has done, against the stamps and racy hashes of its scan.
Section(part, done, key, h) ==
  \A f \in File : IF f \in done THEN Agrees(f, key[f], part[f], h[f]) ELSE part[f] = None

InputOf(r) == IF r = None THEN None ELSE r.of

RuleSection(rules, done, e, key, h) ==
  \A f \in File :
    /\ IF f \in done THEN Agrees(f, key[f], InputOf(rules[f]), h[f]) ELSE rules[f] = None
    /\ rules[f] # None => rules[f].env = e /\ rules[f].of # None

KeyOf(a, modules, key) == [f \in File |-> IF f \in FilesOf(Closure[a] \cap modules) THEN key[f] ELSE None]

\* What a linter saw from an addon: files of whole addons in its closure.
RunAgrees(a, run, e, key, h) ==
  /\ run.env = e
  /\ \A f \in File :
       /\ Agrees(f, key[f], run.of[f], h[f])
       /\ run.of[f] # None => /\ AddonOf[f] \in Closure[a]
                              /\ \E m \in Manifest : AddonOf[m] = AddonOf[f] /\ run.of[m] # None

LintSection(lint, done, modules, e, key, h) ==
  \A a \in Addon :
    IF a \in done THEN lint[a] = Failed \/ (lint[a] # None /\ RunAgrees(a, lint[a], e, KeyOf(a, modules, key), h))
    ELSE lint[a] = None

ReportTrue(res, e, key, h) ==
  LET modules == ModulesOf(res.graph) IN
  /\ res.env = e
  /\ Section(res.graph, Manifest \cup FilesOf(modules), key, h)
  /\ RuleSection(res.rules, FilesOf(modules) \ Manifest, e, key, h)
  /\ Section(res.rest, FilesOf(modules) \ Manifest, key, h)
  /\ LintSection(res.lint, modules, modules, e, key, h)

FilesTrue(files, e, h) ==
  \A f \in File : files[f] # None =>
    /\ Vouched(f, files[f].stamp, files[f].finding.of, h[f])
    /\ files[f].finding.env = e /\ files[f].finding.of # None

RunsTrue(lint, e, h) ==
  \A a \in Addon : lint[a] # None => RunAgrees(a, lint[a].finding, e, lint[a].key, h)

\* A loose file has one stamp in everything that one scan kept.
OneStamp(files, lint, key) ==
  \A f \in File : Loose(f) =>
    /\ files[f] # None => files[f].stamp = key[f]
    /\ \A a \in Addon : lint[a] # None => lint[a].key[f] \in {None, key[f]}

KeptTrue(r) ==
  /\ FilesTrue(r.files, r.env, r.racy)
  /\ RunsTrue(r.lint, r.env, r.racy)
  /\ r.last # None => /\ ReportTrue(r.last.result, r.env, r.last.key, r.racy)
                      /\ OneStamp(r.files, r.lint, r.last.key)

-----------------------------------------------------------------------------
\* The invariant of a running scan.

\* Nothing was written since the scan began.
Undisturbed == ~setting.overlap \/ quiet

Stamping == phase \in {"stamp", "manifests", "models", "rules", "lint"}

FoundTrue ==
  /\ phase = "idle" => found = {}
  /\ phase = "discover" /\ Undisturbed => found = {AddonOf[m] : m \in {n \in Manifest \ todo : Present(n)}}
  /\ Stamping => found # {} /\ (Undisturbed => found = Live)

\* What is left to do.
TodoTrue ==
  /\ phase \in {"discover", "manifests"} => todo \subseteq Manifest
  /\ phase = "stamp" => todo \subseteq FilesOf(found)
  /\ phase \in {"models", "rules"} => todo \subseteq FilesOf(Modules) \ Manifest
  /\ phase = "lint" => todo \subseteq Modules

ConfigTrue ==
  /\ phase # "idle" /\ quiet => cfg = env
  /\ Stamping => held.env = cfg /\ now <= clock

\* The racy hash of the running scan.
FreshRacy(f) ==
  racy[f] = IF Present(f) /\ now - disk[f].mtime < Window THEN [stat |-> Stat(f), hash |-> disk[f].content]
            ELSE None

StampedFiles == IF phase = "stamp" THEN FilesOf(found) \ todo ELSE IF Stamping THEN FilesOf(found) ELSE {}

StampsTrue ==
  /\ ~Stamping => \A f \in File : sigs[f] = None /\ racy[f] = None
  /\ \A f \in File : sigs[f] # None => sigs[f].stat.mtime <= clock /\ sigs[f].stat.ctime <= clock
  /\ Undisturbed => \A f \in File : IF f \in StampedFiles THEN sigs[f] = StampOf(f) /\ FreshRacy(f)
                                   ELSE sigs[f] = None /\ racy[f] = None

GraphRead ==
  IF phase = "manifests" THEN Manifest \ todo
  ELSE IF phase = "models" THEN (Manifest \cup FilesOf(Modules)) \ todo
  ELSE IF phase \in {"rules", "lint"} THEN Manifest \cup FilesOf(Modules) ELSE {}

GraphTrue ==
  /\ Section(got.graph, GraphRead, sigs, racy)
  /\ \A f \in File : got.graph[f] # None => Present(f)

AtTrue ==
  at # None =>
    /\ phase = "rules" /\ at \in (FilesOf(Modules) \ Manifest) \ todo /\ Present(at)
    /\ atSig.stat.mtime <= clock /\ atSig.stat.ctime <= clock
    /\ Loose(at) => atSig = sigs[at]

RulesRead ==
  IF phase = "rules" THEN (FilesOf(Modules) \ Manifest) \ (todo \cup {at})
  ELSE IF phase = "lint" THEN FilesOf(Modules) \ Manifest ELSE {}

RulesTrue ==
  /\ RuleSection(got.rules, RulesRead, cfg, sigs, racy)
  /\ FilesTrue(newFiles, cfg, racy)
  /\ \A f \in File : newFiles[f] # None => f \in RulesRead /\ (Loose(f) => newFiles[f].stamp = sigs[f])

LintRead == IF phase = "lint" THEN Modules \ todo ELSE {}

LintTrue ==
  /\ LintSection(got.lint, LintRead, Modules, cfg, sigs, racy)
  /\ RunsTrue(newLint, cfg, racy)
  /\ \A a \in Addon : newLint[a] # None => phase = "lint" /\ newLint[a].key = LintKey(a)

\* The source cache holds the contents of loose files only while a scan may read it again.
SourcesTrue ==
  /\ NoFutureTimes /\ CacheExact
  /\ \A e \in lru : Loose(e.file) => phase \in {"models", "rules"}

ScanTrue ==
  /\ FoundTrue /\ TodoTrue /\ ConfigTrue /\ StampsTrue /\ GraphTrue /\ AtTrue /\ RulesTrue /\ LintTrue

ReuseInv == SourcesTrue /\ KeptTrue(reuse) /\ KeptTrue(held) /\ ScanTrue /\ ReusedAsFromScratch

-----------------------------------------------------------------------------
(* Readings and stamps *)

\* What an orderly setting excludes.
LEMMA OrderlySetting ==
  ASSUME Orderly, TypeOK
  PROVE  /\ setting.overlap => \A f : ~Loose(f) /\ f \notin setting.fleeting
         /\ \A f : Loose(f) => ~setting.overlap /\ f \notin Manifest
         /\ setting.overlap \in BOOLEAN
  BY SettingsAssumption DEF Orderly, TypeOK, Loose, SettingsAssumption

\* Where a stat stands for one content, the racy hash does not matter.
LEMMA AnyHash ==
  ASSUME NEW f, ~Loose(f), NEW st, NEW x, NEW h, NEW g, Agrees(f, st, x, h) PROVE Agrees(f, st, x, g)
  BY DEF Agrees, Vouched

\* What agrees with a stamp goes on doing so, whatever other programs write.
LEMMA AgreesWorld ==
  ASSUME TypeOK, WorldStep, NEW f \in File, NEW st \in Stamp, NEW x, NEW h, Agrees(f, st, x, h)
  PROVE  Agrees(f, st, x, h)'
  <1>1. clock \in Nat /\ clock' \in Nat /\ clock <= clock' /\ setting' = setting
    BY WorldFacts DEF scanner
  <1>2. Left(f) \/ Deleted(f) \/ Written(f) \/ Restored(f)
    BY WorldFacts
  <1>3. CASE st = None
    <2>1. x = None \/ (Present(f) /\ f \notin setting.fleeting)
      BY <1>3 DEF Agrees
    <2>2. Present(f) /\ f \notin setting.fleeting => Present(f)'
      BY <1>2, NoneApart DEF Present, Left, Deleted, Written, Restored
    <2>3. QED BY <1>1, <1>3, <2>1, <2>2 DEF Agrees
  <1>4. CASE st # None
    <2>1. st.stat \in Times /\ st.stat.mtime \in Nat /\ st.stat.ctime \in Nat
      BY <1>4, SettingsAssumption DEF SettingsAssumption, Stamp, Stamped, Times
    <2>2. CASE Exact(f, st.stat, x) /\ (Loose(f) => st.stat.mtime < clock)
      <3>1. ASSUME Stat(f)' = st.stat PROVE disk'[f].content = x
        <4>1. Stat(f)' # None => Stat(f)'.mtime = disk'[f].mtime /\ Stat(f)'.ctime = disk'[f].ctime
          BY DEF Stat, Present
        <4>2. disk'[f].mtime = st.stat.mtime /\ disk'[f].ctime = st.stat.ctime /\ ~Deleted(f)
          <5>1. Deleted(f) => Stat(f)' = None
            BY DEF Deleted, Stat, Present
          <5>2. QED BY <2>1, <3>1, <4>1, <5>1, NoneApart
        <4>3. ~Written(f)
          BY <1>1, <2>1, <2>2, <4>2 DEF Written, Exact, Loose
        <4>4. ~Restored(f)
          BY <1>1, <2>1, <2>2, <4>2 DEF Restored, Exact
        <4>5. QED BY <1>2, <2>2, <3>1, <4>2, <4>3, <4>4 DEF Left, Exact, Stat, Present
      <3>2. Exact(f, st.stat, x)' /\ (Loose(f)' => st.stat.mtime < clock')
        BY <1>1, <2>1, <2>2, <3>1 DEF Exact, Loose
      <3>3. QED BY <1>4, <3>2 DEF Agrees, Vouched
    <2>3. CASE Loose(f) /\ (Recorded(st, x, h) \/ (st.rewritten = x /\ x # None))
      BY <1>1, <1>4, <2>3 DEF Agrees, Vouched, Recorded, Loose
    <2>4. QED BY <1>4, <2>2, <2>3 DEF Agrees, Vouched
  <1>5. QED BY <1>3, <1>4

\* A stamp and what was read under it agree as long as the disk does not move.
LEMMA AgreesFrame ==
  ASSUME UNCHANGED <<disk, clock, setting>>, NEW f, NEW st, NEW x, NEW h, Agrees(f, st, x, h)
  PROVE  Agrees(f, st, x, h)'
  BY DEF Agrees, Vouched, Recorded, Exact, Stat, Present, Loose

\* A stamp that a scan makes now stands for what the file holds now.
LEMMA StampStandsFor ==
  ASSUME TypeOK, NEW f \in File, Present(f), NEW x, NEW h, Agrees(f, StampOf(f), x, h),
         h # None /\ h.stat = Stat(f) /\ StampOf(f).rewritten = None => h.hash = disk[f].content
  PROVE  x = disk[f].content
  <1>1. StampOf(f) # None /\ StampOf(f).stat = Stat(f) /\ StampOf(f).rewritten \in {None, disk[f].content}
    BY StampOfType
  <1>2. QED BY <1>1 DEF Agrees, Vouched, Exact, Recorded

\* It does with the racy hashes it was made with,
LEMMA StampFromHeld ==
  ASSUME TypeOK, NEW f \in File, Present(f), NEW x, Agrees(f, StampOf(f), x, held.racy[f])
  PROVE  x = disk[f].content
  <1>1. held.racy[f] # None /\ held.racy[f].stat = Stat(f) /\ StampOf(f).rewritten = None
        => held.racy[f].hash = disk[f].content
    BY StatType, NoneApart DEF StampOf
  <1>2. QED BY <1>1, StampStandsFor

\* and with those it leaves behind.
LEMMA StampFromFresh ==
  ASSUME TypeOK, NEW f \in File, Present(f), FreshRacy(f), NEW x, Agrees(f, StampOf(f), x, racy[f])
  PROVE  x = disk[f].content
  <1>1. racy[f] # None => racy[f].hash = disk[f].content
    BY DEF FreshRacy
  <1>2. QED BY <1>1, StampStandsFor

\* What a file holds now agrees with its stamp.
LEMMA NowAgrees ==
  ASSUME TypeOK, NEW f \in File, NEW st \in Stamped, st.stat.mtime <= clock, st.stat.ctime <= clock,
         Loose(f) => st = StampOf(f) /\ Present(f) /\ FreshRacy(f) /\ now <= clock
  PROVE  Agrees(f, st, disk[f].content, racy[f]) /\ Vouched(f, st, disk[f].content, racy[f])
  <1>1. st # None
    BY NoneApart
  <1>2. CASE ~Loose(f)
    BY <1>1, <1>2 DEF Agrees, Vouched, Exact
  <1>3. CASE Loose(f)
    <2>1. st.stat = Stat(f) /\ st.rewritten \in {None, disk[f].content} /\ disk[f].content # None
          /\ Stat(f).mtime = disk[f].mtime
      BY <1>3, StampOfType, StatType DEF Present
    <2>2. CASE st.rewritten # None
      BY <1>1, <1>3, <2>1, <2>2 DEF Agrees, Vouched
    <2>3. CASE st.rewritten = None /\ now - disk[f].mtime < Window
      <3>1. racy[f] = [stat |-> Stat(f), hash |-> disk[f].content]
        BY <1>3, <2>3 DEF FreshRacy
      <3>2. [stat |-> Stat(f), hash |-> disk[f].content] \in Hashed
        BY <1>3, StatType DEF Hashed
      <3>3. Recorded(st, disk[f].content, racy[f])
        BY <2>1, <2>3, <3>1, <3>2, NoneApart DEF Recorded
      <3>4. QED BY <1>1, <1>3, <3>3 DEF Agrees, Vouched
    <2>4. CASE ~(now - disk[f].mtime < Window)
      <3>1. now \in Nat /\ clock \in Nat /\ disk[f].mtime \in Nat /\ Window \in Nat \ {0}
        BY SettingsAssumption DEF SettingsAssumption, TypeOK
      <3>2. disk[f].mtime < clock
        BY <1>3, <2>4, <3>1
      <3>3. QED BY <1>1, <2>1, <3>2 DEF Agrees, Vouched, Exact
    <2>5. QED BY <2>2, <2>3, <2>4
  <1>4. QED BY <1>2, <1>3

\* The addons of a scan that nothing disturbed are those of the folder.
LEMMA ModulesFound ==
  ASSUME FoundTrue, GraphTrue, Stamping, Undisturbed
  PROVE  found = Live /\ Modules \subseteq found
  <1>1. found = Live
    BY DEF FoundTrue
  <1>2. QED BY <1>1, ProjectAssumption DEF ProjectAssumption, Modules, GraphTrue, Live, Present

\* A present manifest makes its own addon live.
LEMMA AddonLives == \A m \in Manifest : Present(m) => m \in FilesOf(Live)
  BY ProjectAssumption DEF ProjectAssumption, FilesOf, Live

\* What a stage reads now agrees with the stamp the scan has of the file.
LEMMA ReadAgrees ==
  ASSUME Orderly, TypeOK, FoundTrue, GraphTrue, StampsTrue, ConfigTrue, Stamping, phase # "stamp",
         NEW f \in File, f \in Manifest \cup FilesOf(Modules)
  PROVE  Agrees(f, sigs[f], disk[f].content, racy[f])
  <1>1. sigs[f] \in Stamp /\ (sigs[f] # None => sigs[f] \in Stamped)
    BY DEF TypeOK, Stamp
  <1>2. CASE setting.overlap
    <2>1. ~Loose(f) /\ f \notin setting.fleeting
      BY <1>2, OrderlySetting
    <2>2. CASE sigs[f] = None
      BY <2>1, <2>2 DEF Agrees, Present
    <2>3. CASE sigs[f] # None
      BY <1>1, <2>1, <2>3, NowAgrees DEF StampsTrue
    <2>4. QED BY <2>2, <2>3
  <1>3. CASE ~setting.overlap
    <2>1. Undisturbed /\ found = Live /\ Modules \subseteq found
      BY <1>3, ModulesFound DEF Undisturbed
    <2>2. StampedFiles = FilesOf(found)
      BY DEF StampedFiles
    <2>3. CASE f \in FilesOf(found)
      <3>1. sigs[f] = StampOf(f) /\ FreshRacy(f) /\ now <= clock
        BY <2>1, <2>2, <2>3 DEF StampsTrue, ConfigTrue
      <3>2. CASE Present(f)
        <4>1. sigs[f] # None
          BY <3>1, <3>2, StampOfType
        <4>2. sigs[f].stat.mtime <= clock /\ sigs[f].stat.ctime <= clock
          BY <4>1 DEF StampsTrue
        <4>3. QED BY <1>1, <3>1, <3>2, <4>1, <4>2, NowAgrees
      <3>3. CASE ~Present(f)
        BY <3>1, <3>3 DEF StampOf, Agrees, Present
      <3>4. QED BY <3>2, <3>3
    <2>4. CASE f \notin FilesOf(found)
      <3>1. f \in Manifest /\ ~Present(f)
        BY <2>1, <2>4, AddonLives DEF FilesOf
      <3>2. sigs[f] = None
        BY <2>1, <2>2, <2>4 DEF StampsTrue
      <3>3. QED BY <3>1, <3>2 DEF Agrees, Present
    <2>5. QED BY <2>3, <2>4
  <1>4. QED BY <1>2, <1>3, OrderlySetting

\* What agreed with a stamp in an earlier scan agrees with it in this one, which has made it again.
LEMMA Rebase ==
  ASSUME Orderly, TypeOK, FoundTrue, StampsTrue, ConfigTrue, Stamping, NEW f \in File,
         NEW st, NEW x, Agrees(f, st, x, held.racy[f]), Loose(f) => st \in {None, sigs[f]}
  PROVE  Agrees(f, st, x, racy[f])
  <1>1. CASE ~Loose(f)
    BY <1>1, AnyHash
  <1>2. CASE st = None
    BY <1>2 DEF Agrees
  <1>3. CASE Loose(f) /\ st # None
    <2>1. st = sigs[f] /\ st \in Stamped /\ Undisturbed
      BY <1>3, OrderlySetting DEF TypeOK, Stamp, Undisturbed
    <2>2. sigs[f] = StampOf(f) /\ FreshRacy(f) /\ now <= clock
      BY <1>3, <2>1 DEF StampsTrue, ConfigTrue
    <2>3. Present(f) /\ st = StampOf(f)
      BY <1>3, <2>1, <2>2, StampOfType
    <2>4. x = disk[f].content
      BY <2>3, StampFromHeld
    <2>5. st.stat.mtime <= clock /\ st.stat.ctime <= clock
      BY <1>3, <2>1 DEF StampsTrue
    <2>6. QED BY <2>1, <2>2, <2>3, <2>4, <2>5, NowAgrees
  <1>4. QED BY <1>1, <1>2, <1>3

\* A report whose stamps are the present ones is that of a scan from scratch.
LEMMA TrueReport ==
  ASSUME TypeOK, NEW res \in Report, NEW key \in [File -> Stamp], NEW h, ReportTrue(res, env, key, h),
         found = Live, found # {},
         \A f \in File : f \in FilesOf(Live) /\ Present(f)
            => \A x : Agrees(f, key[f], x, h[f]) => x = disk[f].content,
         \A f \in File : ~(f \in FilesOf(Live) /\ Present(f)) => key[f] = None
  PROVE  AsFromScratch(res)
  <1> DEFINE modules == ModulesOf(res.graph)
             python == FilesOf(Live) \ Manifest
  <1>1. /\ res.env = env
        /\ Section(res.graph, Manifest \cup FilesOf(modules), key, h)
        /\ RuleSection(res.rules, FilesOf(modules) \ Manifest, env, key, h)
        /\ Section(res.rest, FilesOf(modules) \ Manifest, key, h)
        /\ LintSection(res.lint, modules, modules, env, key, h)
    BY DEF ReportTrue
  <1>2. ASSUME NEW f \in FilesOf(Live), NEW x, Agrees(f, key[f], x, h[f]) PROVE x = disk[f].content
    <2>1. CASE Present(f)
      BY <1>2, <2>1 DEF FilesOf
    <2>2. CASE ~Present(f)
      BY <1>2, <2>2 DEF Agrees, Present, FilesOf
    <2>3. QED BY <2>1, <2>2
  <1>3. \A m \in Manifest : res.graph[m] = disk[m].content
    <2> SUFFICES ASSUME NEW m \in Manifest PROVE res.graph[m] = disk[m].content
      OBVIOUS
    <2>1. m \in File /\ Agrees(m, key[m], res.graph[m], h[m])
      BY <1>1, ProjectAssumption DEF Section, ProjectAssumption
    <2>2. CASE m \in FilesOf(Live)
      BY <1>2, <2>1, <2>2
    <2>3. CASE m \notin FilesOf(Live)
      BY <2>1, <2>3, AddonLives DEF Agrees, Present
    <2>4. QED BY <2>2, <2>3
  <1>4. modules = Live
    BY <1>3 DEF ModulesOf, Live, Present
  <1> HIDE DEF modules
  <1>5. Live # {} /\ Scratch = [env   |-> env,
                               graph |-> Contents(FilesOf(Live)),
                               rules |-> [f \in File |-> IF f \in python /\ Present(f)
                                                        THEN [env |-> env, of |-> disk[f].content] ELSE None],
                               lint  |-> [a \in Addon |-> IF a \in Live
                                            THEN [env |-> env, of |-> Contents(FilesOf(Closure[a] \cap Live))]
                                            ELSE None],
                               rest  |-> Contents(python)]
    BY DEF Scratch
  <1>6. /\ res.graph \in Inputs /\ res.rest \in Inputs /\ res.rules \in [File -> Of(Text) \cup {None}]
        /\ res.lint \in [Addon -> Of(Inputs) \cup {None, Failed}]
    BY DEF Report
  <1>7. res.graph = Contents(FilesOf(Live))
    <2> SUFFICES ASSUME NEW f \in File
                 PROVE  res.graph[f] = IF f \in FilesOf(Live) THEN disk[f].content ELSE None
      BY <1>6 DEF Inputs, Contents
    <2>1. CASE f \in FilesOf(Live)
      BY <1>1, <1>2, <1>4, <2>1 DEF Section
    <2>2. CASE f \notin FilesOf(Live) /\ f \in Manifest
      BY <1>3, <2>2, AddonLives DEF Present
    <2>3. CASE f \notin FilesOf(Live) /\ f \notin Manifest
      BY <1>1, <1>4, <2>3 DEF Section
    <2>4. QED BY <2>1, <2>2, <2>3
  <1>8. res.rest = Contents(python)
    <2> SUFFICES ASSUME NEW f \in File
                 PROVE  res.rest[f] = IF f \in python THEN disk[f].content ELSE None
      BY <1>6 DEF Inputs, Contents
    <2>1. QED BY <1>1, <1>2, <1>4 DEF Section
  <1>9. res.rules = Scratch.rules
    <2> SUFFICES ASSUME NEW f \in File
                 PROVE  res.rules[f] = IF f \in python /\ Present(f)
                                       THEN [env |-> env, of |-> disk[f].content] ELSE None
      BY <1>5, <1>6
    <2>1. /\ IF f \in python THEN Agrees(f, key[f], InputOf(res.rules[f]), h[f]) ELSE res.rules[f] = None
          /\ res.rules[f] # None => res.rules[f].env = env /\ res.rules[f].of # None
      BY <1>1, <1>4 DEF RuleSection
    <2>2. CASE f \in python
      <3>1. InputOf(res.rules[f]) = disk[f].content
        BY <1>2, <2>1, <2>2
      <3>2. res.rules[f] \in Of(Text) \cup {None}
        BY <1>6
      <3>3. CASE res.rules[f] = None
        BY <2>2, <3>1, <3>3 DEF InputOf, Present
      <3>4. CASE res.rules[f] # None
        <4>1. res.rules[f] = [env |-> env, of |-> disk[f].content] /\ disk[f].content # None
          BY <2>1, <3>1, <3>2, <3>4 DEF InputOf, Of
        <4>2. QED BY <2>2, <4>1 DEF Present
      <3>5. QED BY <3>3, <3>4
    <2>3. QED BY <2>1, <2>2
  <1>10. ASSUME NEW a \in Addon PROVE res.lint[a] \in {Failed, Scratch.lint[a]}
    <2>1. CASE a \notin Live
      BY <1>1, <1>4, <1>5, <2>1 DEF LintSection
    <2>2. CASE a \in Live /\ res.lint[a] # Failed
      <3> DEFINE run == res.lint[a]
                 seen == FilesOf(Closure[a] \cap Live)
      <3>1. run # None /\ RunAgrees(a, run, env, KeyOf(a, Live, key), h)
        BY <1>1, <1>4, <2>2 DEF LintSection
      <3>2. run.env = env
        BY <3>1 DEF RunAgrees
      <3>3. ASSUME NEW f \in File PROVE run.of[f] = IF f \in seen THEN disk[f].content ELSE None
        <4>1. /\ Agrees(f, KeyOf(a, Live, key)[f], run.of[f], h[f])
              /\ run.of[f] # None => /\ AddonOf[f] \in Closure[a]
                                     /\ \E m \in Manifest : AddonOf[m] = AddonOf[f] /\ run.of[m] # None
          BY <3>1 DEF RunAgrees
        <4>2. CASE f \in seen
          <5>1. KeyOf(a, Live, key)[f] = key[f] /\ f \in FilesOf(Live)
            BY <4>2 DEF KeyOf, FilesOf
          <5>2. QED BY <1>2, <4>1, <4>2, <5>1
        <4>3. CASE f \notin seen
          <5> SUFFICES ASSUME run.of[f] # None PROVE FALSE
            BY <4>3
          <5>1. PICK m \in Manifest : AddonOf[m] = AddonOf[f] /\ run.of[m] # None
            BY <4>1
          <5>2. AddonOf[m] \notin Live /\ m \in File
            BY <4>1, <4>3, <5>1, ProjectAssumption DEF ProjectAssumption, FilesOf
          <5>3. ~Present(m)
            BY <5>2 DEF Live
          <5>4. KeyOf(a, Live, key)[m] = None /\ Agrees(m, KeyOf(a, Live, key)[m], run.of[m], h[m])
            BY <3>1, <5>2 DEF KeyOf, FilesOf, RunAgrees
          <5>5. QED BY <5>1, <5>3, <5>4 DEF Agrees
        <4>4. QED BY <4>2, <4>3
      <3>4. run \in Of(Inputs)
        BY <1>6, <2>2, <3>1
      <3>5. run.of = Contents(seen)
        BY <3>3, <3>4 DEF Of, Inputs, Contents
      <3>6. run = [env |-> env, of |-> Contents(seen)]
        BY <3>2, <3>4, <3>5 DEF Of
      <3>7. QED BY <1>5, <2>2, <3>6
    <2>3. QED BY <2>1, <2>2
  <1>11. QED BY <1>1, <1>5, <1>7, <1>8, <1>9, <1>10 DEF AsFromScratch

-----------------------------------------------------------------------------
(* What is recorded of readings outlives every step *)

\* A step is the world's, a change of configuration, a forgetting, a scan's, or none.
LEMMA StepKinds ==
  ASSUME TypeOK, [Next]_vars
  PROVE  WorldStep \/ (Configure /\ UNCHANGED <<disk, clock, setting>>) \/ (Forget /\ UNCHANGED <<disk, clock, setting>>)
         \/ (Scan /\ UNCHANGED <<disk, clock, setting, env>>) \/ UNCHANGED vars
  <1>1. Scan => UNCHANGED <<disk, clock, setting, env>>
    BY DEF Scan, StartScan, Discover, Begin, StampFile, ReuseLast, BuildGraph, ParseManifest, GraphModules,
           ParseModels, StartRules, VisitFile, RunRules, StartLint, Lint, Finish, world
  <1>2. (Configure \/ Forget) => UNCHANGED <<disk, clock, setting>>
    BY DEF Configure, Forget, world
  <1>3. QED BY <1>1, <1>2 DEF Next, WorldStep

\* A stamp and what was read under it keep agreeing in every step.
LEMMA AgreesKept ==
  ASSUME TypeOK, [Next]_vars, NEW f \in File, NEW st \in Stamp, NEW x, NEW h, Agrees(f, st, x, h)
  PROVE  Agrees(f, st, x, h)'
  <1>1. WorldStep \/ UNCHANGED <<disk, clock, setting>>
    BY StepKinds DEF vars, world
  <1>2. QED BY <1>1, AgreesWorld, AgreesFrame

\* So does a section of the report with the stamps of its files.
LEMMA SectionKept ==
  ASSUME TypeOK, [Next]_vars, NEW part, NEW done, NEW key \in [File -> Stamp], NEW h, Section(part, done, key, h)
  PROVE  Section(part, done, key, h)'
  <1> SUFFICES ASSUME NEW f \in File
               PROVE  IF f \in done THEN Agrees(f, key[f], part[f], h[f])' ELSE part[f] = None
    BY DEF Section
  <1>1. key[f] \in Stamp
    OBVIOUS
  <1>2. QED BY <1>1, AgreesKept DEF Section

\* So does the section of the rules.
LEMMA RuleSectionKept ==
  ASSUME TypeOK, [Next]_vars, NEW rules, NEW done, NEW e, NEW key \in [File -> Stamp], NEW h,
         RuleSection(rules, done, e, key, h)
  PROVE  RuleSection(rules, done, e, key, h)'
  <1> SUFFICES ASSUME NEW f \in File
               PROVE  /\ IF f \in done THEN Agrees(f, key[f], InputOf(rules[f]), h[f])' ELSE rules[f] = None
                      /\ rules[f] # None => rules[f].env = e /\ rules[f].of # None
    BY DEF RuleSection, InputOf
  <1>1. key[f] \in Stamp
    OBVIOUS
  <1>2. QED BY <1>1, AgreesKept DEF RuleSection

\* So does one run of an external linter.
LEMMA RunKept ==
  ASSUME TypeOK, [Next]_vars, NEW a, NEW run, NEW e, NEW key \in [File -> Stamp], NEW h, RunAgrees(a, run, e, key, h)
  PROVE  RunAgrees(a, run, e, key, h)'
  <1>1. ASSUME NEW f \in File PROVE Agrees(f, key[f], run.of[f], h[f])'
    <2>1. key[f] \in Stamp
      OBVIOUS
    <2>2. QED BY <2>1, AgreesKept DEF RunAgrees
  <1>2. QED BY <1>1 DEF RunAgrees

\* The stamps a lint run depends on.
LEMMA KeyOfType == ASSUME NEW a, NEW modules, NEW key \in [File -> Stamp] PROVE KeyOf(a, modules, key) \in [File -> Stamp]
  BY DEF KeyOf, Stamp

\* The section of the external linters keeps agreeing too.
LEMMA LintSectionKept ==
  ASSUME TypeOK, [Next]_vars, NEW lint, NEW done, NEW modules, NEW e, NEW key \in [File -> Stamp], NEW h,
         LintSection(lint, done, modules, e, key, h)
  PROVE  LintSection(lint, done, modules, e, key, h)'
  <1> SUFFICES ASSUME NEW a \in Addon
               PROVE  IF a \in done
                      THEN lint[a] = Failed \/ (lint[a] # None /\ RunAgrees(a, lint[a], e, KeyOf(a, modules, key), h)')
                      ELSE lint[a] = None
    BY DEF LintSection, KeyOf, FilesOf
  <1>1. KeyOf(a, modules, key) \in [File -> Stamp]
    BY KeyOfType
  <1>2. QED BY <1>1, RunKept DEF LintSection

\* So does a whole report.
LEMMA ReportKept ==
  ASSUME TypeOK, [Next]_vars, NEW res, NEW e, NEW key \in [File -> Stamp], NEW h, ReportTrue(res, e, key, h)
  PROVE  ReportTrue(res, e, key, h)'
  <1> DEFINE modules == ModulesOf(res.graph)
             done == FilesOf(modules)
  <1>1. /\ res.env = e /\ Section(res.graph, Manifest \cup done, key, h)
        /\ RuleSection(res.rules, done \ Manifest, e, key, h)
        /\ Section(res.rest, done \ Manifest, key, h) /\ LintSection(res.lint, modules, modules, e, key, h)
    BY DEF ReportTrue
  <1>2. /\ Section(res.graph, Manifest \cup done, key, h)' /\ RuleSection(res.rules, done \ Manifest, e, key, h)'
        /\ Section(res.rest, done \ Manifest, key, h)' /\ LintSection(res.lint, modules, modules, e, key, h)'
    BY <1>1, SectionKept, RuleSectionKept, LintSectionKept
  <1>3. QED BY <1>1, <1>2 DEF ReportTrue

\* What is kept of each file keeps agreeing with its stamp.
LEMMA FilesKept ==
  ASSUME TypeOK, [Next]_vars, NEW files \in [File -> KeptFile], NEW e, NEW h, FilesTrue(files, e, h)
  PROVE  FilesTrue(files, e, h)'
  <1> SUFFICES ASSUME NEW f \in File, files[f] # None
               PROVE  Vouched(f, files[f].stamp, files[f].finding.of, h[f])'
    BY DEF FilesTrue
  <1>1. files[f].stamp \in Stamp /\ files[f].stamp # None
    BY NoneApart DEF KeptFile, Stamp
  <1>2. Agrees(f, files[f].stamp, files[f].finding.of, h[f])
    BY <1>1 DEF FilesTrue, Agrees
  <1>3. Agrees(f, files[f].stamp, files[f].finding.of, h[f])'
    BY <1>1, <1>2, AgreesKept
  <1>4. QED BY <1>1, <1>3 DEF Agrees

\* What is kept of each lint run does.
LEMMA RunsKept ==
  ASSUME TypeOK, [Next]_vars, NEW lint \in [Addon -> KeptRun], NEW e, NEW h, RunsTrue(lint, e, h)
  PROVE  RunsTrue(lint, e, h)'
  <1> SUFFICES ASSUME NEW a \in Addon, lint[a] # None PROVE RunAgrees(a, lint[a].finding, e, lint[a].key, h)'
    BY DEF RunsTrue
  <1>1. lint[a].key \in [File -> Stamp]
    BY DEF KeptRun
  <1>2. QED BY <1>1, RunKept DEF RunsTrue

\* All that is kept does.
LEMMA KeptKept ==
  ASSUME TypeOK, [Next]_vars, NEW r \in Reuse, KeptTrue(r) PROVE KeptTrue(r)'
  <1>1. r.files \in [File -> KeptFile] /\ r.lint \in [Addon -> KeptRun]
        /\ (r.last # None => r.last.key \in [File -> Stamp])
    BY DEF Reuse, KeptReport
  <1>2. FilesTrue(r.files, r.env, r.racy)' /\ RunsTrue(r.lint, r.env, r.racy)'
    BY <1>1, FilesKept, RunsKept DEF KeptTrue
  <1>3. ASSUME r.last # None PROVE ReportTrue(r.last.result, r.env, r.last.key, r.racy)'
    BY <1>1, <1>3, ReportKept DEF KeptTrue
  <1>4. OneStamp(r.files, r.lint, r.last.key) => OneStamp(r.files, r.lint, r.last.key)'
    BY SettingConstant DEF OneStamp, Loose
  <1>5. QED BY <1>2, <1>3, <1>4 DEF KeptTrue

-----------------------------------------------------------------------------
(* Steps of other programs, of the configuration and of forget *)

\* What another program may do while a scan runs that is to be trusted: nothing.
LEMMA WorldQuiet ==
  ASSUME Orderly, TypeOK, WorldStep
  PROVE  /\ UNCHANGED scanner /\ clock \in Nat /\ clock' \in Nat /\ clock <= clock'
         /\ (Undisturbed' => Undisturbed) /\ (quiet' => quiet /\ disk' = disk)
         /\ phase # "idle" /\ Undisturbed' => disk' = disk
         /\ \A f \in File : phase # "idle" /\ Present(f) => Present(f)'
         /\ \A f \in File : phase # "idle" /\ Loose(f) => disk' = disk
  <1>1. /\ UNCHANGED scanner /\ clock \in Nat /\ clock' \in Nat /\ clock <= clock'
        /\ (quiet' = quiet /\ disk' = disk) \/ (~quiet' /\ MayWrite)
        /\ \A f \in File : Left(f) \/ Deleted(f) \/ Written(f) \/ Restored(f)
    BY WorldFacts
  <1>2. UNCHANGED <<setting, phase>>
    BY <1>1 DEF scanner
  <1>3. phase # "idle" /\ ~setting.overlap => disk' = disk
    BY <1>1 DEF MayWrite
  <1>4. ASSUME NEW f \in File, phase # "idle", Present(f) PROVE Present(f)'
    BY <1>1, <1>3, <1>4, OrderlySetting, NoneApart DEF Left, Deleted, Written, Restored, Present
  <1>5. \A f \in File : phase # "idle" /\ Loose(f) => disk' = disk
    BY <1>3, OrderlySetting
  <1>6. QED BY <1>1, <1>2, <1>3, <1>4, <1>5 DEF Undisturbed

\* A step of the world keeps the source cache true.
LEMMA WorldSources ==
  ASSUME Orderly, TypeOK, SourcesTrue, WorldStep PROVE SourcesTrue'
  <1>1. /\ UNCHANGED scanner /\ clock \in Nat /\ clock' \in Nat /\ clock <= clock'
        /\ \A f \in File : phase # "idle" /\ Loose(f) => disk' = disk
    BY WorldQuiet
  <1>2. \A f \in File : Left(f) \/ Deleted(f) \/ Written(f) \/ Restored(f)
    BY WorldFacts
  <1>3. UNCHANGED <<setting, phase, lru>>
    BY <1>1 DEF scanner
  <1>4. NoFutureTimes'
    <2> SUFFICES ASSUME NEW f \in File PROVE disk'[f].mtime <= clock' /\ disk'[f].ctime <= clock'
      BY DEF NoFutureTimes
    <2>1. disk[f].mtime \in Nat /\ disk[f].ctime \in Nat /\ disk[f].mtime <= clock /\ disk[f].ctime <= clock
      BY SettingsAssumption DEF SettingsAssumption, TypeOK, SourcesTrue, NoFutureTimes
    <2>2. Left(f) \/ Deleted(f) \/ Written(f) \/ Restored(f)
      BY <1>2
    <2>3. QED BY <1>1, <2>1, <2>2 DEF Left, Deleted, Written, Restored
  <1>5. ASSUME NEW e \in lru'
        PROVE  e.mtime <= clock' /\ (Loose(e.file)' => phase' \in {"models", "rules"})
               /\ (Present(e.file)' /\ e.mtime = disk'[e.file].mtime /\ e.size = SizeOf[disk'[e.file].content]
                     => e.content = disk'[e.file].content)
    <2>1. e.mtime \in Nat /\ e.file \in File /\ e.mtime <= clock /\ (Loose(e.file) => phase \in {"models", "rules"})
          /\ (Present(e.file) /\ e.mtime = disk[e.file].mtime /\ e.size = SizeOf[disk[e.file].content]
                => e.content = disk[e.file].content)
      BY <1>3, SettingsAssumption DEF SettingsAssumption, TypeOK, SourcesTrue, CacheExact
    <2>2. CASE disk'[e.file] = disk[e.file]
      BY <1>1, <1>3, <2>1, <2>2 DEF Loose, Present
    <2>3. CASE Written(e.file) /\ clock' = clock + 1 /\ ~Loose(e.file)
      BY <1>1, <1>3, <2>1, <2>3 DEF Written, Loose
    <2>4. CASE Deleted(e.file) /\ ~Loose(e.file)
      BY <1>1, <1>3, <2>1, <2>4 DEF Deleted, Present, Loose
    <2>5. CASE Loose(e.file)
      BY <1>1, <2>1, <2>2, <2>5
    <2>6. Left(e.file) \/ Deleted(e.file) \/ Written(e.file) \/ Restored(e.file)
      BY <1>2, <2>1
    <2>7. QED BY <2>2, <2>3, <2>4, <2>5, <2>6 DEF Left, Written, Restored, Loose
  <1>6. QED BY <1>4, <1>5 DEF SourcesTrue, CacheExact

\* A step of the world keeps what the scan has so far true.
LEMMA WorldScan ==
  ASSUME Orderly, TypeOK, Running, ScanTrue, WorldStep PROVE ScanTrue'
  <1>1. /\ UNCHANGED scanner /\ clock \in Nat /\ clock' \in Nat /\ clock <= clock'
        /\ (Undisturbed' => Undisturbed) /\ (quiet' => quiet)
        /\ phase # "idle" /\ Undisturbed' => disk' = disk
        /\ \A f \in File : phase # "idle" /\ Present(f) => Present(f)'
        /\ \A f \in File : phase # "idle" /\ Loose(f) => disk' = disk
    BY WorldQuiet
  <1>2. [Next]_vars
    BY DEF WorldStep, Next
  <1>3. UNCHANGED <<setting, env, phase, cfg, todo, found, now, sigs, racy, at, atSig, newFiles, newLint, got, held>>
    BY <1>1 DEF scanner, object, stamps, visit, kept
  <1>4. Modules' = Modules /\ Stamping' = Stamping /\ StampedFiles' = StampedFiles
        /\ GraphRead' = GraphRead /\ RulesRead' = RulesRead /\ LintRead' = LintRead
    BY <1>3 DEF Modules, Stamping, StampedFiles, GraphRead, RulesRead, LintRead, FilesOf
  <1>5. FoundTrue'
    <2>1. disk' = disk => Live' = Live /\ \A f : Present(f)' <=> Present(f)
      BY DEF Live, Present
    <2>2. CASE phase = "discover"
      <3>1. Undisturbed' => found = {AddonOf[m] : m \in {n \in Manifest \ todo : Present(n)'}}
        BY <1>1, <2>1, <2>2 DEF ScanTrue, FoundTrue
      <3>2. ~Stamping
        BY <2>2 DEF Stamping
      <3>3. QED BY <1>3, <1>4, <2>2, <3>1, <3>2 DEF FoundTrue, Present
    <2>3. CASE phase # "discover"
      <3>1. Stamping => phase # "idle"
        BY DEF Stamping
      <3>2. QED BY <1>1, <1>3, <1>4, <2>1, <2>3, <3>1 DEF ScanTrue, FoundTrue
    <2>4. QED BY <2>2, <2>3
  <1>6. TodoTrue'
    BY <1>3, <1>4 DEF ScanTrue, TodoTrue, FilesOf
  <1>7. ConfigTrue'
    <2>1. now \in Nat
      BY SettingsAssumption DEF SettingsAssumption, TypeOK
    <2>2. QED BY <1>1, <1>3, <1>4, <2>1 DEF ScanTrue, ConfigTrue
  <1>8. StampsTrue'
    <2>1. ASSUME NEW f \in File, sigs[f] # None PROVE sigs[f].stat.mtime <= clock' /\ sigs[f].stat.ctime <= clock'
      <3>1. sigs[f].stat.mtime \in Nat /\ sigs[f].stat.ctime \in Nat
        BY <2>1, SettingsAssumption DEF SettingsAssumption, TypeOK, Stamp, Stamped, Times
      <3>2. sigs[f].stat.mtime <= clock /\ sigs[f].stat.ctime <= clock
        BY <2>1 DEF ScanTrue, StampsTrue
      <3>3. QED BY <1>1, <3>1, <3>2
    <2>2. ASSUME Undisturbed', NEW f \in File
          PROVE  IF f \in StampedFiles THEN sigs[f] = StampOf(f)' /\ FreshRacy(f)' ELSE sigs[f] = None /\ racy[f] = None
      <3>1. Undisturbed
        BY <1>1, <2>2
      <3>2. IF f \in StampedFiles THEN sigs[f] = StampOf(f) /\ FreshRacy(f) ELSE sigs[f] = None /\ racy[f] = None
        BY <3>1 DEF ScanTrue, StampsTrue
      <3>3. f \in StampedFiles => disk' = disk
        BY <1>1, <2>2 DEF StampedFiles, Stamping
      <3>4. disk' = disk => StampOf(f)' = StampOf(f) /\ (FreshRacy(f) => FreshRacy(f)')
        BY <1>3 DEF StampOf, Stat, Present, FreshRacy
      <3>5. QED BY <3>2, <3>3, <3>4
    <2>3. QED BY <1>3, <1>4, <2>1, <2>2 DEF ScanTrue, StampsTrue
  <1>9. GraphTrue'
    <2>1. PICK g, d, k, h : g = got.graph /\ d = GraphRead /\ k = sigs /\ h = racy
      OBVIOUS
    <2>2. k \in [File -> Stamp] /\ Section(g, d, k, h)
      BY <2>1 DEF TypeOK, ScanTrue, GraphTrue
    <2>3. Section(g, d, k, h)'
      BY <1>2, <2>2, SectionKept
    <2>4. ASSUME NEW f \in File, got.graph[f] # None PROVE Present(f)'
      <3>1. phase # "idle"
        BY <2>4 DEF ScanTrue, GraphTrue, Section, GraphRead
      <3>2. QED BY <1>1, <2>4, <3>1 DEF ScanTrue, GraphTrue
    <2>5. QED BY <1>3, <1>4, <2>1, <2>3, <2>4 DEF GraphTrue
  <1>10. AtTrue'
    <2> SUFFICES ASSUME at # None
                 PROVE  /\ phase = "rules" /\ at \in (FilesOf(Modules) \ Manifest) \ todo /\ Present(at)'
                        /\ atSig.stat.mtime <= clock' /\ atSig.stat.ctime <= clock'
                        /\ Loose(at) => atSig = sigs[at]
      BY <1>3, <1>4 DEF AtTrue, FilesOf, Loose
    <2>1. at \in File /\ phase # "idle" /\ Present(at)
      BY DEF ScanTrue, AtTrue, TypeOK
    <2>2. atSig.stat.mtime \in Nat /\ atSig.stat.ctime \in Nat
      BY SettingsAssumption DEF SettingsAssumption, Running, Stamped, Times
    <2>3. /\ phase = "rules" /\ at \in (FilesOf(Modules) \ Manifest) \ todo
          /\ atSig.stat.mtime <= clock /\ atSig.stat.ctime <= clock /\ (Loose(at) => atSig = sigs[at])
      BY DEF ScanTrue, AtTrue
    <2>4. atSig.stat.mtime <= clock' /\ atSig.stat.ctime <= clock'
      BY <1>1, <2>2, <2>3
    <2>5. Present(at)'
      BY <1>1, <1>3, <2>1 DEF Present
    <2>6. QED BY <2>3, <2>4, <2>5
  <1>11. RulesTrue'
    <2>1. PICK g, d, c, k, h, n : g = got.rules /\ d = RulesRead /\ c = cfg /\ k = sigs /\ h = racy /\ n = newFiles
      OBVIOUS
    <2>2. k \in [File -> Stamp] /\ RuleSection(g, d, c, k, h) /\ n \in [File -> KeptFile] /\ FilesTrue(n, c, h)
      BY <2>1 DEF TypeOK, ScanTrue, RulesTrue
    <2>3. RuleSection(g, d, c, k, h)' /\ FilesTrue(n, c, h)'
      BY <1>2, <2>2, RuleSectionKept, FilesKept
    <2>4. \A f \in File : newFiles[f] # None => f \in RulesRead /\ (Loose(f) => newFiles[f].stamp = sigs[f])
      BY DEF ScanTrue, RulesTrue
    <2>5. QED BY <1>3, <1>4, <2>1, <2>3, <2>4 DEF RulesTrue, Loose
  <1>12. LintTrue'
    <2>1. PICK g, d, m, c, k, h, n : g = got.lint /\ d = LintRead /\ m = Modules /\ c = cfg /\ k = sigs /\ h = racy
                                    /\ n = newLint
      OBVIOUS
    <2>2. k \in [File -> Stamp] /\ LintSection(g, d, m, c, k, h) /\ n \in [Addon -> KeptRun] /\ RunsTrue(n, c, h)
      BY <2>1 DEF TypeOK, ScanTrue, LintTrue
    <2>3. LintSection(g, d, m, c, k, h)' /\ RunsTrue(n, c, h)'
      BY <1>2, <2>2, LintSectionKept, RunsKept
    <2>4. \A a \in Addon : LintKey(a)' = LintKey(a)
      BY <1>3, <1>4 DEF LintKey, FilesOf
    <2>5. \A a \in Addon : newLint[a] # None => phase = "lint" /\ newLint[a].key = LintKey(a)
      BY DEF ScanTrue, LintTrue
    <2>6. QED BY <1>3, <1>4, <2>1, <2>3, <2>4, <2>5 DEF LintTrue
  <1>13. QED BY <1>5, <1>6, <1>7, <1>8, <1>9, <1>10, <1>11, <1>12 DEF ScanTrue

\* Nothing kept is true of any disk.
LEMMA EmptyTrue == KeptTrue(Empty) /\ \A r, e : KeptTrue([Empty EXCEPT !.env = e])
  BY DEF KeptTrue, Empty, FilesTrue, RunsTrue, NoFile, NoAddon

\* Every step keeps what is true of the objects that it does not change.
LEMMA ObjectsKept ==
  ASSUME TypeOK, [Next]_vars, KeptTrue(reuse), KeptTrue(held)
  PROVE  /\ \A r : r \in {reuse, held} => KeptTrue(r)'
         /\ reuse' \in {reuse, held} => KeptTrue(reuse)'
         /\ held' \in {reuse, held} => KeptTrue(held)'
  <1>1. \A r : r \in {reuse, held} => KeptTrue(r)'
    <2> SUFFICES ASSUME NEW r, r \in {reuse, held} PROVE KeptTrue(r)'
      OBVIOUS
    <2>1. r \in Reuse /\ KeptTrue(r)
      BY DEF TypeOK
    <2>2. QED BY <2>1, KeptKept
  <1>2. PICK r, h : r = reuse' /\ h = held'
    OBVIOUS
  <1>3. r \in {reuse, held} => KeptTrue(r)'
    BY <1>1
  <1>4. h \in {reuse, held} => KeptTrue(h)'
    BY <1>1
  <1>5. QED BY <1>1, <1>2, <1>3, <1>4

\* What the parts of the invariant say of the next state, where a step moves no file.
GraphMade ==
  /\ Section(got'.graph, GraphRead', sigs', racy')
  /\ \A f \in File : got'.graph[f] # None => Present(f)

RulesMade ==
  /\ RuleSection(got'.rules, RulesRead', cfg', sigs', racy')
  /\ FilesTrue(newFiles', cfg', racy')
  /\ \A f \in File : newFiles'[f] # None => f \in RulesRead' /\ (Loose(f) => newFiles'[f].stamp = sigs'[f])

LintMade ==
  /\ LintSection(got'.lint, LintRead', Modules', cfg', sigs', racy')
  /\ RunsTrue(newLint', cfg', racy')
  /\ \A a \in Addon : newLint'[a] # None => phase' = "lint" /\ newLint'[a].key = LintKey(a)'

\* What a step of the scan establishes of the old disk is true of the new, which is the same.
LEMMA Unmoved ==
  ASSUME UNCHANGED <<disk, clock, setting>>
  PROVE  /\ GraphMade => GraphTrue'
         /\ RulesMade => RulesTrue'
         /\ LintMade => LintTrue'
         /\ \A r : KeptTrue(r) => KeptTrue(r)'
  <1>1. \A f, st, x, h : Agrees(f, st, x, h) => Agrees(f, st, x, h)'
    BY DEF Agrees, Vouched, Recorded, Exact, Stat, Present, Loose
  <1>2. \A part, done, key, h : Section(part, done, key, h) => Section(part, done, key, h)'
    BY <1>1 DEF Section
  <1>3. \A rules, done, e, key, h : RuleSection(rules, done, e, key, h) => RuleSection(rules, done, e, key, h)'
    BY <1>1 DEF RuleSection, InputOf
  <1>4. \A files, e, h : FilesTrue(files, e, h) => FilesTrue(files, e, h)'
    BY DEF FilesTrue, Vouched, Recorded, Exact, Stat, Present, Loose
  <1>5. \A a, run, e, key, h : RunAgrees(a, run, e, key, h) => RunAgrees(a, run, e, key, h)'
    BY <1>1 DEF RunAgrees
  <1>6. \A a, modules, key : KeyOf(a, modules, key)' = KeyOf(a, modules, key)
    BY DEF KeyOf, FilesOf
  <1>7. /\ \A lint, done, modules, e, key, h :
              LintSection(lint, done, modules, e, key, h) => LintSection(lint, done, modules, e, key, h)'
        /\ \A lint, e, h : RunsTrue(lint, e, h) => RunsTrue(lint, e, h)'
    BY <1>5, <1>6 DEF LintSection, RunsTrue
  <1>8. GraphMade => GraphTrue'
    <2>1. PICK g, d, k, h : g = got'.graph /\ d = GraphRead' /\ k = sigs' /\ h = racy'
      OBVIOUS
    <2>2. GraphMade => Section(g, d, k, h)'
      BY <1>2, <2>1 DEF GraphMade
    <2>3. QED BY <2>1, <2>2 DEF GraphMade, GraphTrue, Present
  <1>9. RulesMade => RulesTrue'
    <2>1. PICK g, d, c, k, h, n : g = got'.rules /\ d = RulesRead' /\ c = cfg' /\ k = sigs' /\ h = racy' /\ n = newFiles'
      OBVIOUS
    <2>2. RulesMade => RuleSection(g, d, c, k, h)' /\ FilesTrue(n, c, h)'
      BY <1>3, <1>4, <2>1 DEF RulesMade
    <2>3. QED BY <2>1, <2>2 DEF RulesMade, RulesTrue, Loose
  <1>10. LintMade => LintTrue'
    <2>1. PICK g, d, m, c, k, h, n : g = got'.lint /\ d = LintRead' /\ m = Modules' /\ c = cfg' /\ k = sigs'
                                    /\ h = racy' /\ n = newLint'
      OBVIOUS
    <2>2. LintMade => LintSection(g, d, m, c, k, h)' /\ RunsTrue(n, c, h)'
      BY <1>7, <2>1 DEF LintMade
    <2>3. QED BY <2>1, <2>2 DEF LintMade, LintTrue
  <1>11. \A res, e, key, h : ReportTrue(res, e, key, h) => ReportTrue(res, e, key, h)'
    <2> SUFFICES ASSUME NEW res, NEW e, NEW key, NEW h, ReportTrue(res, e, key, h) PROVE ReportTrue(res, e, key, h)'
      OBVIOUS
    <2> DEFINE modules == ModulesOf(res.graph)
               done == FilesOf(modules)
    <2>1. /\ res.env = e /\ Section(res.graph, Manifest \cup done, key, h)
          /\ RuleSection(res.rules, done \ Manifest, e, key, h)
          /\ Section(res.rest, done \ Manifest, key, h) /\ LintSection(res.lint, modules, modules, e, key, h)
      BY DEF ReportTrue
    <2>2. /\ Section(res.graph, Manifest \cup done, key, h)' /\ RuleSection(res.rules, done \ Manifest, e, key, h)'
          /\ Section(res.rest, done \ Manifest, key, h)' /\ LintSection(res.lint, modules, modules, e, key, h)'
      BY <1>2, <1>3, <1>7, <2>1
    <2>3. QED BY <2>1, <2>2 DEF ReportTrue
  <1>12. \A files, lint, key : OneStamp(files, lint, key) => OneStamp(files, lint, key)'
    BY DEF OneStamp, Loose
  <1>13. QED BY <1>4, <1>7, <1>8, <1>9, <1>10, <1>11, <1>12 DEF KeptTrue

\* A scan from scratch gives the same while the disk is the same.
LEMMA ScratchFrame == ASSUME UNCHANGED <<disk, env>> PROVE Scratch' = Scratch
  <1>1. Live' = Live /\ (\A f : Present(f)' <=> Present(f)) /\ \A fs : Contents(fs)' = Contents(fs) /\ FilesOf(fs)' = FilesOf(fs)
    BY DEF Live, Present, Contents, FilesOf
  <1> DEFINE python == FilesOf(Live) \ Manifest
  <1>2. [f \in File |-> IF f \in python /\ Present(f) THEN [env |-> env, of |-> disk[f].content] ELSE None]'
        = [f \in File |-> IF f \in python /\ Present(f) THEN [env |-> env, of |-> disk[f].content] ELSE None]
    BY <1>1
  <1>3. [a \in Addon |-> IF a \in Live THEN [env |-> env, of |-> Contents(FilesOf(Closure[a] \cap Live))] ELSE None]'
        = [a \in Addon |-> IF a \in Live THEN [env |-> env, of |-> Contents(FilesOf(Closure[a] \cap Live))] ELSE None]
    BY <1>1
  <1>4. QED BY <1>1, <1>2, <1>3 DEF Scratch

\* A step outside the scan keeps the invariant of the reuse.
LEMMA OutsideStep ==
  ASSUME Orderly, TypeOK, Running, ReuseInv, [Next]_vars, ~Scan
  PROVE  ReuseInv'
  <1>1. KeptTrue(reuse) /\ KeptTrue(held)
    BY DEF ReuseInv
  <1>2. CASE WorldStep
    <2>1. UNCHANGED <<env, reuse, held, phase, result>> /\ (quiet' => quiet /\ disk' = disk)
      BY <1>2, WorldQuiet DEF scanner, object
    <2>2. SourcesTrue' /\ ScanTrue'
      BY <1>2, WorldSources, WorldScan DEF ReuseInv
    <2>3. KeptTrue(reuse)' /\ KeptTrue(held)'
      BY <1>1, <2>1, ObjectsKept
    <2>4. disk' = disk => (AsFromScratch(result) => AsFromScratch(result)')
      BY <2>1, ScratchFrame DEF AsFromScratch
    <2>5. ReusedAsFromScratch'
      BY <2>1, <2>4 DEF ReuseInv, ReusedAsFromScratch
    <2>6. QED BY <2>2, <2>3, <2>5 DEF ReuseInv
  <1>3. CASE Configure \/ Forget \/ UNCHANGED vars
    <2>1. UNCHANGED <<setting, clock, disk, lru, held, phase, cfg, todo, found, now, sigs, racy, at, atSig, newFiles,
                      newLint, got, result>>
          /\ (quiet' => quiet /\ env' = env) /\ reuse' \in {reuse, Empty}
      BY <1>3 DEF Configure, Forget, vars, world, object, stamps, visit, kept
    <2>2. SourcesTrue'
      BY <2>1 DEF ReuseInv, SourcesTrue, NoFutureTimes, CacheExact, Present, Loose
    <2>3. KeptTrue(reuse)' /\ KeptTrue(held)'
      <3>1. KeptTrue(Empty)'
        <4>1. Empty \in Reuse /\ KeptTrue(Empty)
          BY BlankTypes, EmptyTrue
        <4>2. QED BY <4>1, KeptKept
      <3>2. PICK r : r = reuse'
        OBVIOUS
      <3>3. CASE r = Empty
        <4>1. KeptTrue(r)'
          BY <3>1, <3>3
        <4>2. QED BY <1>1, <2>1, <3>2, <4>1, ObjectsKept
      <3>4. QED BY <1>1, <2>1, <3>2, <3>3, ObjectsKept
    <2>4. AsFromScratch(result) /\ env' = env => AsFromScratch(result)'
      BY <2>1, ScratchFrame DEF AsFromScratch
    <2>5. ReusedAsFromScratch'
      BY <2>1, <2>4 DEF ReuseInv, ReusedAsFromScratch
    <2>6. Modules' = Modules /\ Stamping' = Stamping /\ StampedFiles' = StampedFiles /\ Live' = Live
          /\ GraphRead' = GraphRead /\ RulesRead' = RulesRead /\ LintRead' = LintRead
          /\ (Undisturbed' => Undisturbed) /\ \A a : LintKey(a)' = LintKey(a)
      BY <2>1 DEF Modules, Stamping, StampedFiles, GraphRead, RulesRead, LintRead, FilesOf, Live, Present,
                  Undisturbed, LintKey
    <2>7. FoundTrue' /\ TodoTrue' /\ ConfigTrue'
      BY <2>1, <2>6 DEF ReuseInv, ScanTrue, FoundTrue, TodoTrue, ConfigTrue, FilesOf, Present
    <2>8. StampsTrue' /\ AtTrue'
      BY <2>1, <2>6 DEF ReuseInv, ScanTrue, StampsTrue, AtTrue, FilesOf, Present, Loose, StampOf, Stat, FreshRacy
    <2>9. GraphTrue' /\ RulesTrue' /\ LintTrue'
      <3>1. UNCHANGED <<disk, clock, setting>>
        BY <2>1
      <3>2. GraphMade /\ RulesMade /\ LintMade
        BY <2>1, <2>6 DEF ReuseInv, ScanTrue, GraphTrue, RulesTrue, LintTrue, GraphMade, RulesMade, LintMade
      <3>3. QED BY <3>1, <3>2, Unmoved
    <2>10. QED BY <2>2, <2>3, <2>5, <2>7, <2>8, <2>9 DEF ReuseInv, ScanTrue
  <1>4. QED BY <1>2, <1>3, StepKinds

-----------------------------------------------------------------------------
(* Steps of the scan *)

\* The invariant after a step of the scan, part by part.
LEMMA Parts ==
  ASSUME UNCHANGED <<disk, clock, setting>>, SourcesTrue', KeptTrue(reuse'), KeptTrue(held'),
         FoundTrue', TodoTrue', ConfigTrue', StampsTrue', AtTrue', GraphMade, RulesMade, LintMade, ReusedAsFromScratch'
  PROVE  ReuseInv'
  <1>1. KeptTrue(reuse)' /\ KeptTrue(held)'
    <2>1. PICK r, h : r = reuse' /\ h = held'
      OBVIOUS
    <2>2. KeptTrue(r)' /\ KeptTrue(h)'
      BY <2>1, Unmoved
    <2>3. QED BY <2>1, <2>2
  <1>2. QED BY <1>1, Unmoved DEF ReuseInv, ScanTrue

\* What the stages that are still to come have gathered.
LEMMA Blanks ==
  ASSUME TypeOK, ScanTrue
  PROVE  /\ phase \notin {"manifests", "models", "rules", "lint"} => \A f \in File : got.graph[f] = None
         /\ phase \notin {"rules", "lint"} => \A f \in File : got.rules[f] = None /\ newFiles[f] = None
         /\ phase # "lint" => \A a \in Addon : got.lint[a] = None /\ newLint[a] = None
         /\ phase # "rules" => at = None
  <1>1. phase \notin {"manifests", "models", "rules", "lint"} => GraphRead = {}
    BY DEF GraphRead
  <1>2. phase \notin {"rules", "lint"} => RulesRead = {}
    BY DEF RulesRead
  <1>3. phase # "lint" => LintRead = {}
    BY DEF LintRead
  <1>4. QED BY <1>1, <1>2, <1>3 DEF ScanTrue, GraphTrue, RulesTrue, LintTrue, AtTrue, Section, RuleSection, LintSection

\* A report with no graph yet says nothing of it.
LEMMA BlankGraphMade ==
  ASSUME \A f \in File : got'.graph[f] = None, phase' \notin {"manifests", "models", "rules", "lint"} PROVE GraphMade
  <1>1. GraphRead' = {}
    BY DEF GraphRead
  <1>2. QED BY <1>1 DEF GraphMade, Section

\* A report with no rules run yet says nothing of them.
LEMMA BlankRulesMade ==
  ASSUME \A f \in File : got'.rules[f] = None /\ newFiles'[f] = None, RulesRead' = {} PROVE RulesMade
  BY DEF RulesMade, RuleSection, FilesTrue

\* A report with no lint run yet says nothing of them.
LEMMA BlankLintMade ==
  ASSUME \A a \in Addon : got'.lint[a] = None /\ newLint'[a] = None, LintRead' = {} PROVE LintMade
  BY DEF LintMade, LintSection, RunsTrue

\* A scan returns: what it keeps has to be true, and its result that of a scan from scratch.
LEMMA ReturnStep ==
  ASSUME TypeOK, ReuseInv, NEW r, KeptTrue(r), NEW res, Return(r, res), UNCHANGED <<world, lru, visit>>,
         phase \notin {"models", "rules"}, quiet => AsFromScratch(res)
  PROVE  ReuseInv'
  <1>1. UNCHANGED <<setting, clock, disk, env, quiet, lru, at>> /\ phase' = "idle" /\ found' = {} /\ cfg' = None
        /\ sigs' = NoFile /\ racy' = NoFile /\ newFiles' = NoFile /\ newLint' = NoAddon /\ got' = Blank
        /\ held' = Empty /\ reuse' \in {r, reuse} /\ result' = res /\ at = None
    BY Blanks DEF world, visit, Return, Entry, ReuseInv
  <1>2. /\ SourcesTrue' /\ FoundTrue' /\ TodoTrue' /\ ConfigTrue' /\ AtTrue'
    BY <1>1 DEF ReuseInv, SourcesTrue, NoFutureTimes, CacheExact, Present, Loose, FoundTrue, TodoTrue, ConfigTrue,
                AtTrue, Stamping
  <1>3. StampsTrue'
    BY <1>1 DEF StampsTrue, NoFile, StampedFiles, Stamping
  <1>4. GraphMade /\ RulesMade /\ LintMade
    <2>1. RulesRead' = {} /\ LintRead' = {}
      BY <1>1 DEF RulesRead, LintRead
    <2>2. QED BY <1>1, <2>1, BlankGraphMade, BlankRulesMade, BlankLintMade DEF Blank, NoFile, NoAddon
  <1>5. ReusedAsFromScratch'
    BY <1>1, ScratchFrame DEF ReusedAsFromScratch, AsFromScratch
  <1>6. KeptTrue(reuse') /\ KeptTrue(held')
    BY <1>1, EmptyTrue DEF ReuseInv
  <1>7. QED BY <1>1, <1>2, <1>3, <1>4, <1>5, <1>6, Parts

\* The start of a scan keeps the invariant.
LEMMA StartScanStep ==
  ASSUME TypeOK, ReuseInv, StartScan PROVE ReuseInv'
  <1> USE DEF world, object, stamps, visit, kept
  <1>1. UNCHANGED <<setting, clock, disk, env, lru, reuse, found, sigs, racy, at, newFiles, newLint, got>>
        /\ phase = "idle" /\ phase' = "discover" /\ cfg' = env /\ held' = reuse /\ todo' = Manifest
    BY DEF StartScan
  <1>2. /\ SourcesTrue' /\ FoundTrue' /\ TodoTrue' /\ ConfigTrue' /\ AtTrue'
    BY <1>1 DEF ReuseInv, ScanTrue, SourcesTrue, NoFutureTimes, CacheExact, Present, Loose, FoundTrue, TodoTrue, ConfigTrue,
                AtTrue, Stamping
  <1>3. StampsTrue'
    BY <1>1 DEF ReuseInv, ScanTrue, StampsTrue, StampedFiles, Stamping
  <1>4. GraphMade /\ RulesMade /\ LintMade
    <2>1. RulesRead' = {} /\ LintRead' = {}
      BY <1>1 DEF RulesRead, LintRead
    <2>2. QED BY <1>1, <2>1, Blanks, BlankGraphMade, BlankRulesMade, BlankLintMade DEF ReuseInv
  <1>5. ReusedAsFromScratch'
    BY <1>1 DEF ReusedAsFromScratch
  <1>6. KeptTrue(reuse') /\ KeptTrue(held')
    BY <1>1 DEF ReuseInv
  <1>7. QED BY <1>1, <1>2, <1>3, <1>4, <1>5, <1>6, Parts

\* So does looking for one manifest.
LEMMA DiscoverStep ==
  ASSUME Orderly, TypeOK, ReuseInv, NEW m \in File, Discover(m) PROVE ReuseInv'
  <1> USE DEF world, object, stamps, visit, kept
  <1>1. UNCHANGED <<setting, clock, disk, env, quiet, reuse, held, sigs, racy, now, at, newFiles, newLint, got, phase, cfg>>
        /\ phase = "discover" /\ m \in todo /\ todo' = todo \ {m}
    BY DEF Discover
  <1>2. PICK c : ReadSource(m, c) /\ found' = IF c = None THEN found ELSE found \cup {AddonOf[m]}
    BY DEF Discover
  <1>3. m \in Manifest /\ ~Loose(m) /\ todo \subseteq Manifest
    BY <1>1, OrderlySetting DEF ReuseInv, ScanTrue, TodoTrue
  <1>4. CacheExact' /\ c = disk[m].content
    BY <1>1, <1>2, CacheRead DEF ReuseInv, SourcesTrue
  <1>5. SourcesTrue'
    <2>1. \A e \in lru' : e \in lru \/ e.file = m
      BY <1>2 DEF ReadSource
    <2>2. QED BY <1>1, <1>3, <1>4, <2>1 DEF ReuseInv, SourcesTrue, NoFutureTimes, Loose
  <1>6. FoundTrue'
    <2> SUFFICES ASSUME Undisturbed PROVE found' = {AddonOf[n] : n \in {x \in Manifest \ todo' : Present(x)}}
      BY <1>1 DEF FoundTrue, Present, Undisturbed, Stamping
    <2>1. found = {AddonOf[n] : n \in {x \in Manifest \ todo : Present(x)}}
      BY <1>1 DEF ReuseInv, ScanTrue, FoundTrue
    <2>2. {x \in Manifest \ todo' : Present(x)}
          = {x \in Manifest \ todo : Present(x)} \cup (IF c = None THEN {} ELSE {m})
      BY <1>1, <1>3, <1>4 DEF Present
    <2>3. QED BY <1>2, <2>1, <2>2
  <1>7. TodoTrue' /\ ConfigTrue' /\ AtTrue'
    BY <1>1, <1>3 DEF ReuseInv, ScanTrue, TodoTrue, ConfigTrue, AtTrue, Stamping
  <1>8. StampsTrue'
    BY <1>1 DEF ReuseInv, ScanTrue, StampsTrue, StampedFiles, Stamping
  <1>9. GraphMade /\ RulesMade /\ LintMade
    <2>1. RulesRead' = {} /\ LintRead' = {}
      BY <1>1 DEF RulesRead, LintRead
    <2>2. QED BY <1>1, <2>1, Blanks, BlankGraphMade, BlankRulesMade, BlankLintMade DEF ReuseInv
  <1>10. ReusedAsFromScratch'
    BY <1>1 DEF ReusedAsFromScratch
  <1>11. QED BY <1>1, <1>5, <1>6, <1>7, <1>8, <1>9, <1>10, Parts DEF ReuseInv

\* So does the choice of what may be reused.
LEMMA BeginStep ==
  ASSUME TypeOK, ReuseInv, Begin PROVE ReuseInv'
  <1> USE DEF object, stamps, visit, kept
  <1>1. phase = "discover" /\ todo = {} /\ UNCHANGED <<world, lru, visit>>
    BY DEF Begin
  <1>2. Undisturbed => found = Live
    BY <1>1 DEF ReuseInv, ScanTrue, FoundTrue, Live
  <1>3. CASE found = {} /\ Return(held, Blank)
    <2>1. quiet => AsFromScratch(Blank)
      <3> SUFFICES ASSUME quiet PROVE AsFromScratch(Blank)
        OBVIOUS
      <3>1. Scratch = Blank
        BY <1>2, <1>3 DEF Undisturbed, Scratch
      <3>2. QED BY <3>1 DEF AsFromScratch
    <2>2. QED BY <1>1, <1>3, <2>1, ReturnStep DEF ReuseInv
  <1>4. CASE /\ found # {} /\ Mutate(Begun(held, cfg))
             /\ now' = clock /\ phase' = "stamp" /\ todo' = FilesOf(found)
             /\ UNCHANGED <<cfg, found, sigs, racy, kept, got, result, linted>>
    <2> USE DEF world
    <2>1. UNCHANGED <<setting, clock, disk, env, quiet, lru>> /\ held' = Begun(held, cfg) /\ reuse' \in {held', reuse}
          /\ FilesOf(found)' = FilesOf(found) /\ Live' = Live
      BY <1>1, <1>4 DEF Mutate, Entry, FilesOf, Live, Present
    <2>2. KeptTrue(held')
      BY <2>1, EmptyTrue DEF ReuseInv, Begun
    <2>3. held'.env = cfg
      BY <2>1 DEF Begun, Empty
    <2>4. SourcesTrue' /\ TodoTrue'
      BY <1>1, <1>4, <2>1 DEF ReuseInv, SourcesTrue, NoFutureTimes, CacheExact, Present, Loose, TodoTrue
    <2>5. FoundTrue'
      BY <1>2, <1>4, <2>1 DEF FoundTrue, Undisturbed
    <2>6. ConfigTrue'
      <3>1. clock \in Nat
        BY SettingsAssumption DEF SettingsAssumption, TypeOK
      <3>2. QED BY <1>1, <1>4, <2>1, <2>3, <3>1 DEF ReuseInv, ScanTrue, ConfigTrue
    <2>7. at = None /\ AtTrue'
      BY <1>1, Blanks DEF ReuseInv, AtTrue
    <2>8. StampsTrue'
      <3>1. \A f \in File : sigs'[f] = None /\ racy'[f] = None
        BY <1>1, <1>4 DEF ReuseInv, ScanTrue, StampsTrue, Stamping
      <3>2. StampedFiles' = {} /\ Stamping'
        BY <1>4, <2>1 DEF StampedFiles, Stamping
      <3>3. QED BY <3>1, <3>2 DEF StampsTrue
    <2>9. GraphMade /\ RulesMade /\ LintMade
      <3>1. RulesRead' = {} /\ LintRead' = {}
        BY <1>4 DEF RulesRead, LintRead
      <3>2. QED BY <1>1, <1>4, <3>1, Blanks, BlankGraphMade, BlankRulesMade, BlankLintMade DEF ReuseInv
    <2>10. ReusedAsFromScratch'
      BY <1>4 DEF ReusedAsFromScratch
    <2>11. QED BY <2>1, <2>2, <2>4, <2>5, <2>6, <2>7, <2>8, <2>9, <2>10, Parts DEF ReuseInv
  <1>5. QED BY <1>3, <1>4 DEF Begin

\* So does stamping one file.
LEMMA StampFileStep ==
  ASSUME TypeOK, ReuseInv, NEW f \in File, StampFile(f) PROVE ReuseInv'
  <1> USE DEF world, object, stamps, visit, kept
  <1>1. UNCHANGED <<setting, clock, disk, env, quiet, lru, reuse, held, found, now, at, newFiles, newLint, got, phase, cfg>>
        /\ phase = "stamp" /\ f \in todo /\ todo' = todo \ {f}
        /\ sigs' = [sigs EXCEPT ![f] = StampOf(f)] /\ racy' = RacyAfter(f)
    BY DEF StampFile
  <1>2. SourcesTrue' /\ FoundTrue' /\ TodoTrue' /\ ConfigTrue'
    BY <1>1 DEF ReuseInv, ScanTrue, SourcesTrue, NoFutureTimes, CacheExact, Present, Loose, FoundTrue, Live, Undisturbed,
                Stamping, TodoTrue, FilesOf, ConfigTrue
  <1>3. f \in FilesOf(found) /\ Stamping /\ Stamping'
    BY <1>1 DEF ReuseInv, ScanTrue, TodoTrue, Stamping
  <1>4. \A g \in File : sigs'[g] = IF g = f THEN StampOf(f) ELSE sigs[g]
    BY <1>1 DEF TypeOK
  <1>5. \A g \in File : racy'[g] = IF g = f /\ Present(f) /\ now - disk[f].mtime < Window
                                   THEN [stat |-> Stat(f), hash |-> disk[f].content] ELSE racy[g]
    BY <1>1 DEF TypeOK, RacyAfter
  <1>6. StampsTrue'
    <2>1. ASSUME NEW g \in File, sigs'[g] # None PROVE sigs'[g].stat.mtime <= clock /\ sigs'[g].stat.ctime <= clock
      <3>1. CASE g = f
        <4>1. Present(f)
          BY <1>4, <2>1, <3>1, StampOfType
        <4>2. QED BY <1>4, <3>1, <4>1, StampedNow DEF ReuseInv, SourcesTrue
      <3>2. CASE g # f
        BY <1>4, <2>1, <3>2 DEF ReuseInv, ScanTrue, StampsTrue
      <3>3. QED BY <3>1, <3>2
    <2>2. \A g \in File : StampOf(g)' = StampOf(g)
      BY <1>1 DEF StampOf, Stat, Present
    <2>3. StampedFiles' = StampedFiles \cup {f} /\ f \notin StampedFiles
      BY <1>1, <1>3 DEF StampedFiles, FilesOf
    <2>4. ASSUME Undisturbed, NEW g \in File
          PROVE  IF g \in StampedFiles' THEN sigs'[g] = StampOf(g) /\ FreshRacy(g)' ELSE sigs'[g] = None /\ racy'[g] = None
      <3>1. IF g \in StampedFiles THEN sigs[g] = StampOf(g) /\ FreshRacy(g) ELSE sigs[g] = None /\ racy[g] = None
        BY <2>4 DEF ReuseInv, ScanTrue, StampsTrue
      <3>2. CASE g = f
        <4>1. FreshRacy(f)'
          BY <1>1, <1>5, <2>3, <3>1, <3>2 DEF FreshRacy, Present, Stat
        <4>2. QED BY <1>4, <2>3, <3>2, <4>1
      <3>3. CASE g # f
        <4>1. racy'[g] = racy[g] /\ sigs'[g] = sigs[g]
          BY <1>4, <1>5, <3>3
        <4>2. FreshRacy(g) => FreshRacy(g)'
          BY <1>1, <4>1 DEF FreshRacy, Present, Stat
        <4>3. QED BY <2>3, <3>1, <3>3, <4>1, <4>2
      <3>4. QED BY <3>2, <3>3
    <2>5. Undisturbed' = Undisturbed
      BY <1>1 DEF Undisturbed
    <2>6. QED BY <1>1, <1>3, <2>1, <2>2, <2>4, <2>5 DEF StampsTrue
  <1>7. AtTrue'
    BY <1>1, Blanks DEF ReuseInv, AtTrue
  <1>8. GraphMade /\ RulesMade /\ LintMade
    <2>1. RulesRead' = {} /\ LintRead' = {}
      BY <1>1 DEF RulesRead, LintRead
    <2>2. QED BY <1>1, <2>1, Blanks, BlankGraphMade, BlankRulesMade, BlankLintMade DEF ReuseInv
  <1>9. ReusedAsFromScratch'
    BY <1>1 DEF ReusedAsFromScratch
  <1>10. QED BY <1>1, <1>2, <1>6, <1>7, <1>8, <1>9, Parts DEF ReuseInv

\* A phase gives way to the next, with nothing left to do.
LEMMA PhaseStep ==
  ASSUME TypeOK, Running, ReuseInv, BuildGraph \/ StartRules \/ StartLint PROVE ReuseInv'
  <1> USE DEF world, object, stamps, visit, kept
  <1>1. UNCHANGED <<setting, clock, disk, env, quiet, reuse, held, found, now, sigs, racy, at, atSig, newFiles, newLint,
                    got, cfg>>
        /\ todo = {} /\ Stamping /\ Stamping' /\ Modules' = Modules /\ Live' = Live /\ \A fs : FilesOf(fs)' = FilesOf(fs)
    BY DEF BuildGraph, StartRules, StartLint, Stamping, Modules, Live, FilesOf, Present
  <1>2. \/ phase = "stamp" /\ phase' = "manifests" /\ todo' = Manifest /\ lru' = lru
        \/ phase = "models" /\ phase' = "rules" /\ todo' = FilesOf(Modules) \ Manifest /\ lru' = lru
        \/ phase = "rules" /\ phase' = "lint" /\ todo' = Modules /\ lru' = {} /\ at = None
    BY DEF BuildGraph, StartRules, StartLint, ClearSources
  <1>3. SourcesTrue'
    BY <1>1, <1>2 DEF ReuseInv, SourcesTrue, NoFutureTimes, CacheExact, Present, Loose
  <1>4. FoundTrue' /\ TodoTrue' /\ ConfigTrue'
    BY <1>1, <1>2 DEF ReuseInv, ScanTrue, FoundTrue, TodoTrue, ConfigTrue, Undisturbed
  <1>5. StampsTrue'
    <2>1. StampedFiles' = StampedFiles
      BY <1>1, <1>2 DEF StampedFiles, FilesOf
    <2>2. \A g \in File : StampOf(g)' = StampOf(g) /\ FreshRacy(g)' = FreshRacy(g)
      BY <1>1 DEF StampOf, Stat, Present, FreshRacy
    <2>3. Undisturbed' = Undisturbed
      BY <1>1 DEF Undisturbed
    <2>4. QED BY <1>1, <2>1, <2>2, <2>3 DEF ReuseInv, ScanTrue, StampsTrue
  <1>6. at = None /\ AtTrue'
    BY <1>1, <1>2, Blanks DEF ReuseInv, AtTrue
  <1>7. GraphMade
    <2>1. GraphRead' = GraphRead
      BY <1>1, <1>2 DEF GraphRead, FilesOf
    <2>2. QED BY <1>1, <2>1 DEF ReuseInv, ScanTrue, GraphTrue, GraphMade
  <1>8. RulesMade
    <2>1. RulesRead' = RulesRead
      BY <1>1, <1>2, <1>6, NoneApart DEF RulesRead, FilesOf
    <2>2. QED BY <1>1, <2>1 DEF ReuseInv, ScanTrue, RulesTrue, RulesMade
  <1>9. LintMade
    <2>1. LintRead' = {}
      BY <1>1, <1>2 DEF LintRead
    <2>2. QED BY <1>1, <1>2, <2>1, Blanks, BlankLintMade DEF ReuseInv
  <1>10. ReusedAsFromScratch'
    BY <1>2 DEF ReusedAsFromScratch
  <1>11. QED BY <1>1, <1>3, <1>4, <1>5, <1>6, <1>7, <1>8, <1>9, <1>10, Parts DEF ReuseInv

\* The graph takes in one more file.
LEMMA ParseStep ==
  ASSUME Orderly, TypeOK, ReuseInv, NEW f \in File, ParseManifest(f) \/ ParseModels(f) PROVE ReuseInv'
  <1> USE DEF world, object, stamps, visit, kept
  <1>1. UNCHANGED <<setting, clock, disk, env, quiet, reuse, held, found, now, sigs, racy, at, atSig, newFiles, newLint,
                    cfg, phase>>
        /\ f \in todo /\ todo' = todo \ {f} /\ Live' = Live /\ phase \in {"manifests", "models"} /\ Stamping
        /\ (\A fs : FilesOf(fs)' = FilesOf(fs))
    BY DEF ParseManifest, ParseModels, Stamping, Live, FilesOf, Present
  <1>2. PICK c : ReadSource(f, c) /\ got' = [got EXCEPT !.graph[f] = c]
    BY DEF ParseManifest, ParseModels
  <1>3. phase = "manifests" => f \in Manifest
    BY <1>1 DEF ReuseInv, ScanTrue, TodoTrue
  <1>4. phase = "models" => f \in FilesOf(Modules) \ Manifest
    BY <1>1 DEF ReuseInv, ScanTrue, TodoTrue
  <1>5. CacheExact' /\ c = disk[f].content
    BY <1>1, <1>2, CacheRead DEF ReuseInv, SourcesTrue
  <1>6. SourcesTrue'
    <2>1. \A e \in lru' : e \in lru \/ e.file = f
      BY <1>2 DEF ReadSource
    <2>2. Loose(f) => phase = "models"
      BY <1>1, <1>3, OrderlySetting
    <2>3. QED BY <1>1, <1>5, <2>1, <2>2 DEF ReuseInv, SourcesTrue, NoFutureTimes, Loose
  <1>7. /\ got'.rules = got.rules /\ got'.lint = got.lint
        /\ \A g \in File : got'.graph[g] = IF g = f THEN c ELSE got.graph[g]
    BY <1>2 DEF TypeOK, Report, Inputs
  <1>8. phase = "models" => Modules' = Modules
    <2>1. phase = "models" => \A m \in Manifest : got'.graph[m] = got.graph[m]
      BY <1>4, <1>7, ProjectAssumption DEF ProjectAssumption
    <2>2. QED BY <2>1 DEF Modules
  <1>9. FoundTrue' /\ TodoTrue' /\ ConfigTrue'
    BY <1>1, <1>8 DEF ReuseInv, ScanTrue, FoundTrue, TodoTrue, ConfigTrue, Undisturbed, Stamping
  <1>10. StampsTrue'
    <2>1. StampedFiles' = StampedFiles
      BY <1>1 DEF StampedFiles, FilesOf, Stamping
    <2>2. \A g \in File : StampOf(g)' = StampOf(g) /\ FreshRacy(g)' = FreshRacy(g)
      BY <1>1 DEF StampOf, Stat, Present, FreshRacy
    <2>3. Undisturbed' = Undisturbed /\ Stamping'
      BY <1>1 DEF Undisturbed, Stamping
    <2>4. QED BY <1>1, <2>1, <2>2, <2>3 DEF ReuseInv, ScanTrue, StampsTrue
  <1>11. AtTrue'
    BY <1>1, Blanks DEF ReuseInv, AtTrue
  <1>12. GraphMade
    <2>1. Agrees(f, sigs[f], c, racy[f])
      <3>1. f \in Manifest \cup FilesOf(Modules)
        BY <1>1, <1>3, <1>4
      <3>2. QED BY <1>1, <1>5, <3>1, ReadAgrees DEF ReuseInv, ScanTrue
    <2>2. GraphRead' = GraphRead \cup {f}
      BY <1>1, <1>3, <1>4, <1>8, ProjectAssumption DEF GraphRead, ProjectAssumption, FilesOf
    <2>3. Section(got.graph, GraphRead, sigs, racy) /\ \A g \in File : got.graph[g] # None => Present(g)
      BY DEF ReuseInv, ScanTrue, GraphTrue
    <2>4. Section(got'.graph, GraphRead', sigs', racy')
      BY <1>1, <1>7, <2>1, <2>2, <2>3 DEF Section
    <2>5. QED BY <1>5, <1>7, <2>3, <2>4 DEF GraphMade, Present
  <1>13. RulesMade /\ LintMade
    <2>1. RulesRead' = {} /\ LintRead' = {}
      BY <1>1 DEF RulesRead, LintRead
    <2>2. QED BY <1>1, <1>7, <2>1, Blanks, BlankRulesMade, BlankLintMade DEF ReuseInv
  <1>14. ReusedAsFromScratch'
    BY <1>1 DEF ReusedAsFromScratch
  <1>15. QED BY <1>1, <1>6, <1>9, <1>10, <1>11, <1>12, <1>13, <1>14, Parts DEF ReuseInv

\* So does taking the modules of the graph.
LEMMA GraphModulesStep ==
  ASSUME Orderly, TypeOK, ReuseInv, GraphModules PROVE ReuseInv'
  <1> USE DEF object, stamps, visit, kept
  <1>1. phase = "manifests" /\ todo = {} /\ UNCHANGED <<world, lru, visit>> /\ Stamping
    BY DEF GraphModules, Stamping
  <1>2. CASE Modules = {} /\ Return(held, Blank)
    <2>1. ASSUME quiet PROVE FALSE
      <3>1. Undisturbed /\ found = Live /\ found # {}
        BY <1>1, <2>1 DEF Undisturbed, ReuseInv, ScanTrue, FoundTrue
      <3>2. PICK m \in Manifest : Present(m)
        BY <3>1 DEF Live
      <3>3. m \in FilesOf(found) /\ m \in File
        BY <3>1, <3>2, AddonLives DEF FilesOf
      <3>4. sigs[m] = StampOf(m) /\ FreshRacy(m)
        BY <1>1, <3>1, <3>3 DEF ReuseInv, ScanTrue, StampsTrue, StampedFiles
      <3>5. Agrees(m, sigs[m], got.graph[m], racy[m])
        BY <1>1, <3>2, <3>3 DEF ReuseInv, ScanTrue, GraphTrue, Section, GraphRead
      <3>6. got.graph[m] = disk[m].content
        BY <3>2, <3>3, <3>4, <3>5, StampFromFresh
      <3>7. QED BY <1>2, <3>2, <3>6 DEF Modules, Present
    <2>2. QED BY <1>1, <1>2, <2>1, ReturnStep DEF ReuseInv
  <1>3. CASE /\ phase' = "models" /\ todo' = FilesOf(Modules) \ Manifest
             /\ UNCHANGED <<object, cfg, found, stamps, kept, got, result, linted>>
    <2> USE DEF world
    <2>1. UNCHANGED <<setting, clock, disk, env, quiet, lru, reuse, held, found, now, sigs, racy, at, atSig, newFiles,
                      newLint, got, cfg>>
          /\ Stamping' /\ Modules' = Modules /\ Live' = Live /\ \A fs : FilesOf(fs)' = FilesOf(fs)
      BY <1>1, <1>3 DEF Stamping, Modules, Live, FilesOf, Present
    <2>2. SourcesTrue'
      BY <1>3, <2>1 DEF ReuseInv, SourcesTrue, NoFutureTimes, CacheExact, Present, Loose
    <2>3. FoundTrue' /\ TodoTrue' /\ ConfigTrue'
      BY <1>1, <1>3, <2>1 DEF ReuseInv, ScanTrue, FoundTrue, TodoTrue, ConfigTrue, Undisturbed
    <2>4. StampsTrue'
      <3>1. StampedFiles' = StampedFiles
        BY <1>1, <1>3, <2>1 DEF StampedFiles
      <3>2. \A g \in File : StampOf(g)' = StampOf(g) /\ FreshRacy(g)' = FreshRacy(g)
        BY <2>1 DEF StampOf, Stat, Present, FreshRacy
      <3>3. Undisturbed' = Undisturbed
        BY <2>1 DEF Undisturbed
      <3>4. QED BY <2>1, <3>1, <3>2, <3>3 DEF ReuseInv, ScanTrue, StampsTrue
    <2>5. AtTrue'
      BY <1>1, <2>1, Blanks DEF ReuseInv, AtTrue
    <2>6. GraphMade
      <3>1. GraphRead' = GraphRead
        BY <1>1, <1>3, <2>1, ProjectAssumption DEF GraphRead, ProjectAssumption
      <3>2. QED BY <2>1, <3>1 DEF ReuseInv, ScanTrue, GraphTrue, GraphMade
    <2>7. RulesMade /\ LintMade
      <3>1. RulesRead' = {} /\ LintRead' = {}
        BY <1>3 DEF RulesRead, LintRead
      <3>2. QED BY <1>1, <2>1, <3>1, Blanks, BlankRulesMade, BlankLintMade DEF ReuseInv
    <2>8. ReusedAsFromScratch'
      BY <1>3 DEF ReusedAsFromScratch
    <2>9. QED BY <2>1, <2>2, <2>3, <2>4, <2>5, <2>6, <2>7, <2>8, Parts DEF ReuseInv
  <1>4. QED BY <1>1, <1>2, <1>3 DEF GraphModules

\* The racy hash of a file matters only where a stat may stand for several contents of it.
LEMMA HashMatters ==
  ASSUME NEW h, NEW g, \A f \in File : Loose(f) => g[f] = h[f]
  PROVE  /\ \A f \in File : \A st, x : Agrees(f, st, x, h[f]) => Agrees(f, st, x, g[f])
         /\ \A part, done, key : Section(part, done, key, h) => Section(part, done, key, g)
         /\ \A rules, done, e, key : RuleSection(rules, done, e, key, h) => RuleSection(rules, done, e, key, g)
         /\ \A files, e : FilesTrue(files, e, h) => FilesTrue(files, e, g)
         /\ \A lint, done, modules, e, key :
              LintSection(lint, done, modules, e, key, h) => LintSection(lint, done, modules, e, key, g)
         /\ \A lint, e : RunsTrue(lint, e, h) => RunsTrue(lint, e, g)
  <1>1. \A f \in File : \A st, x : Agrees(f, st, x, h[f]) => Agrees(f, st, x, g[f])
    BY AnyHash
  <1>2. \A a, run, e, key : RunAgrees(a, run, e, key, h) => RunAgrees(a, run, e, key, g)
    BY <1>1 DEF RunAgrees
  <1>3. \A part, done, key : Section(part, done, key, h) => Section(part, done, key, g)
    BY <1>1 DEF Section
  <1>4. \A rules, done, e, key : RuleSection(rules, done, e, key, h) => RuleSection(rules, done, e, key, g)
    BY <1>1 DEF RuleSection
  <1>5. \A files, e : FilesTrue(files, e, h) => FilesTrue(files, e, g)
    BY DEF FilesTrue, Vouched
  <1>6. \A lint, done, modules, e, key :
          LintSection(lint, done, modules, e, key, h) => LintSection(lint, done, modules, e, key, g)
    BY <1>2 DEF LintSection
  <1>7. \A lint, e : RunsTrue(lint, e, h) => RunsTrue(lint, e, g)
    BY <1>2 DEF RunsTrue
  <1>8. QED BY <1>1, <1>3, <1>4, <1>5, <1>6, <1>7

\* The stamp of a file of the graph, where nothing disturbs the scan.
LEMMA StampOfModule ==
  ASSUME ReuseInv, phase \in {"rules", "lint"}, Undisturbed, NEW f \in FilesOf(Modules)
  PROVE  sigs[f] = StampOf(f) /\ FreshRacy(f)
  <1>1. found = Live /\ Modules \subseteq found /\ StampedFiles = FilesOf(found)
    BY ModulesFound DEF ReuseInv, ScanTrue, Stamping, StampedFiles
  <1>2. f \in StampedFiles /\ f \in File
    BY <1>1 DEF FilesOf
  <1>3. QED BY <1>2 DEF ReuseInv, ScanTrue, StampsTrue

\* So does the decision whether a file's findings are reused.
LEMMA VisitFileStep ==
  ASSUME Orderly, TypeOK, ReuseInv, NEW f \in File, VisitFile(f) PROVE ReuseInv'
  <1> USE DEF world, object, stamps, visit, kept
  <1>1. UNCHANGED <<setting, clock, disk, env, quiet, lru, reuse, held, found, now, sigs, newLint, cfg, phase>>
        /\ phase = "rules" /\ at = None /\ f \in todo /\ todo' = todo \ {f} /\ Stamping /\ Stamping' /\ Live' = Live
        /\ (\A fs : FilesOf(fs)' = FilesOf(fs)) /\ racy' \in {racy, RacyAfter(f)} /\ (~Present(f) => racy' = racy)
    BY DEF VisitFile, Stamping, Live, FilesOf, Present
  <1>2. got'.graph = got.graph /\ got'.lint = got.lint /\ Modules' = Modules
    <2>1. got'.graph = got.graph /\ got'.lint = got.lint
      BY DEF VisitFile, TypeOK, Report
    <2>2. QED BY <2>1 DEF Modules
  <1>3. f \in FilesOf(Modules) \ Manifest /\ todo \subseteq FilesOf(Modules) \ Manifest
    BY <1>1 DEF ReuseInv, ScanTrue, TodoTrue
  <1>4. Undisturbed => racy' = racy
    <2>1. Undisturbed => FreshRacy(f)
      BY <1>1, <1>3, StampOfModule
    <2>2. FreshRacy(f) => RacyAfter(f) = racy
      BY DEF FreshRacy, RacyAfter, TypeOK
    <2>3. QED BY <1>1, <2>1, <2>2
  <1>5. \A g \in File : Loose(g) => racy'[g] = racy[g]
    BY <1>4, OrderlySetting DEF Undisturbed
  <1>6. held.env = cfg /\ KeptTrue(held) /\ KeptTrue(reuse) /\ now <= clock
    BY <1>1 DEF ReuseInv, ScanTrue, ConfigTrue
  <1>7. SourcesTrue' /\ FoundTrue' /\ TodoTrue' /\ ConfigTrue'
    BY <1>1, <1>2 DEF ReuseInv, ScanTrue, SourcesTrue, NoFutureTimes, CacheExact, Present, Loose, FoundTrue, Undisturbed,
                      TodoTrue, ConfigTrue
  <1>8. StampsTrue'
    <2>1. StampedFiles' = StampedFiles
      BY <1>1 DEF StampedFiles
    <2>2. \A g \in File : StampOf(g)' = StampOf(g) /\ (racy' = racy => FreshRacy(g)' = FreshRacy(g))
      BY <1>1 DEF StampOf, Stat, Present, FreshRacy
    <2>3. Undisturbed' = Undisturbed
      BY <1>1 DEF Undisturbed
    <2>4. QED BY <1>1, <1>4, <2>1, <2>2, <2>3 DEF ReuseInv, ScanTrue, StampsTrue
  <1>9. GraphMade
    <2>1. GraphRead' = GraphRead
      BY <1>1, <1>2 DEF GraphRead
    <2>2. Section(got.graph, GraphRead, sigs, racy) /\ \A g \in File : got.graph[g] # None => Present(g)
      BY DEF ReuseInv, ScanTrue, GraphTrue
    <2>3. Section(got.graph, GraphRead, sigs, racy')
      BY <1>5, <2>2, HashMatters
    <2>4. QED BY <1>1, <1>2, <2>1, <2>2, <2>3 DEF GraphMade
  <1>10. LintMade
    <2>1. LintRead' = {}
      BY <1>1 DEF LintRead
    <2>2. QED BY <1>1, <1>2, <2>1, Blanks, BlankLintMade DEF ReuseInv
  <1>11. RuleSection(got.rules, RulesRead, cfg, sigs, racy') /\ FilesTrue(newFiles, cfg, racy')
         /\ \A g \in File : newFiles[g] # None => g \in RulesRead /\ (Loose(g) => newFiles[g].stamp = sigs[g])
    <2>1. RuleSection(got.rules, RulesRead, cfg, sigs, racy) /\ FilesTrue(newFiles, cfg, racy)
          /\ \A g \in File : newFiles[g] # None => g \in RulesRead /\ (Loose(g) => newFiles[g].stamp = sigs[g])
      BY DEF ReuseInv, ScanTrue, RulesTrue
    <2>2. QED BY <1>5, <2>1, HashMatters
  <1>12. Agrees(f, sigs[f], disk[f].content, racy'[f])
    <2>1. Agrees(f, sigs[f], disk[f].content, racy[f])
      BY <1>1, <1>3, ReadAgrees DEF ReuseInv, ScanTrue
    <2>2. QED BY <1>5, <2>1, HashMatters
  <1>13. f \notin RulesRead /\ f # None
    BY <1>1, NoneApart DEF RulesRead
  <1>14. ReusedAsFromScratch'
    BY <1>1 DEF ReusedAsFromScratch
  <1>15. CASE ~Present(f) /\ UNCHANGED <<at, atSig, newFiles, got>>
    <2>1. AtTrue'
      BY <1>1, <1>15 DEF AtTrue
    <2>2. RulesRead' = RulesRead \cup {f}
      BY <1>1, <1>2, <1>3, <1>13, <1>15 DEF RulesRead
    <2>3. got.rules[f] = None
      BY <1>11, <1>13 DEF RuleSection
    <2>4. RulesMade
      BY <1>1, <1>11, <1>12, <1>15, <2>2, <2>3 DEF RulesMade, RuleSection, InputOf, Present
    <2>5. QED BY <1>1, <1>6, <1>7, <1>8, <1>9, <1>10, <1>14, <2>1, <2>4, Parts
  <1>16. CASE /\ Present(f) /\ Hit(f)
              /\ newFiles' = [newFiles EXCEPT ![f] = held.files[f]]
              /\ got' = [got EXCEPT !.rules[f] = held.files[f].finding]
              /\ UNCHANGED <<at, atSig>>
    <2> DEFINE x == held.files[f].finding.of
    <2>1. /\ held.files[f] # None /\ held.files[f].stamp = StampOf(f) /\ StampOf(f) \in Stamped /\ StampOf(f) # None
          /\ held.files[f].finding \in Of(Text) /\ held.files[f].finding # None
      <3>1. held.files[f] \in KeptFile
        BY DEF TypeOK, Reuse
      <3>2. QED BY <1>16, <3>1, StampOfType, NoneApart DEF Hit, KeptFile
    <2>2. /\ Vouched(f, StampOf(f), x, held.racy[f]) /\ held.files[f].finding.env = cfg /\ x # None
      BY <1>6, <2>1 DEF KeptTrue, FilesTrue
    <2>3. x = disk[f].content
      <3>1. Agrees(f, StampOf(f), x, held.racy[f])
        BY <2>1, <2>2 DEF Agrees
      <3>2. QED BY <1>16, <3>1, StampFromHeld
    <2>4. Loose(f) => StampOf(f) = sigs[f] /\ FreshRacy(f)
      <3>1. Loose(f) => Undisturbed
        BY OrderlySetting DEF Undisturbed
      <3>2. QED BY <1>1, <1>3, <3>1, StampOfModule
    <2>5. Vouched(f, StampOf(f), x, racy'[f])
      <3>1. StampOf(f).stat.mtime <= clock /\ StampOf(f).stat.ctime <= clock
        BY <1>16, StampedNow DEF ReuseInv, SourcesTrue
      <3>2. Agrees(f, StampOf(f), disk[f].content, racy[f])
        BY <1>6, <1>16, <2>1, <2>4, <3>1, NowAgrees
      <3>3. Agrees(f, StampOf(f), disk[f].content, racy'[f])
        BY <1>5, <3>2, HashMatters
      <3>4. QED BY <2>1, <2>3, <3>3 DEF Agrees
    <2>6. RulesRead' = RulesRead \cup {f}
      BY <1>1, <1>2, <1>3, <1>13, <1>16 DEF RulesRead
    <2>7. AtTrue'
      BY <1>1, <1>16 DEF AtTrue
    <2>8. \A g \in File : got'.rules[g] = (IF g = f THEN held.files[f].finding ELSE got.rules[g])
                          /\ newFiles'[g] = (IF g = f THEN held.files[f] ELSE newFiles[g])
      BY <1>16 DEF TypeOK, Report
    <2>9. RuleSection(got'.rules, RulesRead', cfg, sigs, racy')
      <3> SUFFICES ASSUME NEW g \in File
                   PROVE  /\ IF g \in RulesRead' THEN Agrees(g, sigs[g], InputOf(got'.rules[g]), racy'[g])
                             ELSE got'.rules[g] = None
                          /\ got'.rules[g] # None => got'.rules[g].env = cfg /\ got'.rules[g].of # None
        BY DEF RuleSection
      <3>1. CASE g = f
        BY <1>12, <2>1, <2>2, <2>3, <2>6, <2>8, <3>1 DEF InputOf
      <3>2. CASE g # f
        BY <1>11, <2>6, <2>8, <3>2 DEF RuleSection
      <3>3. QED BY <3>1, <3>2
    <2>10. FilesTrue(newFiles', cfg, racy')
      BY <1>11, <2>1, <2>2, <2>5, <2>8 DEF FilesTrue
    <2>11. RulesMade
      BY <1>1, <1>11, <2>1, <2>4, <2>6, <2>8, <2>9, <2>10 DEF RulesMade
    <2>12. QED BY <1>1, <1>6, <1>7, <1>8, <1>9, <1>10, <1>14, <2>7, <2>11, Parts
  <1>17. CASE Present(f) /\ at' = f /\ atSig' = StampOf(f) /\ UNCHANGED <<newFiles, got>>
    <2>1. RulesRead' = RulesRead
      <3>1. (FilesOf(Modules) \ Manifest) \ (todo' \cup {f}) = (FilesOf(Modules) \ Manifest) \ (todo \cup {None})
        BY <1>1, NoneApart DEF FilesOf
      <3>2. QED BY <1>1, <1>2, <1>17, <3>1 DEF RulesRead
    <2>2. RulesMade
      BY <1>1, <1>11, <1>17, <2>1 DEF RulesMade
    <2>3. StampOf(f).stat.mtime <= clock /\ StampOf(f).stat.ctime <= clock
      BY <1>17, StampedNow DEF ReuseInv, SourcesTrue
    <2>4. Loose(f) => StampOf(f) = sigs[f]
      <3>1. Loose(f) => Undisturbed
        BY OrderlySetting DEF Undisturbed
      <3>2. QED BY <1>1, <1>3, <3>1, StampOfModule
    <2>5. AtTrue'
      BY <1>1, <1>2, <1>3, <1>17, <2>3, <2>4 DEF AtTrue, Present, Loose
    <2>6. QED BY <1>1, <1>6, <1>7, <1>8, <1>9, <1>10, <1>14, <2>2, <2>5, Parts
  <1>18. QED BY <1>15, <1>16, <1>17 DEF VisitFile

\* So does running the rules on a file.
LEMMA RunRulesStep ==
  ASSUME Orderly, TypeOK, Running, ReuseInv, NEW f \in File, RunRules(f) PROVE ReuseInv'
  <1> USE DEF world, object, stamps, visit, kept
  <1>1. UNCHANGED <<setting, clock, disk, env, quiet, reuse, held, found, now, sigs, racy, newLint, cfg, phase, todo>>
        /\ phase = "rules" /\ at = f /\ at' = None /\ Stamping /\ Stamping' /\ Live' = Live
        /\ (\A fs : FilesOf(fs)' = FilesOf(fs))
    BY DEF RunRules, Stamping, Live, FilesOf, Present
  <1>2. PICK c, keep :
          /\ ReadSource(f, c) /\ got' = [got EXCEPT !.rules[f] = Finding(c)]
          /\ newFiles' = IF keep THEN [newFiles EXCEPT ![f] = [stamp |-> atSig, finding |-> Finding(c)]] ELSE newFiles
    BY DEF RunRules
  <1>3. /\ f \in (FilesOf(Modules) \ Manifest) \ todo /\ Present(f) /\ f # None
        /\ atSig.stat.mtime <= clock /\ atSig.stat.ctime <= clock /\ (Loose(f) => atSig = sigs[f]) /\ atSig \in Stamped
    BY <1>1, NoneApart DEF ReuseInv, ScanTrue, AtTrue, Running
  <1>4. CacheExact' /\ c = disk[f].content /\ c # None
    BY <1>1, <1>2, <1>3, CacheRead DEF ReuseInv, SourcesTrue, Present
  <1>5. /\ got'.graph = got.graph /\ got'.lint = got.lint
        /\ \A g \in File : got'.rules[g] = IF g = f THEN Finding(c) ELSE got.rules[g]
    BY <1>2 DEF TypeOK, Report
  <1>6. Modules' = Modules
    BY <1>5 DEF Modules
  <1>7. SourcesTrue'
    BY <1>1, <1>4 DEF ReuseInv, SourcesTrue, NoFutureTimes
  <1>8. FoundTrue' /\ TodoTrue' /\ ConfigTrue' /\ AtTrue'
    BY <1>1, <1>6 DEF ReuseInv, ScanTrue, FoundTrue, Undisturbed, TodoTrue, ConfigTrue, AtTrue
  <1>9. StampsTrue'
    <2>1. StampedFiles' = StampedFiles
      BY <1>1 DEF StampedFiles
    <2>2. \A g \in File : StampOf(g)' = StampOf(g) /\ FreshRacy(g)' = FreshRacy(g)
      BY <1>1 DEF StampOf, Stat, Present, FreshRacy
    <2>3. Undisturbed' = Undisturbed
      BY <1>1 DEF Undisturbed
    <2>4. QED BY <1>1, <2>1, <2>2, <2>3 DEF ReuseInv, ScanTrue, StampsTrue
  <1>10. GraphMade
    <2>1. GraphRead' = GraphRead
      BY <1>1, <1>6 DEF GraphRead
    <2>2. QED BY <1>1, <1>5, <2>1 DEF ReuseInv, ScanTrue, GraphTrue, GraphMade
  <1>11. LintMade
    <2>1. LintRead' = {}
      BY <1>1 DEF LintRead
    <2>2. QED BY <1>1, <1>5, <2>1, Blanks, BlankLintMade DEF ReuseInv
  <1>12. Loose(f) => atSig = StampOf(f) /\ FreshRacy(f) /\ now <= clock
    <2>1. Loose(f) => Undisturbed
      BY OrderlySetting DEF Undisturbed
    <2>2. now <= clock
      BY <1>1 DEF ReuseInv, ScanTrue, ConfigTrue
    <2>3. QED BY <1>1, <1>3, <2>1, <2>2, StampOfModule
  <1>13. Vouched(f, atSig, c, racy[f])
    BY <1>3, <1>4, <1>12, NowAgrees
  <1>14. Agrees(f, sigs[f], c, racy[f])
    BY <1>1, <1>3, <1>4, ReadAgrees DEF ReuseInv, ScanTrue
  <1>15. RulesMade
    <2>1. RuleSection(got.rules, RulesRead, cfg, sigs, racy) /\ FilesTrue(newFiles, cfg, racy)
          /\ \A g \in File : newFiles[g] # None => g \in RulesRead /\ (Loose(g) => newFiles[g].stamp = sigs[g])
      BY DEF ReuseInv, ScanTrue, RulesTrue
    <2>2. RulesRead' = RulesRead \cup {f}
      <3>1. (FilesOf(Modules) \ Manifest) \ (todo \cup {None})
            = ((FilesOf(Modules) \ Manifest) \ (todo \cup {f})) \cup {f}
        BY <1>3, NoneApart DEF FilesOf
      <3>2. QED BY <1>1, <1>6, <3>1 DEF RulesRead
    <2>3. Finding(c).env = cfg /\ Finding(c).of = c /\ Finding(c) # None
      <3>1. Finding(c) \in Of(Text)
        BY <1>2, <1>1, <1>4, ReadType DEF Finding, Of, Running
      <3>2. QED BY <3>1, NoneApart DEF Finding
    <2>4. RuleSection(got'.rules, RulesRead', cfg, sigs, racy)
      <3> SUFFICES ASSUME NEW g \in File
                   PROVE  /\ IF g \in RulesRead' THEN Agrees(g, sigs[g], InputOf(got'.rules[g]), racy[g])
                             ELSE got'.rules[g] = None
                          /\ got'.rules[g] # None => got'.rules[g].env = cfg /\ got'.rules[g].of # None
        BY DEF RuleSection
      <3>1. CASE g = f
        BY <1>4, <1>5, <1>14, <2>2, <2>3, <3>1 DEF InputOf
      <3>2. CASE g # f
        BY <1>5, <2>1, <2>2, <3>2 DEF RuleSection
      <3>3. QED BY <3>1, <3>2
    <2>5. \A g \in File : newFiles'[g] = newFiles[g]
                          \/ (g = f /\ newFiles'[g] = [stamp |-> atSig, finding |-> Finding(c)])
      BY <1>2 DEF TypeOK
    <2>6. FilesTrue(newFiles', cfg, racy)
      BY <1>4, <1>13, <2>1, <2>3, <2>5 DEF FilesTrue
    <2>7. \A g \in File : newFiles'[g] # None => g \in RulesRead' /\ (Loose(g) => newFiles'[g].stamp = sigs[g])
      BY <1>3, <2>1, <2>2, <2>5
    <2>8. QED BY <1>1, <2>4, <2>6, <2>7 DEF RulesMade
  <1>16. ReusedAsFromScratch'
    BY <1>1 DEF ReusedAsFromScratch
  <1>17. QED BY <1>1, <1>7, <1>8, <1>9, <1>10, <1>11, <1>15, <1>16, Parts DEF ReuseInv

\* So does the external lint of one addon, run or reused.
LEMMA LintStep ==
  ASSUME Orderly, TypeOK, Running, ReuseInv, NEW a \in Addon, Lint(a) PROVE ReuseInv'
  <1> USE DEF world, object, stamps, visit, kept
  <1>1. UNCHANGED <<setting, clock, disk, env, quiet, lru, reuse, held, found, now, sigs, racy, newFiles, cfg, phase,
                    at, atSig>>
        /\ phase = "lint" /\ a \in todo /\ todo' = todo \ {a} /\ Stamping /\ Stamping' /\ Live' = Live
        /\ (\A fs : FilesOf(fs)' = FilesOf(fs))
    BY DEF Lint, Stamping, Live, FilesOf, Present
  <1>2. PICK x : got' = [got EXCEPT !.lint[a] = x]
                 /\ \/ KeptLint(a) /\ x = held.lint[a].finding /\ newLint' = [newLint EXCEPT ![a] = held.lint[a]]
                    \/ /\ x = Finding(LintInput(a))
                       /\ newLint' = [newLint EXCEPT ![a] = [key |-> LintKey(a), finding |-> x]]
                    \/ x = Failed /\ newLint' = newLint
    BY DEF Lint
  <1>3. a \in Modules /\ cfg \in Env /\ held.env = cfg /\ KeptTrue(held)
    BY <1>1 DEF ReuseInv, ScanTrue, TodoTrue, Running, ConfigTrue
  <1>4. /\ got'.graph = got.graph /\ got'.rules = got.rules
        /\ \A b \in Addon : got'.lint[b] = IF b = a THEN x ELSE got.lint[b]
    BY <1>2 DEF TypeOK, Report
  <1>5. Modules' = Modules
    BY <1>4 DEF Modules
  <1>6. SourcesTrue' /\ FoundTrue' /\ TodoTrue' /\ ConfigTrue' /\ AtTrue'
    BY <1>1, <1>5 DEF ReuseInv, ScanTrue, SourcesTrue, NoFutureTimes, CacheExact, Present, Loose, FoundTrue, Undisturbed,
                      TodoTrue, ConfigTrue, AtTrue
  <1>7. StampsTrue'
    <2>1. StampedFiles' = StampedFiles
      BY <1>1 DEF StampedFiles
    <2>2. \A g \in File : StampOf(g)' = StampOf(g) /\ FreshRacy(g)' = FreshRacy(g)
      BY <1>1 DEF StampOf, Stat, Present, FreshRacy
    <2>3. Undisturbed' = Undisturbed
      BY <1>1 DEF Undisturbed
    <2>4. QED BY <1>1, <2>1, <2>2, <2>3 DEF ReuseInv, ScanTrue, StampsTrue
  <1>8. GraphMade
    <2>1. GraphRead' = GraphRead
      BY <1>1, <1>5 DEF GraphRead
    <2>2. QED BY <1>1, <1>4, <2>1 DEF ReuseInv, ScanTrue, GraphTrue, GraphMade
  <1>9. RulesMade
    <2>1. RulesRead' = RulesRead
      BY <1>1, <1>5 DEF RulesRead
    <2>2. QED BY <1>1, <1>4, <2>1 DEF ReuseInv, ScanTrue, RulesTrue, RulesMade
  <1>10. LintKey(a) = KeyOf(a, Modules, sigs) /\ \A b \in Addon : LintKey(b)' = LintKey(b)
    BY <1>1, <1>5 DEF LintKey, KeyOf, FilesOf
  <1>11. (x = Failed /\ newLint' = newLint) \/ (x # None /\ RunAgrees(a, x, cfg, LintKey(a), racy))
    <2>1. CASE KeptLint(a) /\ x = held.lint[a].finding
      <3>1. held.lint[a] # None /\ held.lint[a].key = LintKey(a) /\ x \in Of(Inputs)
        <4>1. held.lint[a] \in KeptRun
          BY DEF TypeOK, Reuse
        <4>2. QED BY <2>1, <4>1 DEF KeptLint, KeptRun
      <3>2. RunAgrees(a, x, cfg, LintKey(a), held.racy)
        BY <1>3, <2>1, <3>1 DEF KeptTrue, RunsTrue
      <3>3. ASSUME NEW f \in File PROVE Agrees(f, LintKey(a)[f], x.of[f], racy[f])
        <4>1. Agrees(f, LintKey(a)[f], x.of[f], held.racy[f])
          BY <3>2 DEF RunAgrees
        <4>2. LintKey(a)[f] \in {None, sigs[f]}
          BY DEF LintKey
        <4>3. QED BY <1>1, <4>1, <4>2, Rebase DEF ReuseInv, ScanTrue
      <3>4. QED BY <3>1, <3>2, <3>3, NoneApart DEF RunAgrees
    <2>2. CASE x = Finding(LintInput(a))
      <3>1. x \in Of(Inputs) /\ x.env = cfg
        BY <1>3, <2>2, ContentsType DEF Finding, LintInput, Of
      <3>2. \A f \in File : x.of[f] = IF f \in FilesOf(Closure[a] \cap Modules) THEN disk[f].content ELSE None
        BY <2>2 DEF Finding, LintInput, Contents
      <3>3. ASSUME NEW f \in File PROVE Agrees(f, LintKey(a)[f], x.of[f], racy[f])
        <4>1. CASE f \in FilesOf(Closure[a] \cap Modules)
          <5>1. f \in FilesOf(Modules) /\ LintKey(a)[f] = sigs[f]
            BY <4>1 DEF LintKey, FilesOf
          <5>2. Agrees(f, sigs[f], disk[f].content, racy[f])
            BY <1>1, <5>1, ReadAgrees DEF ReuseInv, ScanTrue
          <5>3. QED BY <3>2, <4>1, <5>1, <5>2
        <4>2. CASE f \notin FilesOf(Closure[a] \cap Modules)
          BY <3>2, <4>2 DEF LintKey, Agrees
        <4>3. QED BY <4>1, <4>2
      <3>4. ASSUME NEW f \in File, x.of[f] # None
            PROVE  /\ AddonOf[f] \in Closure[a]
                   /\ \E m \in Manifest : AddonOf[m] = AddonOf[f] /\ x.of[m] # None
        <4>1. AddonOf[f] \in Closure[a] \cap Modules
          BY <3>2, <3>4 DEF FilesOf
        <4>2. PICK m \in Manifest : AddonOf[m] = AddonOf[f] /\ got.graph[m] # None
          BY <4>1 DEF Modules
        <4>3. m \in File /\ Present(m)
          BY <4>2, ProjectAssumption DEF ProjectAssumption, ReuseInv, ScanTrue, GraphTrue
        <4>4. QED BY <3>2, <4>1, <4>2, <4>3 DEF FilesOf, Present
      <3>5. QED BY <3>1, <3>3, <3>4, NoneApart DEF RunAgrees
    <2>3. QED BY <1>2, <2>1, <2>2
  <1>12. LintMade
    <2>1. LintSection(got.lint, LintRead, Modules, cfg, sigs, racy) /\ RunsTrue(newLint, cfg, racy)
          /\ \A b \in Addon : newLint[b] # None => newLint[b].key = LintKey(b)
      BY DEF ReuseInv, ScanTrue, LintTrue
    <2>2. LintRead' = LintRead \cup {a}
      BY <1>1, <1>3, <1>5 DEF LintRead
    <2>3. LintSection(got'.lint, LintRead', Modules, cfg, sigs, racy)
      BY <1>4, <1>10, <1>11, <2>1, <2>2 DEF LintSection
    <2>4. \A b \in Addon : newLint'[b] = newLint[b]
            \/ (b = a /\ newLint'[b].finding = x /\ newLint'[b].key = LintKey(a))
      BY <1>2 DEF TypeOK, KeptLint
    <2>5. RunsTrue(newLint', cfg, racy)
      <3>1. CASE newLint' = newLint
        BY <2>1, <3>1
      <3>2. CASE RunAgrees(a, x, cfg, LintKey(a), racy)
        BY <2>1, <2>4, <3>2 DEF RunsTrue
      <3>3. QED BY <1>11, <3>1, <3>2
    <2>6. \A b \in Addon : newLint'[b] # None => newLint'[b].key = LintKey(b)
      BY <2>1, <2>4
    <2>7. QED BY <1>1, <1>5, <1>10, <2>3, <2>5, <2>6 DEF LintMade
  <1>13. ReusedAsFromScratch'
    BY <1>1 DEF ReusedAsFromScratch
  <1>14. QED BY <1>1, <1>6, <1>7, <1>8, <1>9, <1>12, <1>13, Parts DEF ReuseInv

\* Where nothing disturbed the scan that returns, the stamps are the present ones.
LEMMA PresentStamps ==
  ASSUME TypeOK, ReuseInv, Stamping, todo = {} \/ phase # "stamp", Undisturbed
  PROVE  /\ found = Live /\ found # {}
         /\ \A f \in File : f \in FilesOf(Live) => sigs[f] = StampOf(f) /\ FreshRacy(f)
         /\ \A f \in File : ~(f \in FilesOf(Live) /\ Present(f)) => sigs[f] = None
  <1>1. found = Live /\ found # {} /\ StampedFiles = FilesOf(found)
    BY DEF ReuseInv, ScanTrue, FoundTrue, StampedFiles
  <1>2. \A f \in File : IF f \in FilesOf(Live) THEN sigs[f] = StampOf(f) /\ FreshRacy(f) ELSE sigs[f] = None
    BY <1>1 DEF ReuseInv, ScanTrue, StampsTrue
  <1>3. \A f \in File : ~Present(f) => StampOf(f) = None
    BY DEF StampOf
  <1>4. QED BY <1>1, <1>2, <1>3

\* The whole last result again: its stamps are those that this scan made.
LEMMA ReuseLastStep ==
  ASSUME Orderly, TypeOK, ReuseInv, ReuseLast PROVE ReuseInv'
  <1> DEFINE r == [held EXCEPT !.racy = racy]
             res == held.last.result
  <1>1. phase = "stamp" /\ todo = {} /\ Stamping /\ held.last # None /\ held.last.key = sigs /\ Return(r, res)
        /\ UNCHANGED <<world, lru, visit>>
    BY DEF ReuseLast, SameProject, Stamping
  <1>2. /\ KeptTrue(held) /\ held.env = cfg /\ (quiet => cfg = env)
    BY <1>1 DEF ReuseInv, ScanTrue, ConfigTrue
  <1>3. /\ FilesTrue(held.files, cfg, held.racy) /\ RunsTrue(held.lint, cfg, held.racy)
        /\ ReportTrue(res, cfg, sigs, held.racy) /\ OneStamp(held.files, held.lint, sigs)
    BY <1>1, <1>2 DEF KeptTrue
  <1>4. /\ r.env = cfg /\ r.files = held.files /\ r.lint = held.lint /\ r.last = held.last /\ r.racy = racy
    BY <1>2 DEF TypeOK, Reuse
  <1>5. \A f \in File : \A st, x : Agrees(f, st, x, held.racy[f]) /\ (Loose(f) => st \in {None, sigs[f]})
                                   => Agrees(f, st, x, racy[f])
    BY <1>1, Rebase DEF ReuseInv, ScanTrue
  <1>6. FilesTrue(held.files, cfg, racy)
    <2> SUFFICES ASSUME NEW f \in File, held.files[f] # None
                 PROVE  /\ Vouched(f, held.files[f].stamp, held.files[f].finding.of, racy[f])
                        /\ held.files[f].finding.env = cfg /\ held.files[f].finding.of # None
      BY DEF FilesTrue
    <2>1. held.files[f].stamp # None
      <3>1. held.files[f] \in KeptFile
        BY DEF TypeOK, Reuse
      <3>2. QED BY <3>1, NoneApart DEF KeptFile
    <2>2. Agrees(f, held.files[f].stamp, held.files[f].finding.of, held.racy[f])
      BY <1>3, <2>1 DEF FilesTrue, Agrees
    <2>3. Loose(f) => held.files[f].stamp \in {None, sigs[f]}
      BY <1>3 DEF OneStamp
    <2>4. Agrees(f, held.files[f].stamp, held.files[f].finding.of, racy[f])
      BY <1>5, <2>2, <2>3
    <2>5. QED BY <1>3, <2>1, <2>4 DEF FilesTrue, Agrees
  <1>7. \A a, run, key : RunAgrees(a, run, cfg, key, held.racy)
                         /\ (\A f \in File : Loose(f) => key[f] \in {None, sigs[f]}) => RunAgrees(a, run, cfg, key, racy)
    BY <1>5 DEF RunAgrees
  <1>8. RunsTrue(held.lint, cfg, racy)
    BY <1>3, <1>7 DEF RunsTrue, OneStamp
  <1>9. ReportTrue(res, cfg, sigs, racy)
    <2> DEFINE modules == ModulesOf(res.graph)
               done == FilesOf(modules)
    <2>1. /\ res.env = cfg /\ Section(res.graph, Manifest \cup done, sigs, held.racy)
          /\ RuleSection(res.rules, done \ Manifest, cfg, sigs, held.racy)
          /\ Section(res.rest, done \ Manifest, sigs, held.racy)
          /\ LintSection(res.lint, modules, modules, cfg, sigs, held.racy)
      BY <1>3 DEF ReportTrue
    <2>2. \A part, files : Section(part, files, sigs, held.racy) => Section(part, files, sigs, racy)
      BY <1>5 DEF Section
    <2>3. \A rules, files : RuleSection(rules, files, cfg, sigs, held.racy) => RuleSection(rules, files, cfg, sigs, racy)
      BY <1>5 DEF RuleSection
    <2>4. LintSection(res.lint, modules, modules, cfg, sigs, racy)
      <3>1. \A a, f : f \in File => KeyOf(a, modules, sigs)[f] \in {None, sigs[f]}
        BY DEF KeyOf
      <3>2. QED BY <1>7, <2>1, <3>1 DEF LintSection
    <2>5. QED BY <2>1, <2>2, <2>3, <2>4 DEF ReportTrue
  <1>10. KeptTrue(r)
    BY <1>1, <1>3, <1>4, <1>6, <1>8, <1>9 DEF KeptTrue
  <1>11. ASSUME quiet PROVE AsFromScratch(res)
    <2>1. /\ found = Live /\ found # {}
          /\ \A f \in File : f \in FilesOf(Live) => sigs[f] = StampOf(f) /\ FreshRacy(f)
          /\ \A f \in File : ~(f \in FilesOf(Live) /\ Present(f)) => sigs[f] = None
      BY <1>1, <1>11, PresentStamps DEF Undisturbed
    <2>2. \A f \in File : f \in FilesOf(Live) /\ Present(f)
            => \A x : Agrees(f, sigs[f], x, held.racy[f]) => x = disk[f].content
      BY <2>1, StampFromHeld
    <2>3. res \in Report /\ sigs \in [File -> Stamp]
      BY <1>1 DEF TypeOK, Reuse, KeptReport
    <2>4. ReportTrue(res, env, sigs, held.racy)
      BY <1>2, <1>3, <1>11
    <2> HIDE DEF res
    <2>5. QED BY <2>1, <2>2, <2>3, <2>4, TrueReport
  <1> HIDE DEF r, res
  <1>12. QED BY <1>1, <1>10, <1>11, ReturnStep

\* A result of this scan: every stage read what agrees with the stamps.
LEMMA FinishStep ==
  ASSUME Orderly, TypeOK, Running, ReuseInv, Finish PROVE ReuseInv'
  <1> DEFINE res == [got EXCEPT !.env = cfg, !.rest = Contents(FilesOf(Modules) \ Manifest)]
             r == [env |-> held.env, last |-> [key |-> sigs, result |-> res],
                   files |-> newFiles, lint |-> newLint, racy |-> racy]
  <1>1. phase = "lint" /\ todo = {} /\ Stamping /\ Return(r, res) /\ UNCHANGED <<world, lru, visit>>
    BY DEF Finish, Stamping
  <1>2. held.env = cfg /\ cfg \in Env /\ (quiet => cfg = env)
    BY <1>1 DEF ReuseInv, ScanTrue, ConfigTrue, Running
  <1>3. /\ res.env = cfg /\ res.graph = got.graph /\ res.rules = got.rules /\ res.lint = got.lint
        /\ res.rest = Contents(FilesOf(Modules) \ Manifest) /\ res \in Report
    BY <1>2, ContentsType DEF TypeOK, Report
  <1>4. ModulesOf(res.graph) = Modules
    BY <1>3 DEF ModulesOf, Modules
  <1>5. GraphRead = Manifest \cup FilesOf(Modules) /\ RulesRead = FilesOf(Modules) \ Manifest /\ LintRead = Modules
    BY <1>1 DEF GraphRead, RulesRead, LintRead
  <1>6. Section(res.rest, FilesOf(Modules) \ Manifest, sigs, racy)
    <2> SUFFICES ASSUME NEW f \in File
                 PROVE  IF f \in FilesOf(Modules) \ Manifest THEN Agrees(f, sigs[f], disk[f].content, racy[f])
                        ELSE Contents(FilesOf(Modules) \ Manifest)[f] = None
      BY <1>3 DEF Section, Contents
    <2>1. CASE f \in FilesOf(Modules) \ Manifest
      BY <1>1, <2>1, ReadAgrees DEF ReuseInv, ScanTrue
    <2>2. CASE f \notin FilesOf(Modules) \ Manifest
      BY <2>2 DEF Contents
    <2>3. QED BY <2>1, <2>2
  <1>7. ReportTrue(res, cfg, sigs, racy)
    <2>1. Section(res.graph, Manifest \cup FilesOf(Modules), sigs, racy)
      BY <1>3, <1>5 DEF ReuseInv, ScanTrue, GraphTrue
    <2>2. RuleSection(res.rules, FilesOf(Modules) \ Manifest, cfg, sigs, racy)
      BY <1>3, <1>5 DEF ReuseInv, ScanTrue, RulesTrue
    <2>3. LintSection(res.lint, Modules, Modules, cfg, sigs, racy)
      BY <1>3, <1>5 DEF ReuseInv, ScanTrue, LintTrue
    <2> HIDE DEF res
    <2>4. QED BY <1>3, <1>4, <1>6, <2>1, <2>2, <2>3 DEF ReportTrue
  <1>8. OneStamp(newFiles, newLint, sigs)
    <2>1. \A a \in Addon : newLint[a] # None => \A f \in File : newLint[a].key[f] \in {None, sigs[f]}
      BY DEF ReuseInv, ScanTrue, LintTrue, LintKey
    <2>2. QED BY <2>1 DEF OneStamp, ReuseInv, ScanTrue, RulesTrue
  <1>9. KeptTrue(r)
    <2>1. FilesTrue(newFiles, cfg, racy) /\ RunsTrue(newLint, cfg, racy)
      BY DEF ReuseInv, ScanTrue, RulesTrue, LintTrue
    <2> HIDE DEF res
    <2>2. QED BY <1>2, <1>7, <1>8, <2>1 DEF KeptTrue
  <1>10. ASSUME quiet PROVE AsFromScratch(res)
    <2>1. /\ found = Live /\ found # {}
          /\ \A f \in File : f \in FilesOf(Live) => sigs[f] = StampOf(f) /\ FreshRacy(f)
          /\ \A f \in File : ~(f \in FilesOf(Live) /\ Present(f)) => sigs[f] = None
      BY <1>1, <1>10, PresentStamps DEF Undisturbed
    <2>2. \A f \in File : f \in FilesOf(Live) /\ Present(f)
            => \A x : Agrees(f, sigs[f], x, racy[f]) => x = disk[f].content
      BY <2>1, StampFromFresh
    <2>3. sigs \in [File -> Stamp] /\ ReportTrue(res, env, sigs, racy)
      BY <1>2, <1>7, <1>10 DEF TypeOK
    <2> HIDE DEF res
    <2>4. QED BY <1>3, <2>1, <2>2, <2>3, TrueReport
  <1> HIDE DEF r, res
  <1>11. QED BY <1>1, <1>9, <1>10, ReturnStep

\* The invariant of the reuse holds at first.
LEMMA ReuseInit == Init => ReuseInv
  <1> SUFFICES ASSUME Init PROVE ReuseInv
    OBVIOUS
  <1>1. TypeOK /\ Empty.files = NoFile
    BY InitType DEF TypeInv, Empty
  <1>2. SourcesTrue
    BY <1>1 DEF Init, SourcesTrue, NoFutureTimes, CacheExact
  <1>3. FoundTrue /\ TodoTrue /\ ConfigTrue /\ AtTrue /\ ~Stamping
    BY DEF Init, FoundTrue, TodoTrue, ConfigTrue, AtTrue, Stamping
  <1>4. StampsTrue
    BY <1>3 DEF Init, StampsTrue, StampedFiles, NoFile
  <1>5. GraphTrue /\ RulesTrue /\ LintTrue
    <2>1. GraphRead = {} /\ RulesRead = {} /\ LintRead = {}
      BY DEF Init, GraphRead, RulesRead, LintRead
    <2>2. GraphTrue
      BY <2>1 DEF Init, GraphTrue, Section, Blank, NoFile
    <2>3. RulesTrue
      BY <2>1 DEF Init, RulesTrue, RuleSection, FilesTrue, Blank, NoFile
    <2>4. LintTrue
      BY <2>1 DEF Init, LintTrue, LintSection, RunsTrue, Blank, NoAddon
    <2>5. QED BY <2>2, <2>3, <2>4
  <1>6. KeptTrue(reuse) /\ KeptTrue(held) /\ ReusedAsFromScratch
    BY EmptyTrue DEF Init, ReusedAsFromScratch
  <1>7. QED BY <1>2, <1>3, <1>4, <1>5, <1>6 DEF ReuseInv, ScanTrue

\* Every step keeps it, in an orderly setting.
LEMMA ReuseStep == ASSUME Orderly PROVE TypeInv /\ ReuseInv /\ [Next]_vars => ReuseInv'
  <1> SUFFICES ASSUME TypeOK, Running, ReuseInv, [Next]_vars PROVE ReuseInv'
    BY DEF TypeInv
  <1>1. CASE ~Scan
    BY <1>1, OutsideStep
  <1>2. CASE Scan
    BY <1>2, StartScanStep, DiscoverStep, BeginStep, StampFileStep, PhaseStep, ParseStep, GraphModulesStep, VisitFileStep,
       RunRulesStep, LintStep, ReuseLastStep, FinishStep DEF Scan
  <1>3. QED BY <1>1, <1>2

\* Under orderly settings, a scan during which nothing was written reports what one from scratch
\* would, whatever was written, configured and forgotten during the scans before it.
THEOREM ReuseIsSound == ASSUME Orderly PROVE Spec => []ReusedAsFromScratch
  <1>1. Init => ReuseInv
    BY ReuseInit
  <1>2. TypeInv /\ ReuseInv /\ [Next]_vars => ReuseInv'
    BY ReuseStep
  <1>3. ReuseInv => ReusedAsFromScratch
    BY DEF ReuseInv
  <1>4. QED BY <1>1, <1>2, <1>3, TypeInvariance, PTL DEF Spec
=============================================================================
