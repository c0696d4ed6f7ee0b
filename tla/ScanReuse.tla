------------------------------ MODULE ScanReuse ------------------------------
(***************************************************************************)
(* What the language server carries from one scan of a folder to the next  *)
(* (core/reuse.py and collect_scores in core/scanner.py), down to the      *)
(* stamps by which a file counts as unchanged and the process-wide source  *)
(* cache below it (core/source.py), while other programs write the files.  *)
(*                                                                         *)
(* A scan from scratch is the reference: a finding is whatever a stage     *)
(* makes of the contents it read and of the configuration, so the result   *)
(* of a scan is, stage by stage, the content it saw of each file.          *)
(***************************************************************************)
EXTENDS Integers, FiniteSets

CONSTANTS
  File,        \* the files of the folder's addons
  Manifest,    \* those that are a __manifest__.py; the others are Python files
  Addon,
  AddonOf,     \* File -> Addon
  Closure,     \* Addon -> the addon and those it depends on (transitively)
  Content,
  SizeOf,      \* Content -> its size
  None,        \* no file, no stamp, no finding
  Failed,      \* a linter that could not run (missing, timeout, bad output)
  Window,      \* RACY_SECONDS, in clock ticks
  Settings,    \* the circumstances a behaviour may have; each is a record of
               \*   overlap: whether files are written while a scan runs,
               \*   coarse: files that may be written twice within one tick of the clock,
               \*   restorable: files whose mtime a tool may set back (cp -p, rsync -t),
               \*   fleeting: files that may be deleted,
               \*   files, texts: bounds, the files there may be and their contents,
               \*   ticks, envs: bounds on the clock and the configurations 0..envs
  MaxClock,    \* bound: ticks of the file clock in any setting
  MaxEnv       \* bound: 0..MaxEnv are the configurations of any setting

ManifestOf(a) == {m \in Manifest : AddonOf[m] = a}

ASSUME ProjectAssumption ==
  /\ Manifest \subseteq File
  /\ AddonOf \in [File -> Addon]
  /\ \A a \in Addon : Cardinality(ManifestOf(a)) = 1
  /\ Closure \in [Addon -> SUBSET Addon]
  /\ \A a \in Addon : a \in Closure[a]
  /\ SizeOf \in [Content -> Nat]
  /\ None \notin Content

ASSUME SettingsAssumption ==
  /\ Window \in Nat \ {0} /\ MaxClock \in Nat /\ MaxEnv \in Nat
  /\ \A s \in Settings :
       /\ s.overlap \in BOOLEAN
       /\ s.coarse \cup s.restorable \cup s.fleeting \cup s.files \subseteq File
       /\ s.texts \subseteq Content /\ s.ticks \in 0..MaxClock /\ s.envs \in 0..MaxEnv

VARIABLES
  setting,  \* the circumstances of this behaviour
  clock,    \* the file system's clock
  disk,     \* File -> its content (None: absent) and times
  env,      \* odoo-doctor.toml, the ruleset and the linters, as one number
  lru,      \* the source cache: contents by path, mtime and size
  reuse,    \* the folder's entry in engine._reuse
  attached, \* whether the running scan's object still is that entry
  held,     \* the ScanReuse object the running scan works with
  phase,    \* what the scan is doing
  cfg,      \* the configuration the scan loaded
  now,      \* Stamper.now
  todo,     \* what the phase has not visited yet
  found,    \* the addons discover_addons returned
  sigs,     \* File -> stamp for the project key (module_sigs)
  racy,     \* Stamper.racy
  at,       \* the file whose rules are about to run
  atSig,    \* its stamp
  newFiles, \* kept_files
  newLint,  \* kept_adapters
  got,      \* what the scan's stages have read so far
  result,   \* what the last scan returned
  quiet,    \* history: nothing was written since the last scan began
  linted    \* history: the addons on which the running scan ran a linter

world   == <<setting, clock, disk, env, quiet>>
object  == <<reuse, attached, held>>
stamps  == <<now, sigs, racy>>
visit   == <<at, atSig>>
kept    == <<newFiles, newLint>>
vars == <<world, lru, object, phase, cfg, todo, found, stamps, visit, kept, got, result, linted>>
-----------------------------------------------------------------------------
NoFile  == [f \in File |-> None]
NoAddon == [a \in Addon |-> None]

\* A new ScanReuse.
Empty == [env |-> None, last |-> None, files |-> NoFile, lint |-> NoAddon, racy |-> NoFile]

\* Findings of no addon.
Blank == [env |-> None, graph |-> NoFile, rules |-> NoFile, lint |-> NoAddon, rest |-> NoFile]

\* begin: forget everything when an input that is not a file changed.
Begun(r, e) == IF r.env = e THEN r ELSE [Empty EXCEPT !.env = e]

FilesOf(addons) == {f \in File : AddonOf[f] \in addons}

Present(f) == disk[f].content # None

\* What reading the given files now gives.
Contents(files) == [f \in File |-> IF f \in files THEN disk[f].content ELSE None]

\* os.stat: what the stamps are made of (a save by rename also moves the ctime).
Stat(f) == IF Present(f) THEN [mtime |-> disk[f].mtime, ctime |-> disk[f].ctime, size |-> SizeOf[disk[f].content]]
           ELSE None

\* The entries of the source cache that _read finds under the signature of f.
Cached(f) == {e \in lru : e.file = f /\ e.mtime = disk[f].mtime /\ e.size = SizeOf[disk[f].content]}

\* read_source gives the cached text, or the text on disk (also when it was evicted).
ReadSource(f, c) ==
  IF ~Present(f)
  THEN c = None /\ UNCHANGED lru
  ELSE /\ c \in {e.content : e \in Cached(f)} \cup {disk[f].content}
       /\ lru' = (lru \ Cached(f)) \cup
            {[file |-> f, mtime |-> disk[f].mtime, size |-> SizeOf[disk[f].content], content |-> c]}

Init ==
  /\ setting \in Settings
  /\ clock = 0
  /\ disk \in [File -> [content : setting.texts \cup {None}, mtime : {0}, ctime : {0}]]
  /\ \A f \in File \ setting.files : disk[f].content = None
  /\ env = 0
  /\ lru = {} /\ reuse = Empty /\ attached = FALSE /\ held = Empty
  /\ phase = "idle" /\ cfg = None /\ now = 0 /\ todo = {} /\ found = {}
  /\ sigs = NoFile /\ racy = NoFile /\ at = None /\ atSig = None
  /\ newFiles = NoFile /\ newLint = NoAddon
  /\ got = Blank /\ result = Blank
  /\ quiet = FALSE /\ linted = {}
-----------------------------------------------------------------------------
(* Other programs *)

scanner == <<setting, env, lru, object, phase, cfg, todo, found, stamps, visit, kept, got, result, linted>>

MayWrite == setting.overlap \/ phase = "idle"

\* A file is written or created; on a fine clock every write has a tick of its own.
Write(f, c) ==
  /\ MayWrite /\ f \in setting.files /\ c \in setting.texts \ {disk[f].content}
  /\ \E t \in {clock, clock + 1} :
       /\ t \in 1..setting.ticks /\ (t = clock => f \in setting.coarse)
       /\ clock' = t
       /\ disk' = [disk EXCEPT ![f] = [content |-> c, mtime |-> t, ctime |-> t]]
  /\ quiet' = FALSE
  /\ UNCHANGED scanner

\* A tool replaces a file by one of the same size and sets its mtime back.
WriteBack(f, c) ==
  /\ MayWrite /\ f \in setting.restorable /\ Present(f) /\ c \in setting.texts \ {disk[f].content}
  /\ SizeOf[c] = SizeOf[disk[f].content]
  /\ clock < setting.ticks /\ clock' = clock + 1
  /\ disk' = [disk EXCEPT ![f].content = c, ![f].ctime = clock + 1]
  /\ quiet' = FALSE
  /\ UNCHANGED scanner

Delete(f) ==
  /\ MayWrite /\ f \in setting.fleeting /\ Present(f)
  /\ disk' = [disk EXCEPT ![f].content = None]
  /\ quiet' = FALSE
  /\ UNCHANGED <<clock, scanner>>

Tick ==
  /\ clock < setting.ticks /\ clock' = clock + 1
  /\ UNCHANGED <<disk, quiet, scanner>>

\* The configuration, the ruleset or a linter changes.
Configure ==
  /\ env' \in (0..setting.envs) \ {env}
  /\ quiet' = FALSE
  /\ UNCHANGED <<setting, clock, disk, lru, object, phase, cfg, todo, found, stamps, visit, kept, got, result, linted>>

\* engine.forget: the table drops the folder's object, a running scan keeps it.
Forget ==
  /\ reuse # Empty
  /\ reuse' = Empty
  /\ attached' = FALSE
  /\ UNCHANGED <<world, lru, held, phase, cfg, todo, found, stamps, visit, kept, got, result, linted>>
-----------------------------------------------------------------------------
(* One scan: scan_project and collect_scores *)

\* Mutant: the scan puts its object back into the table.
EntryPutBack(r) == r

\* The table's entry once the scan's object is in state r: it may be another by now.
Entry(r) == IF attached THEN r ELSE reuse

Mutate(r) == held' = r /\ reuse' = Entry(r) /\ UNCHANGED attached

\* The scan returns, leaving its object in state r.
Return(r, res) ==
  /\ reuse' = Entry(r)
  /\ result' = res
  /\ phase' = "idle"
  /\ attached' = FALSE /\ held' = Empty
  /\ cfg' = None /\ now' = 0 /\ todo' = {} /\ found' = {}
  /\ sigs' = NoFile /\ racy' = NoFile
  /\ newFiles' = NoFile /\ newLint' = NoAddon
  /\ got' = Blank /\ linted' = {}

\* scan_project: load_config, then the folder's object.
StartScan ==
  /\ phase = "idle"
  /\ phase' = "discover"
  /\ cfg' = env
  /\ held' = reuse /\ attached' = TRUE
  /\ todo' = Manifest
  /\ quiet' = TRUE
  /\ UNCHANGED <<setting, clock, disk, env, lru, reuse, found, stamps, visit, kept, got, result, linted>>

\* discover_addons reads a manifest.
Discover(m) ==
  /\ phase = "discover" /\ m \in todo
  /\ todo' = todo \ {m}
  /\ \E c \in Content \cup {None} :
       /\ ReadSource(m, c)
       /\ found' = IF c = None THEN found ELSE found \cup {AddonOf[m]}
  /\ UNCHANGED <<world, object, phase, cfg, stamps, visit, kept, got, result, linted>>

\* No addon: nothing is kept or dropped. Else begin(), and a Stamper.
Begin ==
  /\ phase = "discover" /\ todo = {}
  /\ \/ /\ found = {}
        /\ Return(held, Blank)
     \/ /\ found # {}
        /\ Mutate(Begun(held, cfg))
        /\ now' = clock
        /\ phase' = "stamp" /\ todo' = FilesOf(found)
        /\ UNCHANGED <<cfg, found, sigs, racy, kept, got, result, linted>>
  /\ UNCHANGED <<world, lru, visit>>

\* Stamper.file: the stat, and the content when it belies an earlier racy stamp.
StampOf(f) ==
  LET before == held.racy[f]
      belied == before # None /\ before.stat = Stat(f) /\ before.hash # disk[f].content
  IN IF Present(f) THEN [stat |-> Stat(f), rewritten |-> IF belied THEN disk[f].content ELSE None]
     ELSE None

\* The content hash Stamper.file records of a file written shortly before the scan.
RacyAfter(f) ==
  IF Present(f) /\ now - disk[f].mtime < Window
  THEN [racy EXCEPT ![f] = [stat |-> Stat(f), hash |-> disk[f].content]]
  ELSE racy

\* Stamper.tree comes to a file.
StampFile(f) ==
  /\ phase = "stamp" /\ f \in todo
  /\ todo' = todo \ {f}
  /\ sigs' = [sigs EXCEPT ![f] = StampOf(f)]
  /\ racy' = RacyAfter(f)
  /\ UNCHANGED <<world, lru, object, phase, cfg, found, now, visit, kept, got, result, linted>>

\* reuse.last has the project under the present stamps.
SameProject == held.last # None /\ held.last.key = sigs

\* The whole last result, when no stamp changed.
ReuseLast ==
  /\ phase = "stamp" /\ todo = {} /\ SameProject
  /\ Return([held EXCEPT !.racy = racy], held.last.result)
  /\ UNCHANGED <<world, lru, visit>>

\* Otherwise the graph is built: its manifests first.
BuildGraph ==
  /\ phase = "stamp" /\ todo = {} /\ ~SameProject
  /\ phase' = "manifests" /\ todo' = Manifest
  /\ UNCHANGED <<world, lru, object, cfg, found, stamps, visit, kept, got, result, linted>>

ParseManifest(m) ==
  /\ phase = "manifests" /\ m \in todo
  /\ todo' = todo \ {m}
  /\ \E c \in Content \cup {None} : ReadSource(m, c) /\ got' = [got EXCEPT !.graph[m] = c]
  /\ UNCHANGED <<world, object, phase, cfg, found, stamps, visit, kept, result, linted>>

\* graph.modules
Modules == {AddonOf[m] : m \in {n \in Manifest : got.graph[n] # None}}

\* No module: nothing is kept or dropped.
GraphModules ==
  /\ phase = "manifests" /\ todo = {}
  /\ \/ /\ Modules = {}
        /\ Return(held, Blank)
     \/ /\ Modules # {}
        /\ phase' = "models" /\ todo' = FilesOf(Modules) \ Manifest
        /\ UNCHANGED <<object, cfg, found, stamps, kept, got, result, linted>>
  /\ UNCHANGED <<world, lru, visit>>

\* parse_models and the cross-module rules.
ParseModels(f) ==
  /\ phase = "models" /\ f \in todo
  /\ todo' = todo \ {f}
  /\ \E c \in Content \cup {None} : ReadSource(f, c) /\ got' = [got EXCEPT !.graph[f] = c]
  /\ UNCHANGED <<world, object, phase, cfg, found, stamps, visit, kept, result, linted>>

StartRules ==
  /\ phase = "models" /\ todo = {}
  /\ phase' = "rules" /\ todo' = FilesOf(Modules) \ Manifest
  /\ UNCHANGED <<world, lru, object, cfg, found, stamps, visit, kept, got, result, linted>>

\* What a stage makes of its input c.
Finding(c) == [env |-> cfg, of |-> c]

\* reuse.files has the file under its present stamp.
Hit(f) == held.files[f] # None /\ held.files[f].stamp = StampOf(f)

\* The file rules come to a file: stamp it, and use what was kept under that stamp.
VisitFile(f) ==
  /\ phase = "rules" /\ at = None /\ f \in todo
  /\ todo' = todo \ {f}
  /\ \/ /\ ~Present(f)
        /\ UNCHANGED <<racy, at, atSig, newFiles, got>>
     \/ /\ Present(f) /\ Hit(f)
        /\ racy' = RacyAfter(f)
        /\ newFiles' = [newFiles EXCEPT ![f] = held.files[f]]
        /\ got' = [got EXCEPT !.rules[f] = held.files[f].finding]
        /\ UNCHANGED <<at, atSig>>
     \/ /\ Present(f) /\ ~Hit(f)
        /\ racy' = RacyAfter(f)
        /\ at' = f /\ atSig' = StampOf(f)
        /\ UNCHANGED <<newFiles, got>>
  /\ UNCHANGED <<world, lru, object, phase, cfg, found, now, sigs, newLint, result, linted>>

\* Mutant: the rules get the tree that was parsed for the graph.
RunRulesOnGraph(f) ==
  /\ phase = "rules" /\ at = f
  /\ got' = [got EXCEPT !.rules[f] = Finding(got.graph[f])]
  /\ newFiles' = [newFiles EXCEPT ![f] = [stamp |-> atSig, finding |-> Finding(got.graph[f])]]
  /\ at' = None /\ atSig' = None
  /\ UNCHANGED <<world, lru, object, phase, cfg, todo, found, stamps, newLint, result, linted>>

\* The rules run on the file; they are kept unless one crashed or the file gave a warning.
RunRules(f) ==
  /\ phase = "rules" /\ at = f
  /\ \E c \in Content \cup {None}, keep \in BOOLEAN :
       /\ ReadSource(f, c)
       /\ got' = [got EXCEPT !.rules[f] = Finding(c)]
       /\ newFiles' = IF keep THEN [newFiles EXCEPT ![f] = [stamp |-> atSig, finding |-> Finding(c)]] ELSE newFiles
  /\ at' = None /\ atSig' = None
  /\ UNCHANGED <<world, object, phase, cfg, todo, found, stamps, newLint, result, linted>>

\* clear_source_cache
ClearSources == {}

StartLint ==
  /\ phase = "rules" /\ todo = {} /\ at = None
  /\ phase' = "lint" /\ todo' = Modules
  /\ lru' = ClearSources
  /\ UNCHANGED <<world, object, cfg, found, stamps, visit, kept, got, result, linted>>

\* Mutant: the stamps of the addon alone.
LintKeyOwnFiles(a) == [f \in File |-> IF f \in FilesOf({a} \cap Modules) THEN sigs[f] ELSE None]

\* _lint_signature: the stamps of the addon's files and of those it depends on.
LintKey(a) == [f \in File |-> IF f \in FilesOf(Closure[a] \cap Modules) THEN sigs[f] ELSE None]

\* The files a linter run on one addon can see.
LintInput(a) == Contents(FilesOf(Closure[a] \cap Modules))

KeptLint(a) == held.lint[a] # None /\ held.lint[a].key = LintKey(a)

\* A linter on one addon: what was kept under its key, or a run; a failure is not kept.
Lint(a) ==
  /\ phase = "lint" /\ a \in todo
  /\ todo' = todo \ {a}
  /\ \/ /\ KeptLint(a)
        /\ newLint' = [newLint EXCEPT ![a] = held.lint[a]]
        /\ got' = [got EXCEPT !.lint[a] = held.lint[a].finding]
        /\ UNCHANGED linted
     \/ /\ ~KeptLint(a)
        /\ linted' = linted \cup {a}
        /\ \/ /\ newLint' = [newLint EXCEPT ![a] = [key |-> LintKey(a), finding |-> Finding(LintInput(a))]]
              /\ got' = [got EXCEPT !.lint[a] = Finding(LintInput(a))]
           \/ /\ got' = [got EXCEPT !.lint[a] = Failed]
              /\ UNCHANGED newLint
  /\ UNCHANGED <<world, lru, object, phase, cfg, found, stamps, visit, newFiles, result>>

\* Suppressions and line counts, read directly; then everything is kept at once.
Finish ==
  /\ phase = "lint" /\ todo = {}
  /\ LET final == [got EXCEPT !.env = cfg, !.rest = Contents(FilesOf(Modules) \ Manifest)]
     IN Return([env |-> held.env, last |-> [key |-> sigs, result |-> final],
                files |-> newFiles, lint |-> newLint, racy |-> racy], final)
  /\ UNCHANGED <<world, lru, visit>>

Scan ==
  \/ StartScan \/ Begin \/ ReuseLast \/ BuildGraph \/ GraphModules \/ StartRules \/ StartLint \/ Finish
  \/ \E f \in File : Discover(f) \/ StampFile(f) \/ ParseManifest(f) \/ ParseModels(f) \/ VisitFile(f) \/ RunRules(f)
  \/ \E a \in Addon : Lint(a)

Next ==
  \/ Scan \/ Tick \/ Configure \/ Forget
  \/ \E f \in File, c \in Content : Write(f, c) \/ WriteBack(f, c)
  \/ \E f \in File : Delete(f)

Spec == Init /\ [][Next]_vars
-----------------------------------------------------------------------------
(* Properties *)

Phase == {"idle", "discover", "stamp", "manifests", "models", "rules", "lint"}
Text  == Content \cup {None}
Size  == {SizeOf[c] : c \in Content}
Times == [mtime : 0..MaxClock, ctime : 0..MaxClock, size : Size]
Stamped == [stat : Times, rewritten : Text]
Stamp == Stamped \cup {None}
Hashed == [stat : Times, hash : Content]
RacyStamp == Hashed \cup {None}
Env   == 0..MaxEnv
Of(input) == [env : Env, of : input]
Inputs == [File -> Text]
KeptFile == [stamp : Stamped, finding : Of(Text)] \cup {None}
KeptRun == [key : [File -> Stamp], finding : Of(Inputs)] \cup {None}
Report == [env : Env \cup {None}, graph : Inputs, rules : [File -> Of(Text) \cup {None}],
           lint : [Addon -> Of(Inputs) \cup {None, Failed}], rest : Inputs]
KeptReport == [key : [File -> Stamp], result : Report] \cup {None}
Reuse == [env : Env \cup {None}, last : KeptReport, files : [File -> KeptFile],
          lint : [Addon -> KeptRun], racy : [File -> RacyStamp]]

ASSUME NoneAssumption ==
  /\ None \notin Addon \cup Times \cup Stamped \cup Hashed \cup Of(Text) \cup Of(Inputs) \cup File
  /\ Failed \notin Of(Inputs) \cup {None}

TypeOK ==
  /\ setting \in Settings /\ clock \in 0..MaxClock /\ env \in Env /\ cfg \in Env \cup {None} /\ now \in 0..MaxClock
  /\ disk \in [File -> [content : Text, mtime : 0..MaxClock, ctime : 0..MaxClock]]
  /\ lru \in SUBSET [file : File, mtime : 0..MaxClock, size : Size, content : Content]
  /\ phase \in Phase /\ found \subseteq Addon /\ linted \subseteq Addon
  /\ todo \subseteq (IF phase = "lint" THEN Addon ELSE File)
  /\ reuse \in Reuse /\ held \in Reuse
  /\ sigs \in [File -> Stamp] /\ racy \in [File -> RacyStamp]
  /\ at \in File \cup {None} /\ atSig \in Stamp
  /\ newFiles \in [File -> KeptFile] /\ newLint \in [Addon -> KeptRun]
  /\ got \in Report /\ result \in Report
  /\ attached \in BOOLEAN /\ quiet \in BOOLEAN

\* The addons of the folder as it is now.
Live == {AddonOf[m] : m \in {n \in Manifest : Present(n)}}

\* What a scan from scratch would report, its linters working.
Scratch ==
  LET python == FilesOf(Live) \ Manifest
      made(c) == [env |-> env, of |-> c]
  IN IF Live = {} THEN Blank
     ELSE [env   |-> env,
           graph |-> Contents(FilesOf(Live)),
           rules |-> [f \in File |-> IF f \in python /\ Present(f) THEN made(disk[f].content) ELSE None],
           lint  |-> [a \in Addon |-> IF a \in Live THEN made(Contents(FilesOf(Closure[a] \cap Live))) ELSE None],
           rest  |-> Contents(python)]

\* Equal to it, but for linters that could not run.
AsFromScratch(res) ==
  /\ res.env = Scratch.env /\ res.graph = Scratch.graph /\ res.rules = Scratch.rules
  /\ res.rest = Scratch.rest
  /\ \A a \in Addon : res.lint[a] \in {Failed, Scratch.lint[a]}

\* A scan during which nothing was written reports what a scan from scratch would,
\* whatever was written, configured and forgotten during the scans before it.
ReusedAsFromScratch == phase = "idle" /\ quiet => AsFromScratch(result)

\* A stamp that is the file's present one vouches for its present content.
Vouches(f, entry) ==
  entry # None /\ Present(f) /\ entry.stamp = [stat |-> Stat(f), rewritten |-> None]
    => entry.finding.of = disk[f].content

\* Every write leaves a stat of its own.
FineTimes == setting.coarse = {} /\ setting.restorable = {}

\* Where times tell writes apart, what is kept of a file under its present stamp is what
\* its rules make of the file as it is, even while it is written between the stamp and the
\* run. (Elsewhere the racy hash of a later scan decides: ReusedAsFromScratch.)
KeptIsCurrent == FineTimes => \A f \in File : Vouches(f, reuse.files[f]) /\ Vouches(f, newFiles[f])

\* A scan under way never brings back what was forgotten meanwhile.
DroppedStaysDropped ==
  [][phase # "idle" /\ ~attached => reuse' = Empty]_vars

\* "A missing tool, a timeout or a bad output is retried on the next scan": a scan that
\* reports a linter's failure has run that linter itself.
FailureIsRetried ==
  [][phase # "idle" /\ phase' = "idle"
       => {a \in Addon : result'.lint[a] = Failed} \subseteq linted]_vars
=============================================================================
