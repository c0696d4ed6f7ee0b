------------------------------ MODULE ScanCache ------------------------------
(***************************************************************************)
(* odoo-doctor scan --cache: processes that share the one cache file of a  *)
(* repository (core/cache.py, the cache branch of collect_scores and its   *)
(* caller), start, crash and start again, while the files are written.     *)
(* A finding is whatever the scan makes of the contents it read: the       *)
(* result of a scan is the content it saw of each file.                    *)
(***************************************************************************)
EXTENDS Naturals

CONSTANTS
  File,      \* the files under the scan roots
  Hashed,    \* those of a suffix whose contents are hashed; of the others only that they exist
  Content,
  None,      \* no file, no cache file, no entry
  Torn,      \* a cache file that cannot be used
  Run,       \* processes
  Plugins,   \* the configurations with plugins: their rules may read anything
  Overlap,   \* whether files are written while a process runs
  MaxEnv     \* bound: 0..MaxEnv are the configurations

ASSUME CacheAssumption ==
  /\ Hashed \subseteq File
  /\ None \notin Content /\ "exists" \notin Content \cup {None}
  /\ MaxEnv \in Nat /\ Plugins \subseteq 0..MaxEnv
  /\ Overlap \in BOOLEAN

VARIABLES
  disk,      \* File -> its content, None when absent
  env,       \* configuration, ruleset and linters, as one number
  cacheFile, \* scan_cache.json: an entry, None when absent, Torn when unreadable or of another version
  pc,        \* Run -> what the process is doing
  cfg,       \* Run -> the configuration it loaded
  entry,     \* Run -> the entry its ScanCache holds
  todo,      \* Run -> the files the present step has not visited
  fp,        \* Run -> the fingerprint so far
  seen,      \* Run -> what the scan has read so far
  result,    \* Run -> what it reported
  quiet      \* Run -> history: nothing was written since it began

vars == <<disk, env, cacheFile, pc, cfg, entry, todo, fp, seen, result, quiet>>

NoFile == [f \in File |-> None]
Env    == 0..MaxEnv
Text   == Content \cup {None}

\* The fingerprint before any file was hashed.
Unhashed(e) == [env |-> e, names |-> {}, hashes |-> NoFile]

NoResult == [env |-> None, of |-> NoFile, linted |-> FALSE]

Init ==
  /\ disk \in [File -> Text] /\ env = 0
  /\ cacheFile \in {None, Torn}
  /\ pc = [r \in Run |-> "off"]
  /\ cfg = [r \in Run |-> 0]
  /\ entry = [r \in Run |-> None]
  /\ todo = [r \in Run |-> {}]
  /\ fp = [r \in Run |-> Unhashed(0)]
  /\ seen = [r \in Run |-> NoFile]
  /\ result = [r \in Run |-> NoResult]
  /\ quiet = [r \in Run |-> FALSE]

Running == {r \in Run : pc[r] \notin {"off", "done"}}
-----------------------------------------------------------------------------
(* Other programs *)

MayWrite == Overlap \/ Running = {}
process  == <<cacheFile, pc, cfg, entry, todo, fp, seen, result>>

Write(f, c) ==
  /\ MayWrite /\ c # disk[f]
  /\ disk' = [disk EXCEPT ![f] = c]
  /\ quiet' = [r \in Run |-> FALSE]
  /\ UNCHANGED <<env, process>>

Configure ==
  /\ MayWrite /\ env' \in Env \ {env}
  /\ quiet' = [r \in Run |-> FALSE]
  /\ UNCHANGED <<disk, process>>
-----------------------------------------------------------------------------
(* One process *)

Goto(r, step) == pc' = [pc EXCEPT ![r] = step]

\* The process ends, and its memory with it.
Exit(r, how) ==
  /\ Goto(r, how)
  /\ cfg' = [cfg EXCEPT ![r] = 0]
  /\ entry' = [entry EXCEPT ![r] = None]
  /\ todo' = [todo EXCEPT ![r] = {}]
  /\ fp' = [fp EXCEPT ![r] = Unhashed(0)]
  /\ seen' = [seen EXCEPT ![r] = NoFile]

\* Mutant: a scan with plugins has a fingerprint as well.
KeyedAlways(e) == TRUE

\* Third-party rules may read what the fingerprint does not cover: then there is none.
Keyed(e) == e \notin Plugins

\* load_config, then ScanCache.load: an unreadable file is no entry.
Start(r) ==
  /\ pc[r] \in {"off", "done"}
  /\ cfg' = [cfg EXCEPT ![r] = env]
  /\ entry' = [entry EXCEPT ![r] = IF cacheFile = Torn THEN None ELSE cacheFile]
  /\ fp' = [fp EXCEPT ![r] = Unhashed(env)]
  /\ seen' = [seen EXCEPT ![r] = NoFile]
  /\ result' = [result EXCEPT ![r] = NoResult]
  /\ quiet' = [quiet EXCEPT ![r] = TRUE]
  /\ IF Keyed(env)
     THEN Goto(r, "walk") /\ UNCHANGED todo
     ELSE Goto(r, "scan") /\ todo' = [todo EXCEPT ![r] = File]
  /\ UNCHANGED <<disk, env, cacheFile>>

\* project_fingerprint: the names first, then the contents one by one.
Walk(r) ==
  /\ pc[r] = "walk" /\ Goto(r, "hash")
  /\ LET names == {f \in File : disk[f] # None}
     IN /\ fp' = [fp EXCEPT ![r].names = names]
        /\ todo' = [todo EXCEPT ![r] = names \cap Hashed]
  /\ UNCHANGED <<disk, env, cacheFile, cfg, entry, seen, result, quiet>>

\* A file that vanished meanwhile is hashed as unreadable.
HashFile(r, f) ==
  /\ pc[r] = "hash" /\ f \in todo[r]
  /\ todo' = [todo EXCEPT ![r] = @ \ {f}]
  /\ fp' = [fp EXCEPT ![r].hashes[f] = disk[f]]
  /\ UNCHANGED <<disk, env, cacheFile, pc, cfg, entry, seen, result, quiet>>

Hit(r) == entry[r] # None /\ entry[r].fp = fp[r]

\* lookup: the stored result, or a scan.
Lookup(r) ==
  /\ pc[r] = "hash" /\ todo[r] = {}
  /\ \/ /\ Hit(r) /\ Goto(r, "save")
        /\ result' = [result EXCEPT ![r] = entry[r].result]
        /\ UNCHANGED todo
     \/ /\ ~Hit(r) /\ Goto(r, "scan")
        /\ todo' = [todo EXCEPT ![r] = File]
        /\ UNCHANGED result
  /\ UNCHANGED <<disk, env, cacheFile, cfg, entry, fp, seen, quiet>>

\* What a rule sees of a file: of one with no hashed suffix a native rule asks only whether it exists.
Sight(e, f) == IF disk[f] = None \/ f \in Hashed \/ e \in Plugins THEN disk[f] ELSE "exists"

\* The scan comes to a file.
ReadFile(r, f) ==
  /\ pc[r] = "scan" /\ f \in todo[r]
  /\ todo' = [todo EXCEPT ![r] = @ \ {f}]
  /\ seen' = [seen EXCEPT ![r][f] = Sight(cfg[r], f)]
  /\ UNCHANGED <<disk, env, cacheFile, pc, cfg, entry, fp, result, quiet>>

\* Mutant: the result is replaced, its key is not.
StoredUnderOldKey(r, res) ==
  IF ~Keyed(cfg[r]) \/ seen[r] = NoFile THEN entry[r]
  ELSE [fp |-> IF entry[r] = None THEN fp[r] ELSE entry[r].fp, result |-> res]

\* store: only a scan that had a fingerprint and found an addon.
Stored(r, res) ==
  IF ~Keyed(cfg[r]) \/ seen[r] = NoFile THEN entry[r] ELSE [fp |-> fp[r], result |-> res]

\* A linter may fail; what it said is part of the result all the same.
FinishScan(r) ==
  /\ pc[r] = "scan" /\ todo[r] = {} /\ Goto(r, "save")
  /\ \E linted \in BOOLEAN :
       LET res == IF seen[r] = NoFile THEN NoResult
                  ELSE [env |-> cfg[r], of |-> seen[r], linted |-> linted]
       IN /\ result' = [result EXCEPT ![r] = res]
          /\ entry' = [entry EXCEPT ![r] = Stored(r, res)]
  /\ UNCHANGED <<disk, env, cacheFile, cfg, todo, fp, seen, quiet>>

\* Mutant: the cache file is opened for writing in place.
OpenInPlace(r) ==
  /\ pc[r] = "save"
  /\ \/ /\ entry[r] = None /\ Exit(r, "done")
        /\ UNCHANGED cacheFile
     \/ /\ entry[r] # None /\ Goto(r, "replace")
        /\ cacheFile' = Torn
        /\ UNCHANGED <<cfg, entry, todo, fp, seen>>
  /\ UNCHANGED <<disk, env, result, quiet>>

\* save: nothing to write, or a temporary file, which may fail too.
OpenTemp(r) ==
  /\ pc[r] = "save"
  /\ \/ /\ entry[r] # None /\ Goto(r, "replace")
        /\ UNCHANGED <<cfg, entry, todo, fp, seen>>
     \/ Exit(r, "done")
  /\ UNCHANGED <<disk, env, cacheFile, result, quiet>>

\* os.replace, which may fail as well.
Replace(r) ==
  /\ pc[r] = "replace" /\ Exit(r, "done")
  /\ cacheFile' \in {cacheFile, entry[r]}
  /\ UNCHANGED <<disk, env, result, quiet>>

\* The process is killed.
Crash(r) ==
  /\ r \in Running /\ Exit(r, "off")
  /\ result' = [result EXCEPT ![r] = NoResult]
  /\ quiet' = [quiet EXCEPT ![r] = FALSE]
  /\ UNCHANGED <<disk, env, cacheFile>>

Step(r) ==
  \/ Start(r) \/ Walk(r) \/ Lookup(r) \/ FinishScan(r) \/ OpenTemp(r) \/ Replace(r) \/ Crash(r)
  \/ \E f \in File : HashFile(r, f) \/ ReadFile(r, f)

Next ==
  \/ \E r \in Run : Step(r)
  \/ \E f \in File, c \in Text : Write(f, c)
  \/ Configure

Spec == Init /\ [][Next]_vars
-----------------------------------------------------------------------------
(* Properties *)

Mark        == Text \cup {"exists"}
Fingerprint == [env : Env, names : SUBSET File, hashes : [File -> Text]]
Result      == [env : Env \cup {None}, of : [File -> Mark], linted : BOOLEAN]
Entry       == [fp : Fingerprint, result : Result]

TypeOK ==
  /\ disk \in [File -> Text] /\ env \in Env
  /\ cacheFile \in Entry \cup {None, Torn}
  /\ pc \in [Run -> {"off", "walk", "hash", "scan", "save", "replace", "done"}]
  /\ cfg \in [Run -> Env]
  /\ entry \in [Run -> Entry \cup {None}]
  /\ \A r \in Run : pc[r] = "replace" => entry[r] # None
  /\ todo \in [Run -> SUBSET File]
  /\ fp \in [Run -> Fingerprint]
  /\ seen \in [Run -> [File -> Mark]]
  /\ result \in [Run -> Result]
  /\ quiet \in [Run -> BOOLEAN]

\* What a scan reads of the files as they are.
Live == [f \in File |-> Sight(env, f)]

\* What a scan of the files that a fingerprint describes reads.
Described(p) == [f \in File |-> IF f \notin p.names THEN None
                                ELSE IF f \in Hashed THEN p.hashes[f] ELSE "exists"]

\* A process during which nothing was written reports what a scan without the cache
\* would, its linters working or not: a hit reproduces the live result.
HitIsLive ==
  \A r \in Run : pc[r] = "done" /\ quiet[r] =>
    /\ result[r].of = Live
    /\ result[r].env = IF Live = NoFile THEN None ELSE env

\* The entry on disk, and every entry a process holds, is the result for its own
\* fingerprint, and of a scan that found an addon, whoever stored, loaded or rewrote it.
TrueEntry(e) ==
  e # None =>
    e.result.of = Described(e.fp) /\ e.result.of # NoFile /\ e.result.env = e.fp.env
EntriesAreTrue ==
  /\ cacheFile # Torn => TrueEntry(cacheFile)
  /\ \A r \in Run : TrueEntry(entry[r])

\* A process that dies while it saves leaves the entry it found, or the new one whole.
EntrySurvives == [][(cacheFile \in Entry) => (cacheFile' \in Entry)]_vars
=============================================================================
