--------------------------- MODULE ScanCacheProofs ---------------------------
(***************************************************************************)
(* What holds of ScanCache for any files, processes and configurations, as *)
(* long as no file is written while a process runs (Overlap = FALSE).      *)
(***************************************************************************)
EXTENDS ScanCache, TLAPS

\* The whole fingerprint of the files as they are.
Present == {f \in File : disk[f] # None}
Full(done) == [env |-> env, names |-> Present,
               hashes |-> [f \in File |-> IF f \in (Present \cap Hashed) \cap done THEN disk[f] ELSE None]]

\* What a scan without the cache reports of the files as they are.
LiveResult(res) == res.of = Live /\ res.env = IF Live = NoFile THEN None ELSE env

\* How far a process has come, when nothing was written since it began.
Undisturbed(r) ==
  /\ r \in Running => quiet[r] /\ cfg[r] = env
  /\ pc[r] = "walk" => Keyed(env) /\ fp[r] = Unhashed(env) /\ seen[r] = NoFile
  /\ pc[r] = "hash" => /\ Keyed(env) /\ todo[r] \subseteq Present \cap Hashed
                       /\ fp[r] = Full(File \ todo[r]) /\ seen[r] = NoFile
  /\ pc[r] = "scan" => /\ seen[r] = [f \in File |-> IF f \in todo[r] THEN None ELSE Sight(env, f)]
                       /\ Keyed(env) => fp[r] = Full(File)
  /\ pc[r] \in {"save", "replace"} => LiveResult(result[r])
  /\ pc[r] = "done" /\ quiet[r] => LiveResult(result[r])

CacheInv == TypeOK /\ EntriesAreTrue /\ \A r \in Run : Undisturbed(r)
-----------------------------------------------------------------------------
\* A process holds an entry only in memory of its own: ending keeps the types.
LEMMA ExitTypes ==
  ASSUME TypeOK, NEW r \in Run, NEW how \in {"off", "done"}, Exit(r, how)
  PROVE  /\ pc' = [pc EXCEPT ![r] = how]
         /\ pc' \in [Run -> {"off", "walk", "hash", "scan", "save", "replace", "done"}]
         /\ cfg' \in [Run -> Env] /\ todo' \in [Run -> SUBSET File]
         /\ entry' \in [Run -> Entry \cup {None}]
         /\ \A q \in Run : pc'[q] = "replace" => entry'[q] # None
         /\ fp' \in [Run -> Fingerprint] /\ seen' \in [Run -> [File -> Mark]]
<1> NoFile \in [File -> Text] /\ NoFile \in [File -> Mark] BY DEF NoFile, Text, Mark
<1> 0 \in Env BY CacheAssumption DEF Env
<1> Unhashed(0) \in Fingerprint BY DEF Unhashed, Fingerprint
<1> USE DEF TypeOK, Exit, Goto
<1>1. pc' = [pc EXCEPT ![r] = how] /\ pc' \in [Run -> {"off", "walk", "hash", "scan", "save", "replace", "done"}]
  OBVIOUS
<1>2. cfg' \in [Run -> Env] /\ todo' \in [Run -> SUBSET File]
  OBVIOUS
<1>3. entry' \in [Run -> Entry \cup {None}] /\ \A q \in Run : pc'[q] = "replace" => entry'[q] # None
  OBVIOUS
<1>4. fp' \in [Run -> Fingerprint] /\ seen' \in [Run -> [File -> Mark]]
  OBVIOUS
<1> QED BY <1>1, <1>2, <1>3, <1>4

\* Every step keeps the types, whether files are written meanwhile or not.
LEMMA TypeStep == TypeOK /\ [Next]_vars => TypeOK'
<1> SUFFICES ASSUME TypeOK, [Next]_vars PROVE TypeOK'
  OBVIOUS
<1> NoFile \in [File -> Text] /\ NoFile \in [File -> Mark] BY DEF NoFile, Text, Mark
<1> NoResult \in Result BY DEF NoResult, Result
<1>1. CASE UNCHANGED vars
  BY <1>1 DEF vars, TypeOK
<1>2. CASE \E f \in File, c \in Text : Write(f, c)
  BY <1>2 DEF Write, process, TypeOK
<1>3. CASE Configure
  BY <1>3 DEF Configure, process, TypeOK
<1>4. ASSUME NEW r \in Run, Step(r) PROVE TypeOK'
  <2>1. CASE Start(r)
    <3>1. Unhashed(env) \in Fingerprint
      BY DEF TypeOK, Unhashed, Fingerprint
    <3>2. fp' \in [Run -> Fingerprint] /\ seen' \in [Run -> [File -> Mark]] /\ result' \in [Run -> Result]
      BY <2>1, <3>1 DEF Start, TypeOK
    <3>3. entry' \in [Run -> Entry \cup {None}] /\ cfg' \in [Run -> Env] /\ quiet' \in [Run -> BOOLEAN]
      BY <2>1 DEF Start, TypeOK
    <3>4. /\ pc' \in [Run -> {"off", "walk", "hash", "scan", "save", "replace", "done"}]
          /\ todo' \in [Run -> SUBSET File]
          /\ \A q \in Run : pc'[q] = "replace" => entry'[q] # None
      BY <2>1 DEF Start, Goto, TypeOK
    <3> QED BY <2>1, <3>2, <3>3, <3>4 DEF Start, TypeOK
  <2>2. CASE Walk(r)
    <3>1. fp' \in [Run -> Fingerprint]
      BY <2>2, SMTT(30) DEF Walk, TypeOK, Fingerprint
    <3> QED BY <2>2, <3>1 DEF Walk, Goto, TypeOK
  <2>3. CASE Lookup(r)
    <3>1. result' \in [Run -> Result] /\ todo' \in [Run -> SUBSET File]
      BY <2>3 DEF Lookup, Hit, TypeOK, Entry
    <3> QED BY <2>3, <3>1 DEF Lookup, Goto, TypeOK
  <2>4. CASE FinishScan(r)
    <3>1. PICK linted \in BOOLEAN :
            LET res == IF seen[r] = NoFile THEN NoResult
                       ELSE [env |-> cfg[r], of |-> seen[r], linted |-> linted]
            IN /\ result' = [result EXCEPT ![r] = res]
               /\ entry' = [entry EXCEPT ![r] = Stored(r, res)]
      BY <2>4 DEF FinishScan
    <3> DEFINE res == IF seen[r] = NoFile THEN NoResult
                      ELSE [env |-> cfg[r], of |-> seen[r], linted |-> linted]
    <3>2. res \in Result
      BY DEF TypeOK, Result
    <3>3. Stored(r, res) \in Entry \cup {None}
      BY <3>2 DEF Stored, TypeOK, Entry
    <3>4. result' \in [Run -> Result] /\ entry' \in [Run -> Entry \cup {None}]
      BY <3>1, <3>2, <3>3 DEF TypeOK
    <3>5. \A q \in Run : pc'[q] = "replace" => entry'[q] # None
      BY <2>4, <3>1 DEF FinishScan, Goto, TypeOK
    <3> QED BY <2>4, <3>4, <3>5 DEF FinishScan, Goto, TypeOK
  <2>5. CASE OpenTemp(r)
    <3>1. CASE Exit(r, "done")
      BY <2>5, <3>1, ExitTypes DEF OpenTemp, TypeOK
    <3>2. CASE /\ entry[r] # None /\ Goto(r, "replace")
               /\ UNCHANGED <<cfg, entry, todo, fp, seen>>
      BY <2>5, <3>2 DEF OpenTemp, Goto, TypeOK
    <3> QED BY <2>5, <3>1, <3>2 DEF OpenTemp
  <2>6. CASE Replace(r)
    <3>1. cacheFile' \in Entry \cup {None, Torn}
      BY <2>6 DEF Replace, TypeOK
    <3> QED BY <2>6, <3>1, ExitTypes DEF Replace, TypeOK
  <2>7. CASE Crash(r)
    BY <2>7, ExitTypes DEF Crash, TypeOK
  <2>8. ASSUME NEW f \in File, HashFile(r, f) PROVE TypeOK'
    <3>1. fp' \in [Run -> Fingerprint] /\ todo' \in [Run -> SUBSET File]
      BY <2>8, ZenonT(40) DEF HashFile, TypeOK, Fingerprint
    <3> QED BY <2>8, <3>1 DEF HashFile, TypeOK
  <2>9. ASSUME NEW f \in File, ReadFile(r, f) PROVE TypeOK'
    <3>1. Sight(cfg[r], f) \in Mark
      BY DEF Sight, Mark, Text, TypeOK
    <3>2. seen' \in [Run -> [File -> Mark]] /\ todo' \in [Run -> SUBSET File]
      BY <2>9, <3>1 DEF ReadFile, TypeOK
    <3> QED BY <2>9, <3>2 DEF ReadFile, TypeOK
  <2> QED BY <1>4, <2>1, <2>2, <2>3, <2>4, <2>5, <2>6, <2>7, <2>8, <2>9 DEF Step
<1> QED BY <1>1, <1>2, <1>3, <1>4 DEF Next

\* The types hold at first.
LEMMA TypeInit == Init => TypeOK
<1> SUFFICES ASSUME Init PROVE TypeOK
  OBVIOUS
<1> NoFile \in [File -> Text] /\ NoFile \in [File -> Mark] BY DEF NoFile, Text, Mark
<1> 0 \in Env BY CacheAssumption DEF Env
<1> Unhashed(0) \in Fingerprint BY DEF Unhashed, Fingerprint
<1> NoResult \in Result BY DEF NoResult, Result
<1> QED BY DEF Init, TypeOK

\* The state of the processes and of the cache file stays within its types, and a process
\* that is about to write the cache file has an entry to write.
THEOREM CacheTypes == Spec => []TypeOK
BY TypeInit, TypeStep, PTL DEF Spec

\* A process that dies while it saves leaves the old entry or the new one, never part of one.
THEOREM SavedWhole == Spec => EntrySurvives
<1>1. TypeOK /\ [Next]_vars => [(cacheFile \in Entry) => (cacheFile' \in Entry)]_vars
  <2> SUFFICES ASSUME TypeOK, Next, cacheFile \in Entry PROVE cacheFile' \in Entry
    BY DEF vars
  <2>1. CASE \E f \in File, c \in Text : Write(f, c)
    BY <2>1 DEF Write, process
  <2>2. CASE Configure
    BY <2>2 DEF Configure, process
  <2>3. ASSUME NEW r \in Run, Step(r) PROVE cacheFile' \in Entry
    <3>1. CASE Replace(r)
      BY <3>1 DEF Replace, TypeOK
    <3> QED BY <2>3, <3>1 DEF Step, Start, Walk, Lookup, FinishScan, OpenTemp, Crash, HashFile, ReadFile
  <2> QED BY <2>1, <2>2, <2>3 DEF Next
<1> QED BY <1>1, CacheTypes, PTL DEF Spec, EntrySurvives
-----------------------------------------------------------------------------
\* The contents that a whole fingerprint describes are those a scan reads.
LEMMA FullDescribes ==
  ASSUME Keyed(env)
  PROVE  Described(Full(File)) = Live /\ Full(File).env = env
<1>1. \A f \in File : Described(Full(File))[f] = Sight(env, f)
  BY CacheAssumption DEF Described, Full, Present, Sight, Keyed
<1> QED BY <1>1 DEF Described, Live, Full

\* Writing is left to the times when no process runs: then no process has come anywhere.
LEMMA WriteUndisturbs ==
  ASSUME TypeOK, MayWrite, Overlap = FALSE, UNCHANGED process, quiet' = [r \in Run |-> FALSE], NEW r \in Run
  PROVE  Undisturbed(r)'
<1>1. pc[r] \in {"off", "done"} /\ pc'[r] = pc[r] /\ quiet'[r] = FALSE
  BY DEF MayWrite, Running, process
<1> QED BY <1>1 DEF Undisturbed, Running

\* A process whose own variables do not change stays where it is.
LEMMA OthersUndisturbed ==
  ASSUME NEW q \in Run, Undisturbed(q), UNCHANGED <<disk, env>>,
         pc'[q] = pc[q], cfg'[q] = cfg[q], todo'[q] = todo[q], fp'[q] = fp[q],
         seen'[q] = seen[q], result'[q] = result[q], quiet'[q] = quiet[q]
  PROVE  Undisturbed(q)'
BY DEF Undisturbed, Running, Full, Present, Sight, LiveResult, Live

\* A step of one process leaves the variables of the others alone.
LEMMA OwnStep ==
  ASSUME TypeOK, NEW r \in Run, Step(r), NEW q \in Run \ {r}
  PROVE  /\ pc'[q] = pc[q] /\ cfg'[q] = cfg[q] /\ todo'[q] = todo[q] /\ fp'[q] = fp[q]
         /\ seen'[q] = seen[q] /\ result'[q] = result[q] /\ quiet'[q] = quiet[q]
         /\ entry'[q] = entry[q]
<1> USE DEF TypeOK, Goto
<1>1. CASE Start(r) BY <1>1 DEF Start
<1>2. CASE Walk(r) BY <1>2 DEF Walk
<1>3. CASE Lookup(r) BY <1>3 DEF Lookup
<1>4. CASE FinishScan(r) BY <1>4 DEF FinishScan
<1>5. CASE OpenTemp(r) BY <1>5 DEF OpenTemp, Exit
<1>6. CASE Replace(r) BY <1>6 DEF Replace, Exit
<1>7. CASE Crash(r) BY <1>7 DEF Crash, Exit
<1>8. CASE \E f \in File : HashFile(r, f) BY <1>8 DEF HashFile
<1>9. CASE \E f \in File : ReadFile(r, f) BY <1>9 DEF ReadFile
<1> QED BY <1>1, <1>2, <1>3, <1>4, <1>5, <1>6, <1>7, <1>8, <1>9 DEF Step

\* What a process that ends leaves behind.
LEMMA ExitUndisturbed ==
  ASSUME TypeOK, NEW r \in Run, NEW how \in {"off", "done"}, Exit(r, how), UNCHANGED <<disk, env>>,
         how = "done" /\ quiet'[r] => LiveResult(result'[r])
  PROVE  Undisturbed(r)'
<1>1. pc'[r] = how
  BY DEF Exit, Goto, TypeOK
<1>2. LiveResult(result'[r]) = LiveResult(result[r])' 
  BY DEF LiveResult, Live, Sight
<1> QED BY <1>1, <1>2 DEF Undisturbed, Running

\* The entries stay true when the one on disk and those in memory come from each other.
LEMMA TrueStep ==
  ASSUME EntriesAreTrue, TypeOK, cacheFile' = cacheFile \/ \E r \in Run : cacheFile' = entry[r],
         \A r \in Run : entry'[r] \in {entry[r], None} \/ (cacheFile # Torn /\ entry'[r] = cacheFile)
  PROVE  EntriesAreTrue'
BY DEF EntriesAreTrue, TrueEntry, Described

\* The inductive invariant: a running process has seen the files and the configuration as
\* they are, so that what it stores is true and what it finds stored is live.
LEMMA CacheInvStep == Overlap = FALSE /\ CacheInv /\ TypeOK' /\ [Next]_vars => CacheInv'
<1> SUFFICES ASSUME Overlap = FALSE, CacheInv, TypeOK', [Next]_vars
             PROVE  EntriesAreTrue' /\ \A q \in Run : Undisturbed(q)'
  BY DEF CacheInv
<1>t. TypeOK /\ EntriesAreTrue /\ \A q \in Run : Undisturbed(q)
  BY DEF CacheInv
<1>1. CASE UNCHANGED vars
  <2>1. EntriesAreTrue'
    BY <1>1, <1>t, TrueStep DEF vars
  <2>2. \A q \in Run : Undisturbed(q)'
    BY <1>1, <1>t, OthersUndisturbed DEF vars
  <2> QED BY <2>1, <2>2
<1>2. CASE (\E f \in File, c \in Text : Write(f, c)) \/ Configure
  <2>1. MayWrite /\ UNCHANGED process /\ quiet' = [r \in Run |-> FALSE]
    BY <1>2 DEF Write, Configure
  <2>2. EntriesAreTrue'
    BY <2>1, <1>t, TrueStep DEF process
  <2> QED BY <2>1, <2>2, <1>t, WriteUndisturbs
<1>3. ASSUME NEW r \in Run, Step(r) PROVE EntriesAreTrue' /\ \A q \in Run : Undisturbed(q)'
  <2> USE <1>t
  <2>o. \A q \in Run \ {r} : /\ pc'[q] = pc[q] /\ cfg'[q] = cfg[q] /\ todo'[q] = todo[q] /\ fp'[q] = fp[q]
                             /\ seen'[q] = seen[q] /\ result'[q] = result[q] /\ quiet'[q] = quiet[q]
                             /\ entry'[q] = entry[q]
    BY <1>3, OwnStep
  <2>d. UNCHANGED <<disk, env>>
    BY <1>3 DEF Step, Start, Walk, Lookup, FinishScan, OpenTemp, Replace, Crash, HashFile, ReadFile
  <2>u. \A q \in Run \ {r} : Undisturbed(q)'
    BY <2>o, <2>d, OthersUndisturbed
  <2> SUFFICES EntriesAreTrue' /\ Undisturbed(r)'
    BY <2>u
  <2>1. CASE Start(r)
    <3>1. UNCHANGED cacheFile /\ (entry'[r] = None \/ (cacheFile # Torn /\ entry'[r] = cacheFile))
      BY <2>1 DEF Start, TypeOK
    <3>2. EntriesAreTrue'
      BY <3>1, <2>o, TrueStep
    <3>3. /\ quiet'[r] = TRUE /\ cfg'[r] = env /\ seen'[r] = NoFile
          /\ fp'[r] = Unhashed(env)
      BY <2>1 DEF Start, TypeOK
    <3>4. CASE Keyed(env)
      <4>1. pc'[r] = "walk"
        BY <2>1, <3>4 DEF Start, Goto, TypeOK
      <4> QED BY <3>2, <3>3, <3>4, <4>1, <2>d DEF Undisturbed, Unhashed, Keyed
    <3>5. CASE ~Keyed(env)
      <4>1. pc'[r] = "scan" /\ todo'[r] = File
        BY <2>1, <3>5 DEF Start, Goto, TypeOK
      <4>2. seen'[r] = [f \in File |-> IF f \in todo'[r] THEN None ELSE Sight(env, f)']
        BY <3>3, <4>1 DEF NoFile
      <4> QED BY <3>2, <3>3, <3>5, <4>1, <4>2, <2>d DEF Undisturbed, Keyed, Sight
    <3> QED BY <3>4, <3>5
  <2>2. CASE Walk(r)
    <3>1. EntriesAreTrue'
      BY <2>2, <2>o, TrueStep DEF Walk
    <3>2. pc[r] = "walk" /\ pc'[r] = "hash" /\ seen'[r] = seen[r] /\ cfg'[r] = cfg[r] /\ quiet'[r] = quiet[r]
      BY <2>2 DEF Walk, Goto, TypeOK
    <3>3. Keyed(env) /\ fp[r] = Unhashed(env) /\ seen[r] = NoFile /\ quiet[r] /\ cfg[r] = env
      BY <3>2 DEF Undisturbed, Running
    <3>4. todo'[r] = Present \cap Hashed /\ fp'[r] = [fp[r] EXCEPT !.names = Present]
      BY <2>2 DEF Walk, Present, TypeOK
    <3>5. fp'[r] = [env |-> env, names |-> Present, hashes |-> NoFile]
      BY <3>3, <3>4 DEF Unhashed
    <3>6. \A f \in File : f \notin (Present \cap Hashed) \cap (File \ todo'[r])
      BY <3>4
    <3>7. fp'[r] = Full(File \ todo'[r])
      BY <3>5, <3>6 DEF Full, NoFile
    <3>8. (todo[r] \subseteq Present \cap Hashed)' /\ (fp[r] = Full(File \ todo[r]))'
      BY <3>4, <3>7, <2>d DEF Full, Present
    <3> QED BY <3>1, <3>2, <3>3, <3>8, <2>d DEF Undisturbed, Running, Keyed
  <2>3. CASE Lookup(r)
    <3>1. EntriesAreTrue'
      BY <2>3, <2>o, TrueStep DEF Lookup
    <3>2. /\ Keyed(env) /\ fp[r] = Full(File \ todo[r]) /\ todo[r] = {} /\ seen[r] = NoFile
          /\ quiet[r] /\ cfg[r] = env
      BY <2>3 DEF Lookup, Undisturbed, Running
    <3>3. fp[r] = Full(File)
      BY <3>2
    <3>4. CASE Hit(r) /\ Goto(r, "save") /\ result' = [result EXCEPT ![r] = entry[r].result]
      <4>1. entry[r] # None /\ entry[r] \in Entry /\ entry[r].fp = Full(File) /\ result'[r] = entry[r].result
        BY <3>3, <3>4 DEF Hit, TypeOK
      <4>2. LiveResult(entry[r].result)
        BY <4>1, <3>2, FullDescribes DEF EntriesAreTrue, TrueEntry, LiveResult
      <4>4. LiveResult(result[r])'
        BY <4>1, <4>2, <2>d DEF LiveResult, Live, Sight
      <4>5. pc'[r] = "save" /\ quiet'[r] = quiet[r] /\ cfg'[r] = cfg[r]
        BY <2>3, <3>4 DEF Lookup, Goto, TypeOK
      <4> QED BY <3>1, <3>2, <4>4, <4>5, <2>d DEF Undisturbed, Running
    <3>5. CASE Goto(r, "scan") /\ todo' = [todo EXCEPT ![r] = File]
      <4>1. /\ pc'[r] = "scan" /\ todo'[r] = File /\ seen'[r] = NoFile /\ fp'[r] = Full(File)
            /\ quiet'[r] = quiet[r] /\ cfg'[r] = cfg[r]
        BY <2>3, <3>2, <3>3, <3>5 DEF Lookup, Goto, TypeOK
      <4>2. seen'[r] = [f \in File |-> IF f \in todo'[r] THEN None ELSE Sight(env, f)']
        BY <4>1 DEF NoFile
      <4>3. Full(File)' = Full(File)
        BY <2>d DEF Full, Present
      <4> QED BY <3>1, <3>2, <4>1, <4>2, <4>3, <2>d DEF Undisturbed, Running, Sight
    <3> QED BY <2>3, <3>4, <3>5 DEF Lookup
  <2>4. CASE FinishScan(r)
    <3>1. PICK linted \in BOOLEAN :
            LET res == IF seen[r] = NoFile THEN NoResult
                       ELSE [env |-> cfg[r], of |-> seen[r], linted |-> linted]
            IN /\ result' = [result EXCEPT ![r] = res]
               /\ entry' = [entry EXCEPT ![r] = Stored(r, res)]
      BY <2>4 DEF FinishScan
    <3> DEFINE res == IF seen[r] = NoFile THEN NoResult
                      ELSE [env |-> cfg[r], of |-> seen[r], linted |-> linted]
    <3>2. /\ seen[r] = Live /\ cfg[r] = env /\ quiet[r] /\ (Keyed(env) => fp[r] = Full(File))
      BY <2>4 DEF FinishScan, Undisturbed, Running, Live
    <3>3. LiveResult(res)
      BY <3>2 DEF LiveResult, NoResult
    <3>4. Stored(r, res) = entry[r] \/ TrueEntry(Stored(r, res))
      BY <3>2, FullDescribes DEF Stored, TrueEntry
    <3>5. result'[r] = res /\ entry'[r] = Stored(r, res)
      BY <3>1 DEF TypeOK
    <3>6. \A q \in Run : TrueEntry(entry'[q])
      BY <3>4, <3>5, <2>o DEF EntriesAreTrue
    <3>7. EntriesAreTrue'
      BY <3>6, <2>4 DEF EntriesAreTrue, TrueEntry, Described, FinishScan
    <3>8. LiveResult(result[r])'
      BY <3>3, <3>5, <2>d DEF LiveResult, Live, Sight
    <3>9. pc'[r] = "save" /\ quiet'[r] = quiet[r] /\ cfg'[r] = cfg[r]
      BY <2>4 DEF FinishScan, Goto, TypeOK
    <3> QED BY <3>2, <3>7, <3>8, <3>9, <2>d DEF Undisturbed, Running
  <2>5. CASE OpenTemp(r)
    <3>0. pc[r] = "save" /\ quiet[r] /\ cfg[r] = env /\ LiveResult(result[r])
      BY <2>5 DEF OpenTemp, Undisturbed, Running
    <3>1. CASE Exit(r, "done")
      <4>1. entry'[r] = None
        BY <3>1 DEF Exit, TypeOK
      <4>2. EntriesAreTrue'
        BY <2>5, <4>1, <2>o, TrueStep DEF OpenTemp
      <4>3. result'[r] = result[r] /\ LiveResult(result'[r])
        BY <2>5, <3>0 DEF OpenTemp
      <4> QED BY <3>1, <4>2, <4>3, <2>d, ExitUndisturbed
    <3>2. CASE /\ entry[r] # None /\ Goto(r, "replace")
               /\ UNCHANGED <<cfg, entry, todo, fp, seen>>
      <4>1. EntriesAreTrue'
        BY <2>5, <3>2, TrueStep DEF OpenTemp
      <4>2. pc'[r] = "replace" /\ quiet'[r] = quiet[r] /\ cfg'[r] = cfg[r] /\ result'[r] = result[r]
        BY <2>5, <3>2 DEF OpenTemp, Goto, TypeOK
      <4> QED BY <3>0, <4>1, <4>2, <2>d DEF Undisturbed, Running, LiveResult, Live, Sight
    <3> QED BY <2>5, <3>1, <3>2 DEF OpenTemp
  <2>6. CASE Replace(r)
    <3>1. entry'[r] = None
      BY <2>6 DEF Replace, Exit, TypeOK
    <3>2. EntriesAreTrue'
      BY <2>6, <3>1, <2>o, TrueStep DEF Replace
    <3>3. LiveResult(result'[r])
      BY <2>6 DEF Replace, Undisturbed
    <3> QED BY <2>6, <3>2, <3>3, <2>d, ExitUndisturbed DEF Replace
  <2>7. CASE Crash(r)
    <3>1. entry'[r] = None /\ quiet'[r] = FALSE
      BY <2>7 DEF Crash, Exit, TypeOK
    <3>2. EntriesAreTrue'
      BY <2>7, <3>1, <2>o, TrueStep DEF Crash
    <3> QED BY <2>7, <3>1, <3>2, <2>d, ExitUndisturbed DEF Crash
  <2>8. ASSUME NEW f \in File, HashFile(r, f) PROVE EntriesAreTrue' /\ Undisturbed(r)'
    <3>1. EntriesAreTrue'
      BY <2>8, TrueStep DEF HashFile
    <3>2. /\ Keyed(env) /\ fp[r] = Full(File \ todo[r]) /\ seen[r] = NoFile
          /\ quiet[r] /\ cfg[r] = env /\ f \in todo[r]
      BY <2>8 DEF HashFile, Undisturbed, Running
    <3>3. /\ todo'[r] = todo[r] \ {f} /\ fp'[r] = [fp[r] EXCEPT !.hashes[f] = disk[f]]
          /\ pc'[r] = "hash" /\ seen'[r] = seen[r] /\ quiet'[r] = quiet[r] /\ cfg'[r] = cfg[r]
      BY <2>8 DEF HashFile, TypeOK
    <3>4. todo[r] \subseteq Present \cap Hashed
      BY <2>8 DEF HashFile, Undisturbed
    <3>5. fp'[r] = Full(File \ todo'[r])
      BY <3>2, <3>3, <3>4 DEF Full
    <3>6. (todo[r] \subseteq Present \cap Hashed)' /\ (fp[r] = Full(File \ todo[r]))'
      BY <3>3, <3>4, <3>5, <2>d DEF Full, Present
    <3> QED BY <3>1, <3>2, <3>3, <3>6, <2>d DEF Undisturbed, Running, Keyed
  <2>9. ASSUME NEW f \in File, ReadFile(r, f) PROVE EntriesAreTrue' /\ Undisturbed(r)'
    <3>1. EntriesAreTrue'
      BY <2>9, TrueStep DEF ReadFile
    <3>2. /\ seen[r] = [g \in File |-> IF g \in todo[r] THEN None ELSE Sight(env, g)]
          /\ quiet[r] /\ cfg[r] = env /\ (Keyed(env) => fp[r] = Full(File))
      BY <2>9 DEF ReadFile, Undisturbed, Running
    <3>3. /\ todo'[r] = todo[r] \ {f} /\ seen'[r] = [seen[r] EXCEPT ![f] = Sight(env, f)]
          /\ pc'[r] = "scan" /\ fp'[r] = fp[r] /\ quiet'[r] = quiet[r] /\ cfg'[r] = cfg[r]
      BY <2>9, <3>2 DEF ReadFile, TypeOK
    <3>4. seen'[r] = [g \in File |-> IF g \in todo'[r] THEN None ELSE Sight(env, g)]
      BY <3>2, <3>3
    <3> QED BY <3>1, <3>2, <3>3, <3>4, <2>d DEF Undisturbed, Running, Full, Present, Sight
  <2> QED BY <1>3, <2>1, <2>2, <2>3, <2>4, <2>5, <2>6, <2>7, <2>8, <2>9 DEF Step
<1> QED BY <1>1, <1>2, <1>3 DEF Next

\* The invariant of the cache holds at first.
LEMMA CacheInvInit == Init => CacheInv
<1> SUFFICES ASSUME Init PROVE CacheInv
  OBVIOUS
<1>1. EntriesAreTrue
  BY DEF Init, EntriesAreTrue, TrueEntry
<1>2. \A r \in Run : Undisturbed(r)
  BY DEF Init, Undisturbed, Running
<1> QED BY <1>1, <1>2, TypeInit DEF CacheInv

\* Without overlapping scans it holds of every behaviour.
LEMMA CacheInvariant == ASSUME Overlap = FALSE PROVE Spec => []CacheInv
<1>1. CacheInv => TypeOK
  BY DEF CacheInv
<1>2. CacheInv /\ [Next]_vars => CacheInv'
  BY <1>1, TypeStep, CacheInvStep
<1> QED BY <1>2, CacheInvInit, PTL DEF Spec

\* However many processes share the cache file, crash while they save and rewrite what they
\* loaded, every entry is the result of scanning what its fingerprint describes.
THEOREM CacheEntriesTrue == ASSUME Overlap = FALSE PROVE Spec => []EntriesAreTrue
<1>1. CacheInv => EntriesAreTrue
  BY DEF CacheInv
<1> QED BY <1>1, CacheInvariant, PTL

\* Then a hit reproduces the live result.
THEOREM CacheHitLive == ASSUME Overlap = FALSE PROVE Spec => []HitIsLive
<1>1. CacheInv => HitIsLive
  BY DEF CacheInv, HitIsLive, Undisturbed, LiveResult
<1> QED BY <1>1, CacheInvariant, PTL
=============================================================================
