-------------------------- MODULE ScanServerProofs --------------------------
(* Proofs about ScanServer, for any folders, files and bounds. *)
EXTENDS ScanServer, SetInduction, SequenceTheorems, TLAPS

(***************************************************************************)
(* Facts about the helpers.                                                *)
(***************************************************************************)

\* set_roots never yields something that is not a directory of the editor's.
LEMMA RootsAreRoots == ASSUME NEW folders PROVE RootsOf(folders) \subseteq Root
  BY DEF RootsOf

\* Two scan roots never share a file: a nested folder is not a root of its own.
LEMMA RootsDisjoint ==
  ASSUME NEW folders, NEW r \in RootsOf(folders), NEW s \in RootsOf(folders),
         FilesOf[r] \cap FilesOf[s] # {}
  PROVE  r = s
  BY FoldersAssumption DEF RootsOf, FoldersAssumption

\* The snapshot with no file in it is a snapshot.
LEMMA NothingType == Nothing \in Snapshot
  BY DEF Nothing, Snapshot

\* request_scan touches the loop state of its folder only, and keeps it typed.
LEMMA RequestScanType ==
  ASSUME TypeOK, NEW r \in Root, RequestScan(r)
  PROVE  /\ dirty' \subseteq Root
         /\ phase' \in [Root -> Phase]
         /\ queue' \in Seq(Root)
  <1> /\ dirty \subseteq Root /\ phase \in [Root -> Phase] /\ queue \in Seq(Root)
      /\ "queued" \in Phase
    BY DEF TypeOK, Phase
  <1> QED BY DEF RequestScan

\* Queueing a folder again keeps the types.
LEMMA NextRoundType ==
  ASSUME TypeOK, NEW r \in Root, NextRound(r)
  PROVE  /\ dirty' \subseteq Root
         /\ phase' \in [Root -> Phase]
         /\ queue' \in Seq(Root)
  <1> /\ dirty \subseteq Root /\ phase \in [Root -> Phase] /\ queue \in Seq(Root)
      /\ "queued" \in Phase /\ "idle" \in Phase
    BY DEF TypeOK, Phase
  <1> QED BY DEF NextRound

\* So does the end of a scan.
LEMMA EndedType ==
  ASSUME TypeOK, NEW r \in Root, Ended(r)
  PROVE  /\ answered' \in [Root -> Snapshot]
         /\ seen' \in [Root -> Snapshot]
         /\ attempt' \in [Root -> Snapshot]
  BY NothingType DEF Ended, TypeOK

\* What the disk holds of a folder's files is a snapshot.
LEMMA AttemptType ==
  ASSUME TypeOK, NEW r \in Root PROVE DiskOf(r) \in Snapshot
  BY DEF DiskOf, Snapshot, TypeOK

\* A published URI is one of a file of the folder.
LEMMA UrisType ==
  ASSUME NEW r \in Root
  PROVE  /\ Marked(r) \subseteq URI
         /\ \A u \in Marked(r) : u.file \in FilesOf[r] /\ seen[r][u.file] \in Flagged
  <1> FilesOf[r] \subseteq File /\ Linked \subseteq Path
    BY FoldersAssumption DEF FoldersAssumption
  <1>1. \A p, f : Uri(p, f).file = f
    BY DEF Uri
  <1>2. \A p, f : f \in File => Uri(p, f) \in URI
    BY DEF Uri, URI
  <1>3. QED BY <1>1, <1>2 DEF Marked

\* Publishing keeps the types.
LEMMA PublishType ==
  ASSUME TypeOK, NEW r \in Root, NEW uris \in SUBSET URI, Publish(r, uris)
  PROVE  /\ findings' \in [Root -> Snapshot] /\ published' \in [Root -> SUBSET URI]
         /\ view' \in [URI -> Version \cup {Absent}]
  <1> /\ seen \in [Root -> Snapshot] /\ published \in [Root -> SUBSET URI]
      /\ findings \in [Root -> Snapshot] /\ view \in [URI -> Version \cup {Absent}]
    BY DEF TypeOK
  <1>1. \A u \in URI : seen[r][u.file] \in Version \cup {Absent}
    BY DEF Snapshot, URI
  <1>2. QED BY <1>1 DEF Publish

\* Asking for a probe keeps the types.
LEMMA AskProbeType ==
  ASSUME TypeOK, NEW r \in Root,
         phase' = [phase EXCEPT ![r] = "probing"], queue' = Append(queue, r)
  PROVE  phase' \in [Root -> Phase] /\ queue' \in Seq(Root)
  <1> phase \in [Root -> Phase] /\ queue \in Seq(Root) /\ "probing" \in Phase
    BY DEF TypeOK, Phase
  <1> QED OBVIOUS

-----------------------------------------------------------------------------
\* The types hold at first.
LEMMA InitType == Init => TypeOK
  <1> SUFFICES ASSUME Init PROVE TypeOK
    OBVIOUS
  <1>1. view \in [URI -> Version \cup {Absent}]
    BY DEF Init
  <1>2. /\ seen \in [Root -> Snapshot] /\ attempt \in [Root -> Snapshot]
        /\ answered \in [Root -> Snapshot] /\ findings \in [Root -> Snapshot]
    BY NothingType DEF Init
  <1>3. published \in [Root -> SUBSET URI] /\ starting \in [Root -> Nat]
    BY DEF Init
  <1>4. phase \in [Root -> Phase] /\ queue \in Seq(Root)
    BY DEF Init, Phase
  <1>5. inflight \in [File -> Nat] /\ disk \in [File -> Version] /\ events \in 0..MaxEvents
    BY BoundsAssumption DEF Init, BoundsAssumption
  <1>6. QED BY <1>1, <1>2, <1>3, <1>4, <1>5 DEF Init, TypeOK

\* Every step keeps them.
LEMMA StepType == TypeOK /\ [Next]_vars => TypeOK'
  <1> SUFFICES ASSUME TypeOK, [Next]_vars PROVE TypeOK'
    OBVIOUS
  <1> USE DEF client, jobs, scan, shown, outcome, memory, TypeOK
  <1>1. ASSUME NEW f \in File, Save(f) PROVE TypeOK'
    <2>1. disk' \in [File -> Version] /\ inflight' \in [File -> Nat]
      BY <1>1, BoundsAssumption DEF Save, Version, BoundsAssumption
    <2>2. QED BY <1>1, <2>1 DEF Save
  <1>2. ASSUME NEW f \in File, DidSave(f) PROVE TypeOK'
    <2>1. inflight' \in [File -> Nat]
      BY <1>2 DEF DidSave
    <2>2. QED BY <1>2, <2>1, RootsAreRoots DEF DidSave, Owners, roots
  <1>3. ASSUME NEW r \in Root, NEW f \in File, DisableRule(r, f) PROVE TypeOK'
    <2>1. disk' \in [File -> Version]
      BY <1>3, BoundsAssumption DEF DisableRule, Version, BoundsAssumption
    <2>2. QED BY <1>3, <2>1, RequestScanType DEF DisableRule
  <1>4. ASSUME Rescan PROVE TypeOK'
    <2>1. starting' \in [Root -> Nat] /\ events' \in 0..MaxEvents
      BY <1>4, BoundsAssumption DEF Rescan, Gather, BoundsAssumption
    <2>2. QED BY <1>4, <2>1, RootsAreRoots DEF Rescan, roots
  <1>5. ASSUME NEW folders, ChangeRoots(folders) PROVE TypeOK'
    <2>1. starting' \in [Root -> Nat] /\ events' \in 0..MaxEvents
      BY <1>5, BoundsAssumption DEF ChangeRoots, Gather, BoundsAssumption
    <2>2. findings' \in [Root -> Snapshot] /\ answered' \in [Root -> Snapshot]
      BY <1>5, NothingType DEF ChangeRoots
    <2>3. published' \in [Root -> SUBSET URI] /\ view' \in [URI -> Version \cup {Absent}]
      BY <1>5 DEF ChangeRoots
    <2>4. QED BY <1>5, <2>1, <2>2, <2>3, RootsAreRoots DEF ChangeRoots, roots
  <1>6. ASSUME NEW r \in Root, StartRequest(r) PROVE TypeOK'
    <2>1. starting' \in [Root -> Nat]
      BY <1>6 DEF StartRequest
    <2>2. QED BY <1>6, <2>1, RequestScanType DEF StartRequest
  <1>7. ASSUME NEW r \in Root, SaveTimer(r) PROVE TypeOK'
    BY <1>7, RequestScanType DEF SaveTimer
  <1>8. ASSUME NEW r \in Root, StartScan(r) PROVE TypeOK'
    <2>1. phase' \in [Root -> Phase]
      BY <1>8 DEF StartScan, Phase
    <2>2. seen' \in [Root -> Snapshot] /\ attempt' \in [Root -> Snapshot]
      BY <1>8, NothingType, AttemptType DEF StartScan
    <2>3. QED BY <1>8, <2>1, <2>2 DEF StartScan
  <1>9. ASSUME NEW r \in Root, FailEarly(r) PROVE TypeOK'
    <2>1. phase' \in [Root -> Phase] /\ queue' \in Seq(Root)
      BY <1>9 DEF FailEarly, Phase, Working
    <2>2. attempt' \in [Root -> Snapshot]
      BY <1>9, AttemptType DEF FailEarly
    <2>3. QED BY <1>9, <2>1, <2>2 DEF FailEarly
  <1>10. ASSUME NEW r \in Root, NEW f \in File, ReadFile(r, f) PROVE TypeOK'
    <2>1. seen' \in [Root -> Snapshot]
      BY <1>10 DEF ReadFile, Snapshot
    <2>2. QED BY <1>10, <2>1 DEF ReadFile
  <1>11. ASSUME NEW r \in Root, EndScan(r) PROVE TypeOK'
    <2>1. phase' = [phase EXCEPT ![r] = "scanned"] \/ phase' = [phase EXCEPT ![r] = "failed"]
      BY <1>11 DEF EndScan
    <2>2. phase' \in [Root -> Phase]
      BY <2>1 DEF Phase
    <2>3. queue' \in Seq(Root)
      BY <1>11 DEF EndScan, Working
    <2>4. QED BY <1>11, <2>2, <2>3 DEF EndScan
  <1>12. ASSUME NEW r \in Root, Probe(r) PROVE TypeOK'
    <2>1. phase' \in [Root -> Phase] /\ queue' \in Seq(Root)
      BY <1>12 DEF Probe, Phase, Working
    <2>2. QED BY <1>12, <2>1 DEF Probe
  <1>13. ASSUME NEW r \in Root, ResumeFailed(r) PROVE TypeOK'
    BY <1>13, NextRoundType, EndedType DEF ResumeFailed
  <1>14. ASSUME NEW r \in Root, ResumeClosed(r) PROVE TypeOK'
    <2>1. phase' \in [Root -> Phase]
      BY <1>14 DEF ResumeClosed, Phase
    <2>2. QED BY <1>14, <2>1, EndedType DEF ResumeClosed
  <1>15. ASSUME NEW r \in Root, ResumeScanned(r) PROVE TypeOK'
    <2>1. /\ findings' \in [Root -> Snapshot] /\ published' \in [Root -> SUBSET URI]
          /\ view' \in [URI -> Version \cup {Absent}]
      BY <1>15, PublishType, UrisType DEF ResumeScanned
    <2>2. dirty' \subseteq Root /\ phase' \in [Root -> Phase] /\ queue' \in Seq(Root)
      BY <1>15, NextRoundType, AskProbeType DEF ResumeScanned
    <2>3. QED BY <1>15, <2>1, <2>2, EndedType DEF ResumeScanned, WarnedAfter
  <1>16. ASSUME NEW r \in Root, ResumeProbed(r) PROVE TypeOK'
    BY <1>16, NextRoundType DEF ResumeProbed
  <1>17. ASSUME UNCHANGED vars PROVE TypeOK'
    BY <1>17 DEF vars
  <1>18. QED
    BY <1>1, <1>2, <1>3, <1>4, <1>5, <1>6, <1>7, <1>8, <1>9, <1>10, <1>11, <1>12,
       <1>13, <1>14, <1>15, <1>16, <1>17
       DEF Next, ChangeFolders, Worker, Resume

\* Type correctness: every variable but the client's own folder list has its type.
THEOREM TypeCorrect == Spec => []TypeOK
  <1>1. QED BY InitType, StepType, PTL DEF Spec

-----------------------------------------------------------------------------
(***************************************************************************)
(* How the loop helpers move a folder's scan loop.                         *)
(***************************************************************************)

\* A request either joins a running loop, starts one, or is for a closed folder.
LEMMA RequestScanStep ==
  ASSUME TypeOK, NEW r \in Root, RequestScan(r)
  PROVE  /\ \A s \in Root : phase'[s] = phase[s] \/ (phase[s] = "idle" /\ phase'[s] = "queued")
         /\ \A s \in Root : s \in dirty /\ phase[s] # "idle" => s \in dirty'
         /\ r \in roots => phase'[r] = "queued" \/ (r \in dirty' /\ phase'[r] # "idle")
  BY DEF RequestScan, TypeOK

\* At the end of a round the loop goes on exactly when a request came meanwhile.
LEMMA NextRoundStep ==
  ASSUME TypeOK, NEW r \in Root, NextRound(r)
  PROVE  /\ \A s \in Root \ {r} : phase'[s] = phase[s] /\ (s \in dirty <=> s \in dirty')
         /\ phase'[r] = IF r \in dirty THEN "queued" ELSE "idle"
  BY DEF NextRound, TypeOK

-----------------------------------------------------------------------------
\* In every step a folder's answer stays about its own files.
LEMMA OwnFilesStep == TypeOK /\ OwnFilesOnly /\ [Next]_vars => OwnFilesOnly'
  <1> SUFFICES ASSUME TypeOK, OwnFilesOnly, [Next]_vars,
                      NEW r \in Root, NEW f \in File \ FilesOf[r]
               PROVE  seen'[r][f] = Absent /\ findings'[r][f] = Absent
    BY DEF OwnFilesOnly
  <1> USE DEF client, jobs, scan, shown, outcome, memory
  <1>0. /\ seen[r][f] = Absent /\ findings[r][f] = Absent
        /\ seen \in [Root -> Snapshot] /\ findings \in [Root -> Snapshot]
        /\ attempt \in [Root -> Snapshot]
    BY DEF OwnFilesOnly, TypeOK
  <1>1. CASE UNCHANGED <<seen, findings>>
    BY <1>0, <1>1
  <1>2. ASSUME NEW folders, ChangeRoots(folders)
        PROVE  seen'[r][f] = Absent /\ findings'[r][f] = Absent
    BY <1>0, <1>2 DEF ChangeRoots, Nothing
  <1>3. ASSUME NEW s \in Root, NEW g \in File, ReadFile(s, g)
        PROVE  seen'[r][f] = Absent /\ findings'[r][f] = Absent
    BY <1>0, <1>3 DEF ReadFile, Snapshot
  <1>4. ASSUME NEW s \in Root, StartScan(s)
        PROVE  seen'[r][f] = Absent /\ findings'[r][f] = Absent
    BY <1>0, <1>4 DEF StartScan, Nothing
  <1>5. ASSUME NEW s \in Root, Resume(s)
        PROVE  seen'[r][f] = Absent /\ findings'[r][f] = Absent
    BY <1>0, <1>5 DEF Resume, ResumeFailed, ResumeClosed, ResumeScanned, ResumeProbed,
                      Ended, Publish, Nothing
  <1>6. QED
    BY <1>1, <1>2, <1>3, <1>4, <1>5
       DEF Next, vars, ChangeFolders, Worker, Save, DidSave, DisableRule, Rescan,
           StartRequest, SaveTimer, FailEarly, EndScan, Probe

\* Absent is below every version.
LEMMA VersionsAreOrdered ==
  /\ Absent = -1 /\ \A v \in Version \cup {Absent} : v \in Int /\ Absent <= v
  /\ \A v \in Version : v # Absent
  BY BoundsAssumption DEF BoundsAssumption, Version, Absent

\* Reading, ending and publishing a scan keep the versions in order.
LEMMA ReadsStep == TypeOK /\ ReadsAreCurrent /\ [Next]_vars => ReadsAreCurrent'
  <1> DEFINE Reads(r, f) ==
        /\ seen[r][f] <= disk[f] /\ attempt[r][f] <= disk[f] /\ findings[r][f] <= disk[f]
        /\ phase[r] \in {"scanning", "scanned"} /\ seen[r][f] # Absent
             => attempt[r][f] <= seen[r][f] /\ findings[r][f] <= seen[r][f]
        /\ phase[r] = "scanned" => seen[r][f] # Absent
  <1> SUFFICES ASSUME TypeOK, ReadsAreCurrent, [Next]_vars,
                      NEW r \in Root, NEW f \in FilesOf[r]
               PROVE  Reads(r, f)'
    BY DEF ReadsAreCurrent
  <1> USE DEF client, jobs, scan, shown, outcome, memory
  <1>0. f \in File
    BY FoldersAssumption DEF FoldersAssumption
  <1>1. Reads(r, f)
    BY DEF ReadsAreCurrent
  <1>2. /\ seen \in [Root -> Snapshot] /\ findings \in [Root -> Snapshot]
        /\ attempt \in [Root -> Snapshot] /\ disk \in [File -> Version]
        /\ phase \in [Root -> Phase]
    BY DEF TypeOK
  <1>3. /\ seen[r][f] \in Version \cup {Absent} /\ findings[r][f] \in Version \cup {Absent}
        /\ attempt[r][f] \in Version \cup {Absent} /\ disk[f] \in Version
    BY <1>0, <1>2 DEF Snapshot
  <1>4. ASSUME UNCHANGED <<disk, seen, attempt, findings>>,
               phase'[r] = phase[r] \/ phase'[r] \in Phase \ {"scanning", "scanned"}
        PROVE  Reads(r, f)'
    BY <1>1, <1>4
  <1>5. ASSUME UNCHANGED <<seen, attempt, findings>>, disk[f] <= disk'[f], disk'[f] \in Version,
               phase'[r] = phase[r] \/ phase'[r] = "queued"
        PROVE  Reads(r, f)'
    BY <1>1, <1>3, <1>5, VersionsAreOrdered
  <1>6. ASSUME NEW g \in File, Save(g) PROVE Reads(r, f)'
    BY <1>0, <1>2, <1>5, <1>6, BoundsAssumption DEF Save, Version, BoundsAssumption
  <1>7. ASSUME NEW s \in Root, NEW g \in File, DisableRule(s, g) PROVE Reads(r, f)'
    <2>1. phase'[r] = phase[r] \/ phase'[r] = "queued"
      BY <1>7, RequestScanStep DEF DisableRule
    <2>2. QED
      BY <1>0, <1>2, <1>5, <1>7, <2>1, BoundsAssumption DEF DisableRule, Version, BoundsAssumption
  <1>8. ASSUME NEW s \in Root, StartRequest(s) \/ SaveTimer(s) PROVE Reads(r, f)'
    <2>1. phase'[r] = phase[r] \/ phase'[r] = "queued"
      BY <1>8, RequestScanStep DEF StartRequest, SaveTimer
    <2>2. QED
      BY <1>4, <1>8, <2>1 DEF StartRequest, SaveTimer, Phase
  <1>9. ASSUME NEW folders, ChangeRoots(folders) PROVE Reads(r, f)'
    <2>1. findings'[r][f] = findings[r][f] \/ findings'[r][f] = Absent
      BY <1>0, <1>9 DEF ChangeRoots, Nothing
    <2>2. UNCHANGED <<disk, seen, attempt, phase>>
      BY <1>9 DEF ChangeRoots
    <2>3. QED BY <1>1, <1>3, <2>1, <2>2, VersionsAreOrdered
  <1>10. ASSUME NEW s \in Root, StartScan(s) PROVE Reads(r, f)'
    <2>1. CASE s = r
      <3>1. /\ seen'[r][f] = Absent /\ attempt'[r][f] = disk[f] /\ phase'[r] = "scanning"
            /\ UNCHANGED <<disk, findings>>
        BY <1>0, <1>2, <1>10, <2>1 DEF StartScan, Nothing, DiskOf
      <3>2. QED BY <1>1, <1>3, <3>1, VersionsAreOrdered
    <2>2. CASE s # r
      BY <1>1, <1>2, <1>10, <2>2 DEF StartScan
    <2>3. QED BY <2>1, <2>2
  <1>11. ASSUME NEW s \in Root, FailEarly(s) PROVE Reads(r, f)'
    <2>1. CASE s = r
      <3>1. /\ attempt'[r][f] = disk[f] /\ phase'[r] = "failed"
            /\ UNCHANGED <<disk, seen, findings>>
        BY <1>0, <1>2, <1>11, <2>1 DEF FailEarly, DiskOf
      <3>2. QED BY <1>1, <1>3, <3>1, VersionsAreOrdered
    <2>2. CASE s # r
      BY <1>1, <1>2, <1>11, <2>2 DEF FailEarly
    <2>3. QED BY <2>1, <2>2
  <1>12. ASSUME NEW s \in Root, NEW g \in File, ReadFile(s, g) PROVE Reads(r, f)'
    <2>1. seen'[r][f] = seen[r][f] \/ (s = r /\ phase[r] = "scanning" /\ seen'[r][f] = disk[f])
      BY <1>0, <1>2, <1>12 DEF ReadFile, Snapshot
    <2>2. UNCHANGED <<disk, attempt, findings, phase>>
      BY <1>12 DEF ReadFile
    <2>3. QED BY <1>1, <1>3, <2>1, <2>2, VersionsAreOrdered
  <1>13. ASSUME NEW s \in Root, EndScan(s) PROVE Reads(r, f)'
    <2>1. UNCHANGED <<disk, seen, attempt, findings>>
      BY <1>13 DEF EndScan
    <2>2. \/ phase'[r] = phase[r] \/ phase'[r] = "failed"
          \/ phase[r] = "scanning" /\ phase'[r] = "scanned" /\ seen[r][f] # Absent
      BY <1>2, <1>13 DEF EndScan, ReadAll
    <2>3. QED BY <1>1, <2>1, <2>2
  <1>14. ASSUME NEW s \in Root, Probe(s) PROVE Reads(r, f)'
    <2>1. phase'[r] = phase[r] \/ phase'[r] \in {"found", "none", "unknown"}
      BY <1>2, <1>14 DEF Probe
    <2>2. QED BY <1>4, <1>14, <2>1 DEF Probe, Phase
  <1>15. ASSUME NEW s \in Root, Resume(s) PROVE Reads(r, f)'
    <2>1. CASE ResumeProbed(s)
      <3>1. phase'[r] = phase[r] \/ phase'[r] \in {"queued", "idle"}
        BY <2>1, NextRoundStep DEF ResumeProbed
      <3>2. QED BY <1>4, <2>1, <3>1 DEF ResumeProbed, Phase
    <2>2. CASE ResumeFailed(s) \/ ResumeClosed(s) \/ ResumeScanned(s)
      <3>1. Ended(s) /\ UNCHANGED disk
        BY <2>2 DEF ResumeFailed, ResumeClosed, ResumeScanned
      <3>2. /\ s # r => phase'[r] = phase[r]
            /\ s = r => phase'[r] \in {"queued", "idle", "probing"}
        BY <1>2, <2>2, NextRoundStep DEF ResumeFailed, ResumeClosed, ResumeScanned
      <3>3. \/ findings'[r] = findings[r]
            \/ s = r /\ findings'[r] = seen[r]
        BY <1>2, <2>2 DEF ResumeFailed, ResumeClosed, ResumeScanned, Publish
      <3>4. CASE s = r
        <4>1. seen'[r][f] = Absent /\ attempt'[r][f] = Absent
          BY <1>0, <1>2, <3>1, <3>4 DEF Ended, Nothing
        <4>2. QED BY <1>1, <1>3, <3>1, <3>2, <3>3, <3>4, <4>1, VersionsAreOrdered
      <3>5. CASE s # r
        BY <1>1, <1>2, <3>1, <3>2, <3>3, <3>5 DEF Ended
      <3>6. QED BY <3>4, <3>5
    <2>3. QED BY <1>15, <2>1, <2>2 DEF Resume
  <1>16. ASSUME UNCHANGED <<disk, seen, attempt, findings, phase>> PROVE Reads(r, f)'
    BY <1>1, <1>16
  <1>17. QED
    BY <1>6, <1>7, <1>8, <1>9, <1>10, <1>11, <1>12, <1>13, <1>14, <1>15, <1>16
       DEF Next, vars, ChangeFolders, Worker, DidSave, Rescan

\* Publishing shows what the scan set out to see; failing or closing excuses it.
LEMMA ResultsStep ==
  TypeOK /\ ReadsAreCurrent /\ ResultsAreShown /\ [Next]_vars => ResultsAreShown'
  <1> SUFFICES ASSUME TypeOK, ReadsAreCurrent, ResultsAreShown, [Next]_vars,
                      NEW r \in roots', NEW f \in FilesOf[r], r \notin failed'
               PROVE  answered'[r][f] <= findings'[r][f]
    BY DEF ResultsAreShown
  <1> USE DEF client, jobs, scan, shown, outcome, memory
  <1>0. r \in Root /\ f \in File
    BY RootsAreRoots, FoldersAssumption DEF roots, FoldersAssumption
  <1>1. r \in roots /\ r \notin failed => answered[r][f] <= findings[r][f]
    BY DEF ResultsAreShown
  <1>2. /\ answered \in [Root -> Snapshot] /\ findings \in [Root -> Snapshot]
        /\ seen \in [Root -> Snapshot] /\ attempt \in [Root -> Snapshot]
    BY DEF TypeOK
  <1>3. ASSUME UNCHANGED <<requested, failed, answered, findings>>
        PROVE  answered'[r][f] <= findings'[r][f]
    BY <1>1, <1>3 DEF roots
  <1>4. ASSUME NEW folders, ChangeRoots(folders)
        PROVE  answered'[r][f] <= findings'[r][f]
    <2>1. UNCHANGED failed /\ requested' = folders
      BY <1>4 DEF ChangeRoots
    <2>2. CASE r \in roots
      BY <1>0, <1>1, <1>4, <2>1, <2>2 DEF ChangeRoots, roots
    <2>3. CASE r \notin roots
      <3>1. answered'[r][f] = Absent /\ findings'[r] = findings[r]
        BY <1>0, <1>4, <2>1, <2>3 DEF ChangeRoots, roots, Nothing
      <3>2. QED BY <1>0, <1>2, <3>1, VersionsAreOrdered DEF Snapshot
    <2>4. QED BY <2>2, <2>3
  <1>5. ASSUME NEW s \in Root, ResumeFailed(s) \/ ResumeClosed(s) \/ ResumeScanned(s)
        PROVE  answered'[r][f] <= findings'[r][f]
    <2>0. r \in roots
      BY <1>5 DEF ResumeFailed, ResumeClosed, ResumeScanned, roots
    <2>1. CASE s # r
      BY <1>0, <1>1, <1>2, <1>5, <2>0, <2>1
         DEF ResumeFailed, ResumeClosed, ResumeScanned, Ended, Publish
    <2>2. CASE s = r
      <3>1. ResumeScanned(r)
        BY <1>5, <2>0, <2>2 DEF ResumeFailed, ResumeClosed
      <3>2. answered'[r] = attempt[r] /\ findings'[r] = seen[r] /\ phase[r] = "scanned"
        BY <1>0, <1>2, <3>1 DEF ResumeScanned, Ended, Publish
      <3>3. QED BY <1>0, <3>2 DEF ReadsAreCurrent
    <2>3. QED BY <2>1, <2>2
  <1>6. QED
    BY <1>3, <1>4, <1>5
       DEF Next, vars, ChangeFolders, Worker, Resume, ResumeProbed, Save, DidSave, DisableRule,
           Rescan, StartRequest, SaveTimer, StartScan, FailEarly, ReadFile, EndScan, Probe

-----------------------------------------------------------------------------
\* Whatever step is taken, a file whose last write no scan has taken up yet is
\* still owed one: the heart of the coalescing of requests.
LEMMA NoLostSaveStep == TypeOK /\ NoLostSave /\ [Next]_vars => NoLostSave'
  <1> DEFINE Safe(r, f) ==
        \/ Owed(r) \/ inflight[f] > 0
        \/ phase[r] \in {"scanning", "scanned", "failed"} /\ attempt[r][f] = disk[f]
        \/ phase[r] \notin {"scanning", "scanned", "failed"} /\ answered[r][f] = disk[f]
  <1> SUFFICES ASSUME TypeOK, NoLostSave, [Next]_vars,
                      NEW r \in roots', NEW f \in FilesOf[r]
               PROVE  Safe(r, f)'
    BY DEF NoLostSave
  <1> USE DEF client, jobs, scan, shown, outcome, memory
  <1>0. r \in Root /\ f \in File
    BY RootsAreRoots, FoldersAssumption DEF roots, FoldersAssumption
  <1>1. r \in roots => Safe(r, f)
    BY DEF NoLostSave
  <1>2. /\ inflight \in [File -> Nat] /\ starting \in [Root -> Nat]
        /\ disk \in [File -> Version] /\ phase \in [Root -> Phase]
        /\ attempt \in [Root -> Snapshot] /\ answered \in [Root -> Snapshot]
    BY DEF TypeOK
  <1>3. requested' = requested => r \in roots
    BY DEF roots
  <1>4. ASSUME NEW g \in File, Save(g) PROVE Safe(r, f)'
    <2>1. CASE g = f
      BY <1>0, <1>2, <1>4, <2>1 DEF Save
    <2>2. CASE g # f
      BY <1>0, <1>1, <1>2, <1>3, <1>4, <2>2 DEF Save, Owed
    <2>3. QED BY <2>1, <2>2
  <1>5. ASSUME NEW g \in File, DidSave(g) PROVE Safe(r, f)'
    <2>1. CASE g = f
      BY <1>0, <1>3, <1>5, <2>1 DEF DidSave, Owners, Owed
    <2>2. CASE g # f
      BY <1>0, <1>1, <1>2, <1>3, <1>5, <2>2 DEF DidSave, Owners, Owed
    <2>3. QED BY <2>1, <2>2
  <1>6. ASSUME NEW s \in Root, NEW g \in File, DisableRule(s, g) PROVE Safe(r, f)'
    <2>1. r \in roots /\ s \in roots /\ g \in FilesOf[s] /\ RequestScan(s)
      BY <1>3, <1>6 DEF DisableRule
    <2>2. CASE g = f
      <3>1. s = r
        BY <2>1, <2>2, RootsDisjoint DEF roots
      <3>2. QED BY <2>1, <3>1, RequestScanStep DEF Owed
    <2>3. CASE g # f
      <3>1. UNCHANGED <<inflight, starting, saved, attempt, answered>> /\ disk'[f] = disk[f]
        BY <1>0, <1>2, <1>6, <2>3 DEF DisableRule
      <3>2. QED BY <1>0, <1>1, <2>1, <3>1, RequestScanStep DEF Owed
    <2>4. QED BY <2>2, <2>3
  <1>7. ASSUME Rescan PROVE Safe(r, f)'
    BY <1>0, <1>1, <1>2, <1>3, <1>7 DEF Rescan, Gather, Owed
  <1>8. ASSUME NEW folders, ChangeRoots(folders) PROVE Safe(r, f)'
    <2>1. UNCHANGED <<disk, inflight, saved, dirty, phase, attempt>> /\ requested' = folders
      BY <1>8 DEF ChangeRoots
    <2>2. CASE r \in roots
      BY <1>0, <1>1, <1>2, <1>8, <2>1, <2>2 DEF ChangeRoots, Gather, Owed, roots
    <2>3. CASE r \notin roots
      BY <1>0, <1>2, <1>8, <2>1, <2>3 DEF ChangeRoots, Gather, Owed, roots
    <2>4. QED BY <2>2, <2>3
  <1>9. ASSUME NEW s \in Root, StartRequest(s) PROVE Safe(r, f)'
    <2>1. UNCHANGED <<disk, inflight, saved, attempt, answered>> /\ RequestScan(s) /\ r \in roots
      BY <1>3, <1>9 DEF StartRequest
    <2>2. CASE s = r
      BY <2>1, <2>2, RequestScanStep DEF Owed
    <2>3. CASE s # r
      <3>1. starting'[r] = starting[r]
        BY <1>0, <1>2, <1>9, <2>3 DEF StartRequest
      <3>2. QED BY <1>0, <1>1, <2>1, <3>1, RequestScanStep DEF Owed
    <2>4. QED BY <2>2, <2>3
  <1>10. ASSUME NEW s \in Root, SaveTimer(s) PROVE Safe(r, f)'
    <2>1. /\ UNCHANGED <<disk, inflight, starting, attempt, answered>>
          /\ RequestScan(s) /\ r \in roots /\ saved' = saved \ {s}
      BY <1>3, <1>10 DEF SaveTimer
    <2>2. CASE s = r
      BY <2>1, <2>2, RequestScanStep DEF Owed
    <2>3. CASE s # r
      BY <1>0, <1>1, <2>1, <2>3, RequestScanStep DEF Owed
    <2>4. QED BY <2>2, <2>3
  <1>11. ASSUME NEW s \in Root, StartScan(s) \/ FailEarly(s) PROVE Safe(r, f)'
    <2>1. UNCHANGED <<disk, inflight, starting, saved, dirty, answered>> /\ r \in roots
      BY <1>3, <1>11 DEF StartScan, FailEarly
    <2>2. CASE s = r
      BY <1>0, <1>2, <1>11, <2>1, <2>2 DEF StartScan, FailEarly, DiskOf
    <2>3. CASE s # r
      BY <1>0, <1>1, <1>2, <1>11, <2>1, <2>3 DEF StartScan, FailEarly, Owed
    <2>4. QED BY <2>2, <2>3
  <1>12. ASSUME NEW s \in Root, EndScan(s) \/ Probe(s) PROVE Safe(r, f)'
    <2>1. UNCHANGED <<disk, inflight, starting, saved, dirty, attempt, answered>> /\ r \in roots
      BY <1>3, <1>12 DEF EndScan, Probe
    <2>2. \/ phase'[r] = phase[r]
          \/ phase[r] = "scanning" /\ phase'[r] \in {"scanned", "failed"}
          \/ phase[r] = "probing" /\ phase'[r] \in {"found", "none", "unknown"}
      BY <1>0, <1>2, <1>12 DEF EndScan, Probe
    <2>3. QED BY <1>1, <2>1, <2>2 DEF Owed
  <1>13. ASSUME NEW s \in Root, ResumeProbed(s) PROVE Safe(r, f)'
    <2>1. /\ UNCHANGED <<disk, inflight, starting, saved, attempt, answered>> /\ r \in roots
          /\ NextRound(s) /\ phase[s] \in {"found", "none", "unknown"}
      BY <1>3, <1>13 DEF ResumeProbed
    <2>2. QED BY <1>0, <1>1, <2>1, NextRoundStep DEF Owed
  <1>14. ASSUME NEW s \in Root, ResumeFailed(s) \/ ResumeClosed(s) \/ ResumeScanned(s)
         PROVE  Safe(r, f)'
    <2>1. /\ UNCHANGED <<disk, inflight, starting, saved>> /\ r \in roots
          /\ Ended(s) /\ phase[s] \in {"failed", "scanned"}
      BY <1>3, <1>14 DEF ResumeFailed, ResumeClosed, ResumeScanned
    <2>2. /\ s # r => phase'[r] = phase[r] /\ (r \in dirty <=> r \in dirty')
          /\ s = r => \/ phase'[r] = IF r \in dirty THEN "queued" ELSE "idle"
                      \/ phase'[r] = "probing" /\ UNCHANGED dirty
      BY <1>0, <1>2, <1>14, <2>1, NextRoundStep DEF ResumeFailed, ResumeClosed, ResumeScanned
    <2>3. CASE s = r
      <3>1. answered'[r] = attempt[r]
        BY <1>0, <1>2, <2>1, <2>3 DEF Ended
      <3>2. QED BY <1>1, <2>1, <2>2, <2>3, <3>1 DEF Owed
    <2>4. CASE s # r
      <3>1. answered'[r] = answered[r] /\ attempt'[r] = attempt[r]
        BY <1>0, <1>2, <2>1, <2>4 DEF Ended
      <3>2. QED BY <1>1, <2>1, <2>2, <2>4, <3>1 DEF Owed
    <2>5. QED BY <2>3, <2>4
  <1>15. ASSUME UNCHANGED <<disk, inflight, requested, starting, saved, dirty, phase, attempt, answered>>
         PROVE  Safe(r, f)'
    BY <1>1, <1>3, <1>15 DEF Owed
  <1>16. QED
    BY <1>4, <1>5, <1>6, <1>7, <1>8, <1>9, <1>10, <1>11, <1>12, <1>13, <1>14, <1>15
       DEF Next, vars, ChangeFolders, Worker, Resume, ReadFile

-----------------------------------------------------------------------------
\* Two folders never publish to the same URI, since their files are disjoint.
LEMMA OneOwner ==
  ASSUME BooksAreKept, NEW r \in Root, NEW s \in Root,
         NEW u, u \in published[r], u \in published[s]
  PROVE  r = s
  <1>1. r \in roots /\ s \in roots
    BY DEF BooksAreKept
  <1>2. u.file \in FilesOf[r] \cap FilesOf[s]
    BY DEF BooksAreKept
  <1>3. QED BY <1>1, <1>2, RootsDisjoint DEF roots

\* Only publishing a result and closing a folder touch the books.
LEMMA BooksStep == TypeOK /\ BooksAreKept /\ [Next]_vars => BooksAreKept'
  <1> SUFFICES ASSUME TypeOK, BooksAreKept, [Next]_vars PROVE BooksAreKept'
    OBVIOUS
  <1> USE DEF client, jobs, scan, shown, outcome, memory
  <1>0. /\ findings \in [Root -> Snapshot] /\ seen \in [Root -> Snapshot]
        /\ published \in [Root -> SUBSET URI]
    BY DEF TypeOK
  <1>1. CASE UNCHANGED <<requested, published, view, findings>>
    BY <1>1 DEF BooksAreKept, roots
  <1>2. ASSUME NEW folders, ChangeRoots(folders) PROVE BooksAreKept'
    <2> DEFINE gone == roots \ RootsOf(folders)
    <2>1. /\ requested' = folders
          /\ \A r \in Root : r \in gone => published'[r] = {}
          /\ \A r \in Root : r \notin gone => published'[r] = published[r] /\ findings'[r] = findings[r]
          /\ \A u \in URI : view'[u] = IF \E r \in gone : u \in published[r] THEN Absent ELSE view[u]
      BY <1>2, RootsAreRoots DEF ChangeRoots, Cleared, roots
    <2>2. \A r \in Root \ roots' : published'[r] = {}
      BY <2>1 DEF BooksAreKept, roots
    <2>3. ASSUME NEW r \in Root, NEW u \in published'[r]
          PROVE  u.file \in FilesOf[r] /\ view'[u] = findings'[r][u.file]
      <3>1. r \notin gone /\ u \in published[r] /\ u \in URI
        BY <1>0, <2>1, <2>3
      <3>2. \A s \in gone : u \notin published[s]
        BY <3>1, OneOwner, RootsAreRoots DEF roots
      <3>3. QED BY <2>1, <3>1, <3>2 DEF BooksAreKept
    <2>4. ASSUME NEW u \in URI, view'[u] # Absent PROVE \E r \in Root : u \in published'[r]
      <3>1. view[u] # Absent /\ \A r \in gone : u \notin published[r]
        BY <2>1, <2>4
      <3>2. PICK r \in Root : u \in published[r]
        BY <3>1 DEF BooksAreKept
      <3>3. QED BY <2>1, <3>1, <3>2
    <2>5. QED BY <2>2, <2>3, <2>4 DEF BooksAreKept
  <1>3. ASSUME NEW r \in Root, ResumeScanned(r) PROVE BooksAreKept'
    <2>1. /\ r \in roots /\ roots' = roots
          /\ published' = [published EXCEPT ![r] = Marked(r)]
          /\ findings' = [findings EXCEPT ![r] = seen[r]]
          /\ \A u \in URI : view'[u] = IF u \in Marked(r) THEN seen[r][u.file]
                                       ELSE IF u \in published[r] THEN Absent ELSE view[u]
      BY <1>3 DEF ResumeScanned, Publish, roots
    <2>2. \A s \in Root \ roots' : published'[s] = {}
      BY <1>0, <2>1 DEF BooksAreKept
    <2>3. ASSUME NEW s \in Root, NEW u \in published'[s]
          PROVE  u.file \in FilesOf[s] /\ view'[u] = findings'[s][u.file]
      <3>1. CASE s = r
        BY <1>0, <2>1, <2>3, <3>1, UrisType
      <3>2. CASE s # r
        <4>1. u \in published[s] /\ u \in URI /\ findings'[s] = findings[s]
          BY <1>0, <2>1, <2>3, <3>2
        <4>2. u \notin published[r]
          BY <3>2, <4>1, OneOwner
        <4>3. s \in roots /\ u.file \in FilesOf[s]
          BY <4>1 DEF BooksAreKept
        <4>4. u \notin Marked(r)
          BY <2>1, <3>2, <4>3, UrisType, RootsDisjoint DEF roots
        <4>5. QED BY <2>1, <4>1, <4>2, <4>4 DEF BooksAreKept
      <3>3. QED BY <3>1, <3>2
    <2>4. ASSUME NEW u \in URI, view'[u] # Absent PROVE \E s \in Root : u \in published'[s]
      <3>1. CASE u \in Marked(r)
        BY <1>0, <2>1, <3>1
      <3>2. CASE u \notin Marked(r)
        <4>1. u \notin published[r] /\ view[u] # Absent
          BY <2>1, <2>4, <3>2
        <4>2. PICK s \in Root : u \in published[s]
          BY <4>1 DEF BooksAreKept
        <4>3. QED BY <1>0, <2>1, <4>1, <4>2
      <3>3. QED BY <3>1, <3>2
    <2>5. QED BY <2>2, <2>3, <2>4 DEF BooksAreKept
  <1>4. QED
    BY <1>1, <1>2, <1>3
       DEF Next, vars, ChangeFolders, Worker, Resume, ResumeFailed, ResumeClosed, ResumeProbed,
           Save, DidSave, DisableRule, Rescan, StartRequest, SaveTimer, StartScan, FailEarly,
           ReadFile, EndScan, Probe

-----------------------------------------------------------------------------
\* A loop that waits for nothing hands the executor one job.
LEMMA NewJob ==
  ASSUME TypeOK, OneJobPerRoot, JobsHaveLoops, NEW r \in Root, NEW p \in {"queued", "probing"},
         phase[r] \notin {"queued", "scanning", "probing"},
         queue' = Append(queue, r), phase' = [phase EXCEPT ![r] = p]
  PROVE  OneJobPerRoot' /\ JobsHaveLoops'
  <1>1. queue \in Seq(Root) /\ phase \in [Root -> Phase]
    BY DEF TypeOK
  <1>2. /\ Len(queue') = Len(queue) + 1 /\ queue'[Len(queue) + 1] = r
        /\ \A i \in 1..Len(queue) : queue'[i] = queue[i] /\ queue[i] \in Root
        /\ Len(queue) \in Nat
    BY <1>1, AppendProperties
  <1>3. \A i \in 1..Len(queue) : queue[i] # r
    BY DEF JobsHaveLoops
  <1>4. \A i \in 1..Len(queue') : i = Len(queue) + 1 \/ i \in 1..Len(queue)
    BY <1>2
  <1>5. OneJobPerRoot'
    BY <1>2, <1>3, <1>4 DEF OneJobPerRoot
  <1>6. JobsHaveLoops'
    <2> SUFFICES ASSUME NEW i \in 1..Len(queue') PROVE phase'[queue'[i]] \in {"queued", "scanning", "probing"}
      BY DEF JobsHaveLoops
    <2>1. CASE i = Len(queue) + 1
      BY <1>1, <1>2, <2>1
    <2>2. CASE i \in 1..Len(queue)
      BY <1>1, <1>2, <1>3, <2>2 DEF JobsHaveLoops
    <2>3. QED BY <1>4, <2>1, <2>2
  <1>7. QED BY <1>5, <1>6

\* The worker takes the job it has done off the queue.
LEMMA JobDone ==
  ASSUME TypeOK, OneJobPerRoot, JobsHaveLoops, NEW r \in Root, Working(r), queue' = Tail(queue),
         \A s \in Root \ {r} : phase'[s] = phase[s]
  PROVE  OneJobPerRoot' /\ JobsHaveLoops'
  <1>1. queue \in Seq(Root) /\ queue # <<>> /\ r = queue[1]
    BY DEF TypeOK, Working
  <1>2. /\ Len(queue') = Len(queue) - 1 /\ Len(queue) \in Nat
        /\ \A i \in 1..Len(queue') : queue'[i] = queue[i + 1] /\ i + 1 \in 1..Len(queue)
        /\ 1 \in 1..Len(queue)
        /\ \A i \in 1..Len(queue) : queue[i] \in Root
    BY <1>1, HeadTailProperties
  <1>3. \A i \in 1..Len(queue') : queue'[i] \in Root \ {r} /\ i \in Int
    BY <1>1, <1>2 DEF OneJobPerRoot
  <1>4. OneJobPerRoot'
    BY <1>2, <1>3 DEF OneJobPerRoot
  <1>5. JobsHaveLoops'
    BY <1>2, <1>3 DEF JobsHaveLoops
  <1>6. QED BY <1>4, <1>5

\* Every step keeps one queued job for a folder, and the phase that waits for it.
LEMMA JobsStep ==
  TypeOK /\ OneJobPerRoot /\ JobsHaveLoops /\ [Next]_vars => OneJobPerRoot' /\ JobsHaveLoops'
  <1> SUFFICES ASSUME TypeOK, OneJobPerRoot, JobsHaveLoops, [Next]_vars
               PROVE  OneJobPerRoot' /\ JobsHaveLoops'
    OBVIOUS
  <1> USE DEF client, jobs, scan, shown, outcome, memory
  <1>0. /\ phase \in [Root -> Phase]
        /\ \A i \in 1..Len(queue) : queue[i] \in Root
    BY DEF TypeOK
  <1>1. ASSUME UNCHANGED queue,
               \A i \in 1..Len(queue) : phase'[queue[i]] \in {"queued", "scanning", "probing"}
        PROVE  OneJobPerRoot' /\ JobsHaveLoops'
    BY <1>1 DEF OneJobPerRoot, JobsHaveLoops
  <1>2. ASSUME NEW r \in Root, RequestScan(r) PROVE OneJobPerRoot' /\ JobsHaveLoops'
    <2>1. CASE UNCHANGED <<phase, queue>>
      BY <2>1 DEF OneJobPerRoot, JobsHaveLoops
    <2>2. CASE /\ phase[r] = "idle" /\ phase' = [phase EXCEPT ![r] = "queued"]
               /\ queue' = Append(queue, r)
      BY <2>2, NewJob
    <2>3. QED BY <1>2, <2>1, <2>2 DEF RequestScan
  <1>3. ASSUME NEW r \in Root, NextRound(r), phase[r] \notin {"queued", "scanning", "probing"}
        PROVE  OneJobPerRoot' /\ JobsHaveLoops'
    <2>1. CASE phase' = [phase EXCEPT ![r] = "queued"] /\ queue' = Append(queue, r)
      BY <1>3, <2>1, NewJob
    <2>2. CASE phase' = [phase EXCEPT ![r] = "idle"] /\ UNCHANGED queue
      BY <1>0, <1>1, <1>3, <2>2 DEF JobsHaveLoops
    <2>3. QED BY <1>3, <2>1, <2>2 DEF NextRound
  <1>4. ASSUME NEW r \in Root, StartScan(r) PROVE OneJobPerRoot' /\ JobsHaveLoops'
    BY <1>0, <1>1, <1>4 DEF StartScan, JobsHaveLoops
  <1>5. ASSUME NEW r \in Root, FailEarly(r) \/ EndScan(r) \/ Probe(r)
        PROVE  OneJobPerRoot' /\ JobsHaveLoops'
    <2>1. Working(r) /\ queue' = Tail(queue) /\ \A s \in Root \ {r} : phase'[s] = phase[s]
      BY <1>0, <1>5 DEF FailEarly, EndScan, Probe
    <2>2. QED BY <2>1, JobDone
  <1>6. ASSUME NEW r \in Root, ResumeFailed(r) \/ ResumeProbed(r)
        PROVE  OneJobPerRoot' /\ JobsHaveLoops'
    BY <1>3, <1>6 DEF ResumeFailed, ResumeProbed
  <1>7. ASSUME NEW r \in Root, ResumeClosed(r) PROVE OneJobPerRoot' /\ JobsHaveLoops'
    BY <1>0, <1>1, <1>7 DEF ResumeClosed, JobsHaveLoops
  <1>8. ASSUME NEW r \in Root, ResumeScanned(r) PROVE OneJobPerRoot' /\ JobsHaveLoops'
    <2>1. CASE NextRound(r)
      BY <1>3, <1>8, <2>1 DEF ResumeScanned
    <2>2. CASE phase' = [phase EXCEPT ![r] = "probing"] /\ queue' = Append(queue, r)
      BY <1>8, <2>2, NewJob DEF ResumeScanned
    <2>3. QED BY <1>8, <2>1, <2>2 DEF ResumeScanned
  <1>9. CASE UNCHANGED <<phase, queue>>
    BY <1>9 DEF OneJobPerRoot, JobsHaveLoops
  <1>10. QED
    BY <1>2, <1>4, <1>5, <1>6, <1>7, <1>8, <1>9
       DEF Next, vars, ChangeFolders, ChangeRoots, Worker, Resume, Save, DidSave, DisableRule,
           Rescan, StartRequest, SaveTimer, ReadFile

-----------------------------------------------------------------------------
(***************************************************************************)
(* Under which names diagnostics are displayed.                            *)
(***************************************************************************)

\* What is left of the client's folders, and what is added, are folders.
LEMMA FoldersType ==
  ASSUME requested \in Seq(Path), NEW removed, NEW added \in Seq(Path)
  PROVE  Folders(removed, added) \in Seq(Path)
  <1> DEFINE N == Len(requested)
             Next1(s, n) == IF requested[n] \in removed THEN s ELSE Append(s, requested[n])
             step == [p \in Seq(Path) \X (1..N) |-> Next1(p[1], p[2])]
             F == CHOOSE f : f = [n \in 0..N |-> IF n = 0 THEN <<>> ELSE Next1(f[n - 1], n)]
  <1>1. N \in Nat /\ \A n \in 1..N : requested[n] \in Path
    OBVIOUS
  <1>2. step \in [Seq(Path) \X (1..N) -> Seq(Path)]
    BY <1>1
  <1>3. \A s \in Seq(Path), n \in 1..N : step[<<s, n>>] = Next1(s, n)
    OBVIOUS
  <1>4. \E f \in [0..N -> Seq(Path)] : Recursive(f, 0..N, <<>>, step)
    <2> HIDE DEF step, N
    <2>1. <<>> \in Seq(Path)
      OBVIOUS
    <2> QED BY <1>1, <1>2, <2>1, IntervalRecursion
  <1>5. PICK f \in [0..N -> Seq(Path)] : Recursive(f, 0..N, <<>>, step)
    BY <1>4
  <1>6. ASSUME NEW n \in 0..N
        PROVE  f[n] = IF n = 0 THEN <<>> ELSE Next1(f[n - 1], n)
    <2>1. CASE n = 0
      <3> HIDE DEF step, Next1
      <3> QED BY <1>5, <2>1 DEF Recursive
    <2>2. CASE n # 0
      <3>1. n \in 1..N /\ n - 1 \in 0..N
        BY <1>1, <2>2
      <3>2. f[n - 1] \in Seq(Path)
        BY <1>5, <3>1
      <3>3. f[n] = step[<<f[n - 1], n>>]
        <4> HIDE DEF step
        <4> QED BY <1>5, <2>2 DEF Recursive
      <3> HIDE DEF step, Next1, N
      <3> QED BY <1>3, <2>2, <3>1, <3>2, <3>3
    <2> QED BY <2>1, <2>2
  <1>7. f = [n \in 0..N |-> IF n = 0 THEN <<>> ELSE Next1(f[n - 1], n)]
    <2> HIDE DEF step, Next1, N
    <2>1. f = [n \in 0..N |-> f[n]]
      BY <1>5
    <2> QED BY <1>6, <2>1
  <1>8. F = [n \in 0..N |-> IF n = 0 THEN <<>> ELSE Next1(F[n - 1], n)]
    <2> HIDE DEF Next1, N
    <2> QED BY <1>7
  <1> HIDE DEF F
  <1>9. ASSUME NEW n \in 0..N PROVE F[n] = IF n = 0 THEN <<>> ELSE Next1(F[n - 1], n)
    <2> HIDE DEF N
    <2> QED BY <1>8
  <1>10. F[N] \in Seq(Path)
    <2> DEFINE S == {k \in Nat : k <= N => F[k] \in Seq(Path)}
    <2>1. 0 \in S
      <3>1. F[0] = <<>>
        BY <1>1, <1>9
      <3>2. F[0] \in Seq(Path) /\ 0 \in Nat
        BY <3>1
      <3> HIDE DEF N
      <3> QED BY <3>2
    <2>2. ASSUME NEW k \in Nat, k \in S PROVE k + 1 \in S
      <3> SUFFICES ASSUME k + 1 <= N PROVE F[k + 1] \in Seq(Path)
        OBVIOUS
      <3>1. k + 1 \in 1..N /\ k + 1 \in 0..N /\ (k + 1) - 1 = k /\ F[k] \in Seq(Path)
        BY <1>1, <2>2
      <3>2. F[k + 1] = Next1(F[k], k + 1)
        <4>1. F[k + 1] = IF k + 1 = 0 THEN <<>> ELSE Next1(F[(k + 1) - 1], k + 1)
          BY <1>9, <3>1
        <4> QED BY <3>1, <4>1
      <3>3. Next1(F[k], k + 1) \in Seq(Path)
        BY <1>1, <3>1
      <3> QED BY <3>2, <3>3
    <2> HIDE DEF S
    <2>3. Nat \subseteq S
      BY <2>1, <2>2, NatSetInduction
    <2>4. N \in S
      BY <1>1, <2>3
    <2> QED BY <1>1, <2>4 DEF S
  <1>11. Folders(removed, added) = F[N] \o added
    BY DEF Folders, F
  <1> QED BY <1>10, <1>11
-----------------------------------------------------------------------------
(***************************************************************************)
(* What is kept between scans, and what the user was told.                 *)
(***************************************************************************)

\* A scan takes up what is kept, and what is dropped meanwhile stays dropped.
LEMMA DroppedStep == forgotten \cap kept = {} /\ [Next]_vars => (forgotten \cap kept = {})'
  <1> SUFFICES ASSUME forgotten \cap kept = {}, [Next]_vars PROVE forgotten' \cap kept' = {}
    OBVIOUS
  <1>1. CASE UNCHANGED memory
    BY <1>1 DEF memory
  <1>2. CASE Rescan
    BY <1>2 DEF Rescan
  <1>3. ASSUME NEW folders, ChangeRoots(folders) PROVE forgotten' \cap kept' = {}
    BY <1>3 DEF ChangeRoots
  <1>4. ASSUME NEW r \in Root, StartScan(r) \/ ResumeClosed(r) PROVE forgotten' \cap kept' = {}
    BY <1>4 DEF StartScan, ResumeClosed
  <1>5. QED
    BY <1>1, <1>2, <1>3, <1>4
       DEF Next, vars, ChangeFolders, Worker, Resume, ResumeFailed, ResumeScanned, ResumeProbed,
           Save, DidSave, DisableRule, StartRequest, SaveTimer, FailEarly, ReadFile, EndScan, Probe

\* Every step keeps a closed folder's files only for a scan that still needs them.
LEMMA KeptStep == TypeOK /\ KeptForScans /\ [Next]_vars => KeptForScans'
  <1> DEFINE Held(r) == phase[r] \in {"queued", "scanning", "scanned", "failed"} \/ r \in failed
  <1> SUFFICES ASSUME TypeOK, KeptForScans, [Next]_vars, NEW r \in kept', r \notin roots'
               PROVE  Held(r)'
    BY DEF KeptForScans
  <1> USE DEF jobs, outcome, memory
  <1>1. r \in kept /\ r \notin roots => Held(r)
    BY DEF KeptForScans
  <1>2. phase \in [Root -> Phase] /\ kept \subseteq Root
    BY DEF TypeOK
  <1>3. requested' = requested => r \notin roots
    BY DEF roots
  <1>4. ASSUME UNCHANGED <<requested, failed, kept>>, r \in Root,
               phase'[r] = phase[r] \/ phase'[r] \in {"queued", "scanned", "failed"}
                 \/ phase[r] \in {"probing", "found", "none", "unknown"}
        PROVE  Held(r)'
    BY <1>1, <1>3, <1>4
  <1>5. ASSUME NEW s \in Root, StartRequest(s) \/ SaveTimer(s) \/ \E f \in File : DisableRule(s, f)
        PROVE  Held(r)'
    BY <1>2, <1>4, <1>5, RequestScanStep DEF StartRequest, SaveTimer, DisableRule
  <1>6. CASE Rescan
    BY <1>1, <1>3, <1>6 DEF Rescan
  <1>7. ASSUME NEW folders, ChangeRoots(folders) PROVE Held(r)'
    BY <1>1, <1>7 DEF ChangeRoots, roots
  <1>8. ASSUME NEW s \in Root, StartScan(s) PROVE Held(r)'
    BY <1>1, <1>2, <1>3, <1>8 DEF StartScan
  <1>9. ASSUME NEW s \in Root, FailEarly(s) \/ EndScan(s) \/ Probe(s) PROVE Held(r)'
    <2>1. UNCHANGED <<requested, failed, kept>>
      BY <1>9 DEF FailEarly, EndScan, Probe
    <2>2. phase'[r] = phase[r] \/ phase'[r] \in {"scanned", "failed"} \/ phase[r] = "probing"
      BY <1>2, <1>9 DEF FailEarly, EndScan, Probe
    <2>3. QED BY <1>2, <1>4, <2>1, <2>2
  <1>10. ASSUME NEW s \in Root, ResumeFailed(s) \/ ResumeProbed(s) PROVE Held(r)'
    <2>1. UNCHANGED <<requested, kept>> /\ r \in Root
      BY <1>2, <1>10 DEF ResumeFailed, ResumeProbed
    <2>2. CASE s = r /\ ResumeFailed(s)
      BY <2>2 DEF ResumeFailed
    <2>3. CASE s = r /\ ResumeProbed(s)
      BY <1>4, <2>1, <2>3 DEF ResumeProbed
    <2>4. CASE s # r
      <3>1. phase'[r] = phase[r] /\ (r \in failed' <=> r \in failed)
        BY <1>2, <1>10, <2>1, <2>4, NextRoundStep DEF ResumeFailed, ResumeProbed
      <3>2. QED BY <1>1, <1>3, <2>1, <3>1
    <2>5. QED BY <1>10, <2>2, <2>3, <2>4
  <1>11. ASSUME NEW s \in Root, ResumeClosed(s) PROVE Held(r)'
    BY <1>1, <1>2, <1>3, <1>11 DEF ResumeClosed
  <1>12. ASSUME NEW s \in Root, ResumeScanned(s) PROVE Held(r)'
    <2>1. s # r /\ r \in kept /\ r \in Root
      BY <1>2, <1>3, <1>12 DEF ResumeScanned
    <2>2. phase'[r] = phase[r] /\ (r \in failed' <=> r \in failed)
      BY <1>2, <1>12, <2>1, NextRoundStep DEF ResumeScanned
    <2>3. QED BY <1>1, <1>3, <1>12, <2>1, <2>2 DEF ResumeScanned
  <1>13. CASE UNCHANGED <<requested, phase, failed, kept>>
    BY <1>2, <1>4, <1>13
  <1>14. QED
    BY <1>5, <1>6, <1>7, <1>8, <1>9, <1>10, <1>11, <1>12, <1>13
       DEF Next, vars, ChangeFolders, Worker, Resume, Save, DidSave, ReadFile

\* A warning is given, and stands, only while nothing is published.
LEMMA WarnedStep ==
  TypeOK /\ ProbingShowsNothing /\ EmptyWarningIsHonest /\ [Next]_vars
    => ProbingShowsNothing' /\ EmptyWarningIsHonest'
  <1> DEFINE Probing(r) == phase[r] \in {"probing", "found", "none", "unknown"}
  <1> SUFFICES ASSUME TypeOK, ProbingShowsNothing, EmptyWarningIsHonest, [Next]_vars
               PROVE  ProbingShowsNothing' /\ EmptyWarningIsHonest'
    OBVIOUS
  <1>0. warned' \subseteq Root
    BY StepType DEF TypeOK
  <1> SUFFICES ASSUME NEW r \in Root, Probing(r)' \/ r \in warned' PROVE published'[r] = {}
    BY <1>0 DEF ProbingShowsNothing, EmptyWarningIsHonest
  <1> USE DEF jobs, shown
  <1>1. Probing(r) \/ r \in warned => published[r] = {}
    BY DEF ProbingShowsNothing, EmptyWarningIsHonest
  <1>2. phase \in [Root -> Phase] /\ published \in [Root -> SUBSET URI]
    BY DEF TypeOK
  <1>3. ASSUME UNCHANGED <<published, warned>>, Probing(r)' => Probing(r) PROVE published'[r] = {}
    BY <1>1, <1>3
  <1>4. ASSUME NEW s \in Root, StartRequest(s) \/ SaveTimer(s) \/ \E f \in File : DisableRule(s, f)
        PROVE  published'[r] = {}
    BY <1>3, <1>4, RequestScanStep DEF StartRequest, SaveTimer, DisableRule
  <1>5. ASSUME NEW folders, ChangeRoots(folders) PROVE published'[r] = {}
    BY <1>1, <1>5 DEF ChangeRoots
  <1>6. ASSUME NEW s \in Root, StartScan(s) \/ FailEarly(s) \/ EndScan(s) \/ Probe(s)
        PROVE  published'[r] = {}
    <2>1. UNCHANGED <<published, warned>>
      BY <1>6 DEF StartScan, FailEarly, EndScan, Probe
    <2>2. Probing(r)' => Probing(r)
      BY <1>2, <1>6 DEF StartScan, FailEarly, EndScan, Probe
    <2>3. QED BY <1>3, <2>1, <2>2
  <1>7. ASSUME NEW s \in Root, ResumeFailed(s) \/ ResumeClosed(s) PROVE published'[r] = {}
    <2>1. Probing(r)' => Probing(r)
      BY <1>2, <1>7, NextRoundStep DEF ResumeFailed, ResumeClosed
    <2>2. QED BY <1>3, <1>7, <2>1 DEF ResumeFailed, ResumeClosed
  <1>8. ASSUME NEW s \in Root, ResumeScanned(s) PROVE published'[r] = {}
    <2>1. published' = [published EXCEPT ![s] = Marked(s)]
      BY <1>8 DEF ResumeScanned, Publish
    <2>2. CASE s = r /\ Marked(s) = {}
      BY <1>2, <2>1, <2>2
    <2>3. CASE s = r /\ Marked(s) # {}
      <3>1. r \notin warned' /\ phase'[r] \in {"queued", "idle"}
        BY <1>8, <2>3, NextRoundStep DEF ResumeScanned, WarnedAfter
      <3>2. QED BY <3>1
    <2>4. CASE s # r
      <3>1. phase'[r] = phase[r] /\ (r \in warned' => r \in warned)
        BY <1>2, <1>8, <2>4, NextRoundStep DEF ResumeScanned, WarnedAfter
      <3>2. QED BY <1>1, <1>2, <2>1, <2>4, <3>1
    <2>5. QED BY <2>2, <2>3, <2>4
  <1>9. ASSUME NEW s \in Root, ResumeProbed(s) PROVE published'[r] = {}
    <2>1. UNCHANGED published /\ Probing(s)
      BY <1>9 DEF ResumeProbed
    <2>2. Probing(r)' => Probing(r)
      BY <1>9, NextRoundStep DEF ResumeProbed
    <2>3. r \in warned' => r \in warned \/ r = s
      BY <1>9 DEF ResumeProbed
    <2>4. QED BY <1>1, <2>1, <2>2, <2>3
  <1>10. CASE UNCHANGED <<phase, published, warned>>
    BY <1>3, <1>10
  <1>11. QED
    BY <1>4, <1>5, <1>6, <1>7, <1>8, <1>9, <1>10
       DEF Next, vars, ChangeFolders, Worker, Resume, Save, DidSave, Rescan, ReadFile

-----------------------------------------------------------------------------
\* The inductive invariant holds at first.
LEMMA InitInv == Init => IInv
  <1> SUFFICES ASSUME Init PROVE IInv
    OBVIOUS
  <1>1. TypeOK
    BY InitType
  <1>2. NoLostSave
    BY RootsAreRoots DEF Init, NoLostSave, Owed, roots
  <1>3. ReadsAreCurrent
    <2> SUFFICES ASSUME NEW r \in Root, NEW f \in FilesOf[r]
                 PROVE  /\ seen[r][f] <= disk[f] /\ attempt[r][f] <= disk[f]
                        /\ findings[r][f] <= disk[f] /\ phase[r] = "idle"
      BY DEF ReadsAreCurrent
    <2>1. f \in File
      BY FoldersAssumption DEF FoldersAssumption
    <2>2. disk[f] \in Version
      BY <1>1, <2>1 DEF TypeOK
    <2>3. QED BY <2>1, <2>2, VersionsAreOrdered DEF Init, Nothing
  <1>4. ResultsAreShown
    <2> SUFFICES ASSUME NEW r \in roots, NEW f \in FilesOf[r]
                 PROVE  answered[r][f] <= findings[r][f]
      BY DEF ResultsAreShown
    <2>1. r \in Root /\ f \in File
      BY RootsAreRoots, FoldersAssumption DEF FoldersAssumption, roots
    <2>2. QED BY <2>1, VersionsAreOrdered DEF Init, Nothing
  <1>5. OwnFilesOnly
    BY DEF Init, OwnFilesOnly, Nothing
  <1>6. BooksAreKept
    BY DEF Init, BooksAreKept
  <1>7. OneJobPerRoot /\ JobsHaveLoops
    BY DEF Init, OneJobPerRoot, JobsHaveLoops
  <1>8. KeptForScans /\ forgotten \cap kept = {} /\ ProbingShowsNothing /\ EmptyWarningIsHonest
    BY DEF Init, KeptForScans, ProbingShowsNothing, EmptyWarningIsHonest
  <1>9. QED BY <1>1, <1>2, <1>3, <1>4, <1>5, <1>6, <1>7, <1>8 DEF IInv

\* Every step keeps it.
LEMMA StepInv == IInv /\ [Next]_vars => IInv'
  BY StepType, NoLostSaveStep, ReadsStep, ResultsStep, OwnFilesStep, BooksStep, JobsStep,
     KeptStep, DroppedStep, WarnedStep DEF IInv

\* So it holds of every behaviour.
LEMMA Invariance == Spec => []IInv
  BY InitInv, StepInv, PTL DEF Spec

\* No save the server was told of is lost, whatever is coalesced, closed or fails.
THEOREM SaveNeverLost == Spec => []NoLostSave
  <1>1. IInv => NoLostSave
    BY DEF IInv
  <1>2. QED BY <1>1, Invariance, PTL

\* Scans of a folder neither overlap nor queue up behind each other.
THEOREM JobsNeverPileUp == Spec => []OneJobPerRoot
  <1>1. IInv => OneJobPerRoot
    BY DEF IInv
  <1>2. QED BY <1>1, Invariance, PTL

\* What rescan or closing a folder drops stays dropped until its next scan begins, and a closed
\* folder whose loop has ended keeps nothing, unless its last scan failed (engine.forget).
THEOREM NothingKeptClosed == Spec => []ClosedKeepsNothing
  <1>1. IInv => ClosedKeepsNothing
    BY DEF IInv, KeptForScans, ClosedKeepsNothing
  <1>2. QED BY <1>1, Invariance, PTL

\* A folder the user was told has no addons displays no findings (_report_empty).
THEOREM WarningsHonest == Spec => []EmptyWarningIsHonest
  <1>1. IInv => EmptyWarningIsHonest
    BY DEF IInv
  <1>2. QED BY <1>1, Invariance, PTL

\* A folder at rest whose last scan did not fail shows the disk.
THEOREM FreshAtRest == Spec => []RestIsFresh
  <1>1. ASSUME IInv PROVE RestIsFresh
    <2> SUFFICES ASSUME NEW r \in roots, NEW f \in FilesOf[r], phase[r] = "idle", ~Owed(r),
                        inflight[f] = 0, r \notin failed
                 PROVE  findings[r][f] = disk[f]
      BY DEF RestIsFresh
    <2>1. r \in Root /\ f \in File
      BY RootsAreRoots, FoldersAssumption DEF FoldersAssumption, roots
    <2>2. answered[r][f] = disk[f]
      BY <1>1 DEF IInv, NoLostSave
    <2>3. answered[r][f] <= findings[r][f] /\ findings[r][f] <= disk[f]
      BY <1>1, <2>1 DEF IInv, ResultsAreShown, ReadsAreCurrent
    <2>4. disk[f] \in Int /\ findings[r][f] \in Int
      BY <1>1, <2>1, VersionsAreOrdered DEF IInv, TypeOK, Snapshot
    <2>5. QED BY <2>2, <2>3, <2>4
  <1>2. QED BY <1>1, Invariance, PTL


\* Only a new result or the closing of a folder changes what is shown; the new result
\* is no older than the one before, file by file.
LEMMA FindingsStep ==
  ASSUME IInv, Next
  PROVE  \/ UNCHANGED <<requested, findings>>
         \/ UNCHANGED disk /\ \E folders : ChangeRoots(folders)
         \/ \E r \in Root :
              /\ r \in roots /\ UNCHANGED <<requested, disk>>
              /\ findings' = [findings EXCEPT ![r] = seen[r]]
              /\ \A f \in File : findings[r][f] <= seen[r][f]
              /\ \A f \in FilesOf[r] : 0 <= seen[r][f] /\ seen[r][f] <= disk[f]
  <1> USE DEF client, jobs, scan, shown, outcome, memory
  <1>1. ASSUME NEW r \in Root, ResumeScanned(r)
        PROVE  /\ r \in roots /\ UNCHANGED <<requested, disk>>
               /\ findings' = [findings EXCEPT ![r] = seen[r]]
               /\ \A f \in File : findings[r][f] <= seen[r][f]
               /\ \A f \in FilesOf[r] : 0 <= seen[r][f] /\ seen[r][f] <= disk[f]
    <2>1. phase[r] = "scanned" /\ FilesOf[r] \subseteq File
      BY <1>1, FoldersAssumption DEF ResumeScanned, FoldersAssumption
    <2>2. \A f \in FilesOf[r] : /\ findings[r][f] <= seen[r][f] /\ seen[r][f] # Absent
                                /\ seen[r][f] <= disk[f]
      BY <2>1 DEF IInv, ReadsAreCurrent
    <2>3. \A f \in FilesOf[r] : 0 <= seen[r][f]
      BY <2>1, <2>2, BoundsAssumption DEF IInv, TypeOK, Snapshot, Version, BoundsAssumption
    <2>4. \A f \in File \ FilesOf[r] : findings[r][f] <= seen[r][f]
      BY DEF IInv, OwnFilesOnly, Absent
    <2>5. QED BY <1>1, <2>2, <2>3, <2>4 DEF ResumeScanned, Publish
  <1>2. ASSUME NEW folders, ChangeRoots(folders) PROVE UNCHANGED disk
    BY <1>2 DEF ChangeRoots
  <1>3. QED
    BY <1>1, <1>2
       DEF Next, ChangeFolders, Worker, Resume, ResumeFailed, ResumeClosed, ResumeProbed,
           Save, DidSave, DisableRule, Rescan, StartRequest, SaveTimer, StartScan, FailEarly,
           ReadFile, EndScan, Probe

\* What an open folder shows of a file never goes back to an older version.
THEOREM NeverBack == Spec => NeverGoesBack
  <1>1. ASSUME IInv, [Next]_vars
        PROVE  [\A r \in roots, f \in File :
                  r \in RootsOf(requested)' => findings[r][f] <= findings'[r][f]]_vars
    <2>1. SUFFICES ASSUME Next, NEW r \in roots, NEW f \in File, r \in RootsOf(requested)'
                   PROVE  findings[r][f] <= findings'[r][f]
      BY <1>1
    <2>2. r \in Root /\ findings \in [Root -> Snapshot]
      BY <1>1, RootsAreRoots DEF IInv, TypeOK, roots
    <2>3. findings[r][f] \in Int /\ findings[r][f] <= findings[r][f]
      BY <2>2, VersionsAreOrdered DEF Snapshot
    <2>4. ASSUME NEW folders, ChangeRoots(folders) PROVE findings'[r] = findings[r]
      BY <2>1, <2>2, <2>4 DEF ChangeRoots
    <2>5. QED BY <1>1, <2>1, <2>2, <2>3, <2>4, FindingsStep
  <1>2. QED BY <1>1, Invariance, PTL DEF Spec, NeverGoesBack

\* What the editor displays is what one open folder's findings say.
THEOREM ViewIsFindings == Spec => []ViewMatchesFindings
  <1>1. ASSUME IInv PROVE ViewMatchesFindings
    <2>1. BooksAreKept
      BY <1>1 DEF IInv
    <2>2. SUFFICES ASSUME NEW u \in URI, NEW r \in Root, u \in published[r]
                   PROVE  /\ r \in roots /\ u.file \in FilesOf[r]
                          /\ view[u] = findings[r][u.file]
                          /\ \A s \in Root \ {r} : u \notin published[s]
      BY <2>1, RootsAreRoots DEF BooksAreKept, ViewMatchesFindings, roots
    <2>3. \A s \in Root \ {r} : u \notin published[s]
      BY <2>1, <2>2, OneOwner
    <2>4. QED BY <2>1, <2>2, <2>3 DEF BooksAreKept
  <1>2. QED BY <1>1, Invariance, PTL

\* A marker of an open folder's file is in that folder's books, and in no other's.
LEMMA MarkersAreOwn ==
  ASSUME BooksAreKept, NEW r \in roots, NEW s \in Root, NEW u \in published[s], u.file \in FilesOf[r]
  PROVE  s = r
  <1>1. s \in roots /\ u.file \in FilesOf[s]
    BY DEF BooksAreKept
  <1> QED BY <1>1, RootsDisjoint DEF roots

\* A result is displayed under the name the folder is open by, and nothing else of it is.
LEMMA ResultNames ==
  ASSUME BooksAreKept, NEW r \in roots, ResumeScanned(r), NEW u \in URI,
         view'[u] # Absent, u.file \in FilesOf[r]
  PROVE  u = Uri(Origin(requested, r), u.file)
  <1>1. view'[u] = IF u \in Marked(r) THEN seen[r][u.file]
                   ELSE IF u \in published[r] THEN Absent ELSE view[u]
    BY DEF ResumeScanned, Publish
  <1>2. CASE u \in Marked(r)
    BY <1>2 DEF Marked, Uri
  <1>3. CASE u \notin Marked(r)
    <2>1. u \notin published[r] /\ view[u] # Absent
      BY <1>1, <1>3
    <2>2. PICK s \in Root : u \in published[s]
      BY <2>1 DEF BooksAreKept
    <2> QED BY <2>1, <2>2, MarkersAreOwn
  <1> QED BY <1>2, <1>3

\* What happens to other folders leaves the markers of one that stays open alone.
LEMMA OthersKeepMarkers ==
  ASSUME TypeOK, BooksAreKept, NEW r \in roots, NEW u \in URI, u.file \in FilesOf[r]
  PROVE  /\ \A folders : ChangeRoots(folders) /\ r \in RootsOf(folders) => view'[u] = view[u]
         /\ \A s \in roots \ {r} : ResumeScanned(s) => view'[u] = view[u]
  <1>1. ASSUME NEW folders, ChangeRoots(folders), r \in RootsOf(folders) PROVE view'[u] = view[u]
    <2> DEFINE gone == roots \ RootsOf(folders)
    <2>1. view'[u] = IF u \in Cleared(gone) THEN Absent ELSE view[u]
      BY <1>1 DEF ChangeRoots
    <2>2. u \notin Cleared(gone)
      <3>1. \A s \in gone : s \in Root /\ s # r
        BY <1>1, RootsAreRoots DEF roots
      <3> QED BY <3>1, MarkersAreOwn DEF Cleared
    <2> QED BY <2>1, <2>2
  <1>2. ASSUME NEW s \in roots \ {r}, ResumeScanned(s) PROVE view'[u] = view[u]
    <2>1. view'[u] = IF u \in Marked(s) THEN seen[s][u.file]
                     ELSE IF u \in published[s] THEN Absent ELSE view[u]
      BY <1>2 DEF ResumeScanned, Publish
    <2>2. u \notin published[s]
      BY MarkersAreOwn, RootsAreRoots DEF roots
    <2>3. u \notin Marked(s)
      BY RootsDisjoint DEF Marked, Uri, roots
    <2> QED BY <2>1, <2>2, <2>3
  <1> QED BY <1>1, <1>2

\* A folder leaves the state in which its result is there by its own loop alone.
LEMMA ResultTaken ==
  ASSUME TypeOK, NEW r \in roots, Next, phase[r] = "scanned", phase'[r] # "scanned"
  PROVE  ResumeScanned(r)
  <1> USE DEF client, jobs, scan, shown, outcome, memory
  <1>1. r \in Root /\ phase \in [Root -> Phase]
    BY RootsAreRoots DEF roots, TypeOK
  <1>2. \A s \in Root : RequestScan(s) => phase'[r] = phase[r]
    BY <1>1 DEF RequestScan
  <1>3. \A s \in Root : NextRound(s) /\ s # r => phase'[r] = phase[r]
    BY <1>1 DEF NextRound
  <1>4. ASSUME NEW s \in Root, Resume(s) PROVE s = r /\ ResumeScanned(r)
    <2>1. CASE s # r
      BY <1>1, <1>3, <1>4, <2>1 DEF Resume, ResumeFailed, ResumeClosed, ResumeScanned, ResumeProbed
    <2>2. CASE s = r
      BY <1>1, <1>4, <2>2 DEF Resume, ResumeFailed, ResumeClosed, ResumeProbed
    <2> QED BY <2>1, <2>2
  <1>5. ASSUME NEW s \in Root, Worker(s) PROVE FALSE
    BY <1>1, <1>5 DEF Worker, StartScan, FailEarly, ReadFile, EndScan, Probe
  <1>6. ~UNCHANGED phase
    OBVIOUS
  <1> QED
    BY <1>2, <1>4, <1>5, <1>6
       DEF Next, ChangeFolders, ChangeRoots, Save, DidSave, DisableRule, Rescan, StartRequest, SaveTimer

\* Whichever of its names come and go, a folder's markers are under the one name it was open by
\* when its result was published, and change only with the next (_uri_for, _publish, _clear).
THEOREM MarkersHaveOneName == Spec => MarkersFollowName
  <1>1. ASSUME IInv, [Next]_vars
        PROVE  [\A r \in roots : r \in RootsOf(requested)' =>
                  IF phase[r] = "scanned" /\ phase'[r] # "scanned"
                  THEN \A u \in URI : view'[u] # Absent /\ u.file \in FilesOf[r]
                                       => u = Uri(Origin(requested, r), u.file)
                  ELSE \A u \in URI : u.file \in FilesOf[r] => view'[u] = view[u]]_vars
    <2> SUFFICES ASSUME Next, NEW r \in roots, r \in RootsOf(requested)', NEW u \in URI, u.file \in FilesOf[r]
                 PROVE  IF phase[r] = "scanned" /\ phase'[r] # "scanned"
                        THEN view'[u] # Absent => u = Uri(Origin(requested, r), u.file)
                        ELSE view'[u] = view[u]
      BY <1>1
    <2>1. TypeOK /\ BooksAreKept
      BY <1>1 DEF IInv
    <2>2. CASE phase[r] = "scanned" /\ phase'[r] # "scanned"
      BY <2>1, <2>2, ResultTaken, ResultNames
    <2>3. CASE ~(phase[r] = "scanned" /\ phase'[r] # "scanned")
      <3> USE DEF client, jobs, scan, shown, outcome, memory
      <3>1. ~ResumeScanned(r)
        <4>1. r \in Root /\ phase \in [Root -> Phase]
          BY <2>1, RootsAreRoots DEF roots, TypeOK
        <4> QED BY <2>3, <4>1 DEF ResumeScanned, NextRound
      <3>2. ASSUME NEW folders, ChangeRoots(folders) PROVE view'[u] = view[u]
        <4>1. r \in RootsOf(folders)
          BY <3>2 DEF ChangeRoots
        <4> QED BY <2>1, <3>2, <4>1, OthersKeepMarkers
      <3>3. ASSUME NEW s \in Root, ResumeScanned(s) PROVE view'[u] = view[u]
        <4>1. s \in roots \ {r}
          BY <3>1, <3>3 DEF ResumeScanned
        <4> QED BY <2>1, <3>3, <4>1, OthersKeepMarkers
      <3> QED
        BY <2>3, <3>2, <3>3
           DEF Next, ChangeFolders, Worker, Resume, ResumeFailed, ResumeClosed, ResumeProbed,
               Save, DidSave, DisableRule, Rescan, StartRequest, SaveTimer, StartScan, FailEarly, ReadFile, EndScan, Probe
    <2> QED BY <2>2, <2>3
  <1>2. QED BY <1>1, Invariance, PTL DEF Spec, MarkersFollowName

-----------------------------------------------------------------------------
\* The server implements the promise of DiagnosticsBoard: each step of it is a write,
\* a change of folders, a refresh, or nothing the editor can see.
THEOREM BoardRefined == Spec => ImplementsBoard
  <1>1. ASSUME Init PROVE Board!Init
    <2>1. disk \in [File -> 0..MaxVersion]
      BY <1>1 DEF Init, Version
    <2>2. QED BY <1>1, <2>1, RootsAreRoots DEF Init, Board!Init, Board!Blank, Nothing, Absent, roots
  <1>2. ASSUME IInv, [Next]_vars PROVE [Board!Next]_<<disk, roots, findings>>
    <2>1. CASE UNCHANGED vars
      BY <2>1 DEF vars, client, shown, roots
    <2>2. CASE Next
      <3>1. ASSUME UNCHANGED <<requested, findings>>
            PROVE  (\E f \in File : Board!Write(f)) \/ UNCHANGED <<disk, roots, findings>>
        BY <2>2, <3>1
           DEF Board!Write, roots, Next, ChangeFolders, Worker, Resume, ResumeFailed, ResumeClosed,
               ResumeScanned, ResumeProbed, Save, DidSave, DisableRule, Rescan, StartRequest,
               SaveTimer, StartScan, FailEarly, ReadFile, EndScan, Probe, ChangeRoots, client
      <3>2. ASSUME NEW folders, ChangeRoots(folders) PROVE Board!Folders
        BY <3>2, RootsAreRoots DEF ChangeRoots, Board!Folders, Board!Blank, Nothing, Absent, roots, client
      <3>3. ASSUME NEW r \in Root, r \in roots, UNCHANGED <<requested, disk>>,
                   findings' = [findings EXCEPT ![r] = seen[r]],
                   \A f \in File : findings[r][f] <= seen[r][f],
                   \A f \in FilesOf[r] : 0 <= seen[r][f] /\ seen[r][f] <= disk[f]
            PROVE  Board!Refresh(r)
        <4>1. findings'[r] = seen[r]
          BY <1>2, <3>3 DEF IInv, TypeOK
        <4>2. seen[r] \in [File -> -1..MaxVersion]
          BY <1>2, BoundsAssumption DEF IInv, TypeOK, Snapshot, Version, Absent, BoundsAssumption
        <4>3. QED BY <3>3, <4>1, <4>2 DEF Board!Refresh, roots
      <3>4. QED BY <1>2, <2>2, <3>1, <3>2, <3>3, FindingsStep DEF Board!Next
    <2>3. QED BY <1>2, <2>1, <2>2
  <1>3. QED BY <1>1, <1>2, Invariance, PTL DEF Spec, ImplementsBoard, Board!Spec
=============================================================================
