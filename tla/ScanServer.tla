----------------------------- MODULE ScanServer -----------------------------
(***************************************************************************)
(* The scheduling core of the language server: which workspace folders are *)
(* scanned, how requests made meanwhile are coalesced, what the one worker *)
(* thread does, and which diagnostics the editor is left showing           *)
(* (lsp/server.py and the per-folder state of lsp/engine.py).              *)
(*                                                                         *)
(* The event loop runs a coroutine from one await to the next without      *)
(* interleaving, so every action below is one such stretch; the worker     *)
(* thread reads the files of a folder one by one in between.               *)
(*                                                                         *)
(* A file is any input of a scan (an addon file, odoo-doctor.toml) and its *)
(* content is a version number; versions in Flagged carry a finding.       *)
(***************************************************************************)
EXTENDS Integers, Sequences, FiniteSets

CONSTANTS
  Path,        \* folders as the editor names them (absolute, not resolved)
  Root,        \* the real directories they stand for
  Resolve,     \* Path -> Root: Path.resolve()
  Linked,      \* the paths that reach their directory through a symlink
  Above,       \* pairs <<outer, inner>>: outer is a proper ancestor of inner
  File,        \* the inputs of the scans
  Config,      \* those that are an odoo-doctor.toml: no finding points at them
  FilesOf,     \* Root -> the files under that directory
  Plain,       \* not a path: the prefix of the URIs that use the real path
  Flagged,     \* the contents (versions) that have a finding
  Opening,     \* the lists of folders an editor may start with
  MaxVersion,  \* bound: writes per file
  MaxEvents    \* bound: folder changes and rescans

Absent == -1   \* no version: never scanned, not read, nothing displayed

Version == 0..MaxVersion

ASSUME FoldersAssumption ==
  /\ Resolve \in [Path -> Root]
  /\ Linked \subseteq Path
  /\ Plain \notin Path
  /\ Above \subseteq Root \X Root
  /\ \A r \in Root : <<r, r>> \notin Above
  /\ \A r, s, t \in Root : <<r, s>> \in Above /\ <<s, t>> \in Above => <<r, t>> \in Above
  /\ FilesOf \in [Root -> SUBSET File]
  /\ Config \subseteq File
  /\ \A r, s \in Root : r # s /\ FilesOf[r] \cap FilesOf[s] # {}
                          => <<r, s>> \in Above \/ <<s, r>> \in Above
  /\ \A folders \in Opening : folders \in Seq(Path)

ASSUME BoundsAssumption == MaxVersion \in Nat /\ MaxEvents \in Nat /\ Flagged \subseteq Nat

VARIABLES
  disk,       \* File -> Version: the content on disk
  inflight,   \* File -> didSave notifications the server has not handled
  events,     \* folder changes and rescans so far (bounded by MaxEvents)
  requested,  \* _requested: the client's folders, in the order they came
  starting,   \* Root -> request_scan tasks created by a gather, not begun
  saved,      \* _saved: roots with a save waiting out the debounce
  dirty,      \* _dirty: roots with a request not yet taken up by their loop
  phase,      \* Root -> where its scan loop is; "idle" is: not in _running
  queue,      \* the executor's jobs in order; the head is the one being done
  seen,       \* Root -> File -> the version its scan read
  kept,       \* keys of engine._reuse
  findings,   \* findings: Root -> File -> the version the last result shows
  published,  \* _published: Root -> URIs
  warned,     \* _warned_empty
  view,       \* URI -> version whose findings the editor displays
  attempt,    \* history: Root -> File -> disk when its last scan was begun
  answered,   \* history: Root -> File -> attempt of the last scan that ended
  failed,     \* history: roots whose last scan ended in an exception
  forgotten   \* history: roots forgotten since their last scan was begun

client  == <<disk, inflight>>
jobs    == <<starting, saved, dirty, phase, queue>>
scan    == <<seen, attempt>>
shown   == <<findings, published, view>>
outcome == <<answered, failed>>
memory  == <<kept, forgotten>>
vars == <<client, events, requested, jobs, scan, shown, warned, outcome, memory>>
-----------------------------------------------------------------------------
(* Folders *)

\* Mutant: a folder nested in another one is scanned as well.
RootsWithNested(folders) == {Resolve[folders[i]] : i \in DOMAIN folders}

\* set_roots: the resolved folders, without duplicates or nested ones.
RootsOf(folders) ==
  LET resolved == {Resolve[folders[i]] : i \in DOMAIN folders}
  IN {r \in Root : r \in resolved /\ \A s \in resolved : <<s, r>> \notin Above}

\* _origin.get(r, r): the first of the client's folders that stands for r, if any.
Origin(folders, r) ==
  LET names == {i \in DOMAIN folders : Resolve[folders[i]] = r}
  IN IF names = {} THEN Plain ELSE folders[CHOOSE i \in names : \A j \in names : i <= j]

roots == RootsOf(requested)

URI == [under : Path \cup {Plain}, file : File]

\* _uri_for: a real path and the real directory give the same URI.
Uri(path, f) == [under |-> IF path \in Linked THEN path ELSE Plain, file |-> f]

Nothing == [f \in File |-> Absent]

Init ==
  /\ disk \in [File -> {0, 1} \cap Version]
  /\ inflight = [f \in File |-> 0]
  /\ events = 0
  /\ requested \in Opening                                  \* initialize
  /\ starting = [r \in Root |-> IF r \in roots THEN 1 ELSE 0]  \* initialized
  /\ saved = {} /\ dirty = {} /\ queue = <<>>
  /\ phase = [r \in Root |-> "idle"]
  /\ seen = [r \in Root |-> Nothing]
  /\ attempt = [r \in Root |-> Nothing]
  /\ answered = [r \in Root |-> Nothing]
  /\ findings = [r \in Root |-> Nothing]
  /\ published = [r \in Root |-> {}]
  /\ view = [u \in URI |-> Absent]
  /\ kept = {} /\ forgotten = {} /\ failed = {} /\ warned = {}
-----------------------------------------------------------------------------
(* Requests *)

\* Mutant: "already running" is checked before the request is noted.
RequestScanChecksRunningFirst(r) ==
  IF r \in roots /\ phase[r] = "idle"
  THEN phase' = [phase EXCEPT ![r] = "queued"] /\ queue' = Append(queue, r) /\ UNCHANGED dirty
  ELSE UNCHANGED <<dirty, phase, queue>>

\* request_scan up to its first await.
RequestScan(r) ==
  \/ /\ r \notin roots
     /\ UNCHANGED <<dirty, phase, queue>>
  \/ /\ r \in roots /\ phase[r] # "idle"
     /\ dirty' = dirty \cup {r}
     /\ UNCHANGED <<phase, queue>>
  \/ /\ r \in roots /\ phase[r] = "idle"
     /\ dirty' = dirty \ {r}
     /\ phase' = [phase EXCEPT ![r] = "queued"]
     /\ queue' = Append(queue, r)

\* A task made by asyncio.gather(request_scan(r), ...) gets its first turn.
StartRequest(r) ==
  /\ starting[r] > 0
  /\ starting' = [starting EXCEPT ![r] = @ - 1]
  /\ RequestScan(r)
  /\ UNCHANGED <<client, events, requested, saved, scan, shown, warned, outcome, memory>>

\* The user saves f in the editor, which writes it and then tells the server.
Save(f) ==
  /\ disk[f] < MaxVersion
  /\ disk' = [disk EXCEPT ![f] = @ + 1]
  /\ inflight' = [inflight EXCEPT ![f] = @ + 1]
  /\ UNCHANGED <<events, requested, jobs, scan, shown, warned, outcome, memory>>

\* root_of: the scan roots a file lies in (there is one at most).
Owners(f) == {r \in roots : f \in FilesOf[r]}

\* did_save: the folder f lies in (root_of) starts or shares a debounce wait.
DidSave(f) ==
  /\ inflight[f] > 0
  /\ inflight' = [inflight EXCEPT ![f] = @ - 1]
  /\ saved' = saved \cup Owners(f)
  /\ UNCHANGED <<disk, events, requested, starting, dirty, phase, queue,
                 scan, shown, warned, outcome, memory>>

\* request_scan_after_save: the wait is over.
SaveTimer(r) ==
  /\ r \in saved
  /\ saved' = saved \ {r}
  /\ RequestScan(r)
  /\ UNCHANGED <<client, events, requested, starting, scan, shown, warned, outcome, memory>>

\* disable_rule: writes odoo-doctor.toml (the file f) and asks for a scan at once.
DisableRule(r, f) ==
  /\ r \in roots /\ f \in FilesOf[r] \cap Config
  /\ disk[f] < MaxVersion
  /\ disk' = [disk EXCEPT ![f] = @ + 1]
  /\ RequestScan(r)
  /\ UNCHANGED <<inflight, events, requested, starting, saved, scan, shown, warned, outcome, memory>>

\* Mutant: the requests are never scheduled.
GatherNothing(rs) == starting

\* asyncio.gather(*(request_scan(r) for r in rs)): a task per folder, begun later.
Gather(rs) == [r \in Root |-> IF r \in rs THEN starting[r] + 1 ELSE starting[r]]

\* rescan: forget every folder, then gather a request for each.
Rescan ==
  /\ events < MaxEvents
  /\ events' = events + 1
  /\ kept' = kept \ roots
  /\ forgotten' = forgotten \cup roots
  /\ starting' = Gather(roots)
  /\ UNCHANGED <<client, requested, saved, dirty, phase, queue, scan, shown, warned, outcome>>

\* What a didChangeWorkspaceFolders event makes of the client's folders.
Folders(removed, added) ==
  LET staying[n \in 0..Len(requested)] ==
        IF n = 0 THEN <<>>
        ELSE IF requested[n] \in removed THEN staying[n - 1] ELSE Append(staying[n - 1], requested[n])
  IN staying[Len(requested)] \o added

\* _clear: the URIs that get an empty list of diagnostics.
Cleared(gone) == UNION {published[r] : r \in gone}

\* change_roots with _clear of every root that is gone.
ChangeRoots(folders) ==
  LET gone    == roots \ RootsOf(folders)
      new     == RootsOf(folders) \ roots
  IN /\ events < MaxEvents
     /\ events' = events + 1
     /\ requested' = folders
     /\ kept' = kept \ gone
     /\ forgotten' = forgotten \cup gone
     /\ findings'  = [r \in Root |-> IF r \in gone THEN Nothing ELSE findings[r]]
     /\ published' = [r \in Root |-> IF r \in gone THEN {} ELSE published[r]]
     /\ view' = [u \in URI |-> IF u \in Cleared(gone) THEN Absent ELSE view[u]]
     /\ starting' = Gather(new)
     /\ answered' = [r \in Root |-> IF r \in new THEN Nothing ELSE answered[r]]
     /\ UNCHANGED <<client, saved, dirty, phase, queue, scan, warned, failed>>

\* What an editor sends: it removes open folders and adds folders it has not open.
ChangeFolders ==
  LET open == {requested[i] : i \in DOMAIN requested}
  IN \E removed \in SUBSET open, added \in {<<>>} \cup {<<p>> : p \in Path \ open} :
       /\ removed # {} \/ added # <<>>
       /\ ChangeRoots(Folders(removed, added))
-----------------------------------------------------------------------------
(* The worker thread *)

DiskOf(r) == [f \in File |-> IF f \in FilesOf[r] THEN disk[f] ELSE Absent]

Working(r) == queue # <<>> /\ r = Head(queue)

\* scan_project takes the folder's kept state, or an empty one.
StartScan(r) ==
  /\ Working(r) /\ phase[r] = "queued"
  /\ phase' = [phase EXCEPT ![r] = "scanning"]
  /\ seen' = [seen EXCEPT ![r] = Nothing]
  /\ attempt' = [attempt EXCEPT ![r] = DiskOf(r)]
  /\ kept' = kept \cup {r}
  /\ forgotten' = forgotten \ {r}
  /\ UNCHANGED <<client, events, requested, starting, saved, dirty, queue, shown, warned, outcome>>

\* load_config (or the loading of plugins) raises before any state is taken.
FailEarly(r) ==
  /\ Working(r) /\ phase[r] = "queued"
  /\ phase' = [phase EXCEPT ![r] = "failed"]
  /\ queue' = Tail(queue)
  /\ attempt' = [attempt EXCEPT ![r] = DiskOf(r)]
  /\ UNCHANGED <<client, events, requested, starting, saved, dirty, seen, shown, warned, outcome, memory>>

\* The scan reads one more file.
ReadFile(r, f) ==
  /\ Working(r) /\ phase[r] = "scanning"
  /\ f \in FilesOf[r] /\ seen[r][f] = Absent
  /\ seen' = [seen EXCEPT ![r][f] = disk[f]]
  /\ UNCHANGED <<client, events, requested, jobs, attempt, shown, warned, outcome, memory>>

\* The scan has read its whole folder.
ReadAll(r) == \A f \in FilesOf[r] : seen[r][f] # Absent

\* The scan returns, or a rule raises.
EndScan(r) ==
  /\ Working(r) /\ phase[r] = "scanning"
  /\ queue' = Tail(queue)
  /\ \/ /\ ReadAll(r)
        /\ phase' = [phase EXCEPT ![r] = "scanned"]
     \/ phase' = [phase EXCEPT ![r] = "failed"]
  /\ UNCHANGED <<client, events, requested, starting, saved, dirty, scan, shown, warned, outcome, memory>>

\* addons_found: some addon, none, or an error.
Probe(r) ==
  /\ Working(r) /\ phase[r] = "probing"
  /\ queue' = Tail(queue)
  /\ \E answer \in {"found", "none", "unknown"} : phase' = [phase EXCEPT ![r] = answer]
  /\ UNCHANGED <<client, events, requested, starting, saved, dirty, scan, shown, warned, outcome, memory>>
-----------------------------------------------------------------------------
(* The scan loop of a folder resumes on the event loop *)

\* "while root in self._dirty", or the end of the loop.
NextRound(r) ==
  \/ /\ r \in dirty
     /\ dirty' = dirty \ {r}
     /\ phase' = [phase EXCEPT ![r] = "queued"]
     /\ queue' = Append(queue, r)
  \/ /\ r \notin dirty
     /\ phase' = [phase EXCEPT ![r] = "idle"]
     /\ UNCHANGED <<dirty, queue>>

\* The result has been used and the scan counts as ended.
Ended(r) ==
  /\ answered' = [answered EXCEPT ![r] = attempt[r]]
  /\ seen' = [seen EXCEPT ![r] = Nothing]
  /\ attempt' = [attempt EXCEPT ![r] = Nothing]

\* Mutant: what was read before the failure counts as the result.
ResumeFailedPublishes(r) ==
  /\ phase[r] = "failed" /\ NextRound(r) /\ Ended(r)
  /\ findings' = [findings EXCEPT ![r] = seen[r]] /\ failed' = failed \cup {r}
  /\ UNCHANGED <<client, events, requested, starting, saved, published, view, warned, memory>>

\* The scan raised: logged, and a request that came meanwhile gets its rerun.
ResumeFailed(r) ==
  /\ phase[r] = "failed"
  /\ NextRound(r)
  /\ Ended(r)
  /\ failed' = failed \cup {r}
  /\ UNCHANGED <<client, events, requested, starting, saved, shown, warned, memory>>

\* Mutant: the loop ends without forgetting the folder.
ResumeClosedKeeps(r) ==
  /\ phase[r] = "scanned" /\ r \notin roots
  /\ phase' = [phase EXCEPT ![r] = "idle"] /\ Ended(r) /\ failed' = failed \ {r}
  /\ UNCHANGED <<client, events, requested, starting, saved, dirty, queue, shown, warned, memory>>

\* Mutant: the folder is not looked up again after the scan.
ResumeClosedPublishes(r) ==
  /\ phase[r] = "scanned" /\ r \notin roots
  /\ findings' = [findings EXCEPT ![r] = seen[r]]
  /\ phase' = [phase EXCEPT ![r] = "idle"] /\ Ended(r) /\ failed' = failed \ {r}
  /\ UNCHANGED <<client, events, requested, starting, saved, dirty, queue, published, view, warned, memory>>

\* The folder was closed during the scan: the result is dropped.
ResumeClosed(r) ==
  /\ phase[r] = "scanned" /\ r \notin roots
  /\ phase' = [phase EXCEPT ![r] = "idle"]
  /\ kept' = kept \ {r}
  /\ forgotten' = forgotten \cup {r}
  /\ Ended(r)
  /\ failed' = failed \ {r}
  /\ UNCHANGED <<client, events, requested, starting, saved, dirty, queue, shown, warned>>

\* Mutant: only files are told that they have no finding any more, not names.
PublishByFile(r, uris) ==
  /\ findings' = [findings EXCEPT ![r] = seen[r]]
  /\ published' = [published EXCEPT ![r] = uris]
  /\ view' = [u \in URI |-> IF u \in uris THEN seen[r][u.file]
                            ELSE IF u \in published[r] /\ \A x \in uris : x.file # u.file
                            THEN Absent ELSE view[u]]

\* _publish: diagnostics of the files with findings, none for those that had some.
Publish(r, uris) ==
  /\ findings' = [findings EXCEPT ![r] = seen[r]]
  /\ published' = [published EXCEPT ![r] = uris]
  /\ view' = [u \in URI |-> IF u \in uris THEN seen[r][u.file]
                            ELSE IF u \in published[r] THEN Absent ELSE view[u]]

\* The URIs of the files with findings, under the path the client knows the folder by.
Marked(r) == {Uri(Origin(requested, r), f) : f \in {g \in FilesOf[r] \ Config : seen[r][g] \in Flagged}}

\* Mutant: a folder that shows findings again stays marked as told.
WarnedAfterAll(r) == warned

\* _report_empty up to its await: the warning may be given again later.
WarnedAfter(r) == warned \ {r}

\* The result is published; an empty one asks the worker whether there is an addon.
ResumeScanned(r) ==
  /\ phase[r] = "scanned" /\ r \in roots
  /\ Publish(r, Marked(r))
  /\ \/ /\ Marked(r) # {}
        /\ warned' = WarnedAfter(r)
        /\ NextRound(r)
     \/ /\ Marked(r) = {}
        /\ phase' = [phase EXCEPT ![r] = "probing"]
        /\ queue' = Append(queue, r)
        /\ UNCHANGED <<dirty, warned>>
  /\ Ended(r)
  /\ failed' = failed \ {r}
  /\ UNCHANGED <<client, events, requested, starting, saved, memory>>

\* _report_empty after its await: warn once, until an addon is seen again.
ResumeProbed(r) ==
  /\ \/ phase[r] = "found"   /\ warned' = warned \ {r}
     \/ phase[r] = "none"    /\ warned' = warned \cup {r}
     \/ phase[r] = "unknown" /\ UNCHANGED warned
  /\ NextRound(r)
  /\ UNCHANGED <<client, events, requested, starting, saved, scan, shown, outcome, memory>>
-----------------------------------------------------------------------------
Worker(r) ==
  \/ StartScan(r) \/ FailEarly(r) \/ EndScan(r) \/ Probe(r)
  \/ \E f \in File : ReadFile(r, f)

Resume(r) == ResumeFailed(r) \/ ResumeClosed(r) \/ ResumeScanned(r) \/ ResumeProbed(r)

Next ==
  \/ \E f \in File : Save(f) \/ DidSave(f)
  \/ \E r \in Root, f \in File : DisableRule(r, f)
  \/ Rescan \/ ChangeFolders
  \/ \E r \in Root : StartRequest(r) \/ SaveTimer(r) \/ Worker(r) \/ Resume(r)

\* Messages are delivered, timers fire, ready tasks get a turn and the worker works
\* (a scan ends: the rules and linters it runs are bounded). The user is not fair.
Fairness ==
  /\ \A f \in File : WF_vars(DidSave(f))
  /\ \A r \in Root : /\ WF_vars(StartRequest(r)) /\ WF_vars(SaveTimer(r))
                     /\ WF_vars(Worker(r)) /\ WF_vars(Resume(r))

Spec == Init /\ [][Next]_vars
FairSpec == Spec /\ Fairness
-----------------------------------------------------------------------------
(* Properties *)

Phase == {"idle", "queued", "scanning", "scanned", "failed",
          "probing", "found", "none", "unknown"}

Snapshot == [File -> Version \cup {Absent}]

TypeOK ==
  /\ disk \in [File -> Version]
  /\ inflight \in [File -> Nat]
  /\ events \in 0..MaxEvents
  /\ starting \in [Root -> Nat]
  /\ saved \subseteq Root /\ dirty \subseteq Root
  /\ phase \in [Root -> Phase]
  /\ queue \in Seq(Root)
  /\ seen \in [Root -> Snapshot]
  /\ attempt \in [Root -> Snapshot]
  /\ answered \in [Root -> Snapshot]
  /\ findings \in [Root -> Snapshot]
  /\ published \in [Root -> SUBSET URI]
  /\ view \in [URI -> Version \cup {Absent}]
  /\ kept \subseteq Root /\ forgotten \subseteq Root
  /\ failed \subseteq Root /\ warned \subseteq Root

\* A scan under way has read every file no earlier than it began, and no file before
\* the version its folder already shows; nothing is newer than the disk.
ReadsAreCurrent ==
  \A r \in Root : \A f \in FilesOf[r] :
    /\ seen[r][f] <= disk[f] /\ attempt[r][f] <= disk[f] /\ findings[r][f] <= disk[f]
    /\ phase[r] \in {"scanning", "scanned"} /\ seen[r][f] # Absent
         => attempt[r][f] <= seen[r][f] /\ findings[r][f] <= seen[r][f]
    /\ phase[r] = "scanned" => seen[r][f] # Absent

\* An open folder shows at least what its last scan set out to see, unless it failed.
ResultsAreShown ==
  \A r \in roots : \A f \in FilesOf[r] :
    r \notin failed => answered[r][f] <= findings[r][f]

\* A folder's scans know its own files only.
OwnFilesOnly ==
  \A r \in Root : \A f \in File \ FilesOf[r] :
    seen[r][f] = Absent /\ findings[r][f] = Absent

\* The server's books on what it published: an open folder's URIs name its own files
\* and show its findings, a closed folder has none, and no other marker is left.
BooksAreKept ==
  /\ \A r \in Root \ roots : published[r] = {}
  /\ \A r \in Root : \A u \in published[r] :
       u.file \in FilesOf[r] /\ view[u] = findings[r][u.file]
  /\ \A u \in URI : view[u] # Absent => \E r \in Root : u \in published[r]

\* What the editor displays is, file by file, what the findings of one open folder
\* say: a closed folder, a dropped result or an overlapping folder leaves nothing
\* behind, so hovers and quick fixes (findings_for) answer for what is displayed.
ViewMatchesFindings ==
  \A u \in URI :
    \/ /\ view[u] = Absent
       /\ \A r \in roots : u \notin published[r]
    \/ \E r \in roots :
         /\ u \in published[r] /\ u.file \in FilesOf[r]
         /\ view[u] = findings[r][u.file]
         /\ \A s \in Root \ {r} : u \notin published[s]

\* A folder's result puts its markers under the one name that the editor has it open by at the
\* time: what was displayed under a name that was closed since goes with it, and no other
\* folder's result, opening or closing touches them ("under the path the client opened the folder
\* with", _uri_for).
MarkersFollowName ==
  [][\A r \in roots : r \in RootsOf(requested)' =>
       IF phase[r] = "scanned" /\ phase'[r] # "scanned"
       THEN \A u \in URI : view'[u] # Absent /\ u.file \in FilesOf[r]
                            => u = Uri(Origin(requested, r), u.file)
       ELSE \A u \in URI : u.file \in FilesOf[r] => view'[u] = view[u]]_vars

\* Something will still lead to a scan of r that starts from now on.
Owed(r) ==
  \/ starting[r] > 0
  \/ r \in saved
  \/ phase[r] = "queued"
  \/ r \in dirty /\ phase[r] # "idle"

\* No save is lost: when an open folder owes no scan, its last scan began after the
\* last write the server was told of (or is at work on it), whatever was coalesced,
\* closed, reopened or failed meanwhile.
NoLostSave ==
  \A r \in roots : \A f \in FilesOf[r] :
    \/ Owed(r) \/ inflight[f] > 0
    \/ phase[r] \in {"scanning", "scanned", "failed"} /\ attempt[r][f] = disk[f]
    \/ phase[r] \notin {"scanning", "scanned", "failed"} /\ answered[r][f] = disk[f]

\* A folder at rest whose last scan did not fail shows the files as they are on disk.
RestIsFresh ==
  \A r \in roots : \A f \in FilesOf[r] :
    phase[r] = "idle" /\ ~Owed(r) /\ inflight[f] = 0 /\ r \notin failed
      => findings[r][f] = disk[f]

\* The executor never holds two jobs of one folder: requests made during a scan are
\* merged into one rerun, and scans of a folder do not overlap or queue up.
OneJobPerRoot ==
  \A i, j \in 1..Len(queue) : queue[i] = queue[j] => i = j

\* Every job is the one its folder's loop is waiting for.
JobsHaveLoops ==
  \A i \in 1..Len(queue) : phase[queue[i]] \in {"queued", "scanning", "probing"}

\* Results are never published out of order: what an open folder shows of a file
\* never goes back to an older version, across coalescing, failures and reopening.
NeverGoesBack ==
  [][\A r \in roots, f \in File :
       r \in RootsOf(requested)' => findings[r][f] <= findings'[r][f]]_vars

\* A scan under way does not bring back what rescan or closing a folder dropped: the next scan
\* of the folder begins with nothing kept (engine.forget). And once its loop has ended, a closed
\* folder holds no results of old scans in memory, except when that last scan failed (the loop
\* then leaves before forget).
ClosedKeepsNothing ==
  /\ forgotten \cap kept = {}
  /\ \A r \in kept \ roots : phase[r] # "idle" \/ r \in failed

\* A folder the user was told has no addons displays no findings.
EmptyWarningIsHonest == \A r \in warned : published[r] = {}

\* What is kept of a closed folder belongs to a scan that is still to end, or that failed.
KeptForScans ==
  \A r \in kept \ roots : phase[r] \in {"queued", "scanning", "scanned", "failed"} \/ r \in failed

\* The worker is asked for addons only after an empty result was published.
ProbingShowsNothing ==
  \A r \in Root : phase[r] \in {"probing", "found", "none", "unknown"} => published[r] = {}

\* The inductive invariant behind the safety properties above.
IInv == TypeOK /\ NoLostSave /\ ReadsAreCurrent /\ ResultsAreShown /\ OwnFilesOnly
        /\ BooksAreKept /\ OneJobPerRoot /\ JobsHaveLoops
        /\ KeptForScans /\ forgotten \cap kept = {} /\ ProbingShowsNothing /\ EmptyWarningIsHonest

\* The promise to a client: what is shown is some earlier state of the open folders.
Board == INSTANCE DiagnosticsBoard WITH open <- roots, board <- findings
ImplementsBoard == Board!Spec

\* Every write to an open folder that the server is told of is followed by a scan
\* that began after it and ended, unless the folder is closed: no request starves,
\* none waits on another, and the failure of one scan does not stop the next.
SavesAreAnswered ==
  \A r \in Root, f \in File :
    f \in FilesOf[r] =>
      \A v \in Version :
        (r \in roots /\ disk[f] = v) ~> (r \notin roots \/ answered[r][f] >= v)
=============================================================================
