# A TLA+ model of odoo-doctor

odoo-doctor scans Odoo addons: it discovers them, builds a graph of their models and XML ids,
runs native rules, linters and plugins, filters the findings in seven stages, scores each addon,
and reports on the command line, in CI or in an editor through a language server. It can also fix
some findings, keep a baseline and a history, and cache whole results. The modules here model the
parts whose correctness depends on the order in which things happen, and the pure parts where a
count, a match or a boundary can be wrong. Paths below are relative to `src/src/odoo_doctor`
unless they start with `src/`.

## The system

| Part | Source | State it keeps | Operations | What makes it correct |
|---|---|---|---|---|
| language server | `lsp/server.py`, `lsp/engine.py` | folders and the names they were opened under, findings, published files, the running, dirty and saved sets, the worker's queue, the table of reuse | open and close folders, save, rescan, switch a rule off, the scan loop, publish, warn, forget | no save is lost; nothing goes back to an older result; what is displayed is what the findings say; a closed folder leaves nothing |
| scan reuse | `core/reuse.py`, `core/source.py`, `core/scanner.py` | stamps, racy hashes, the last result, findings kept per file and per linter, the process-wide source cache | stamp, hit or run, keep, forget | a scan that reuses reports what one from scratch would |
| scan cache | `core/cache.py`, `adapters/cache.py` | one JSON file, shared by processes | load, fingerprint, look up, scan, store, replace | a hit is the live result; a crash leaves a whole entry |
| finding pipeline | `core/pipeline.py`, `core/suppression_stats.py`, `rules/suppression.py` | the list of findings, the dropped ones by channel, counts | normalize, deduplicate, severity, ignore, comments, gates, counts, score eligibility | each finding is shown or counted once; the configuration decides before a comment |
| fixer | `core/fixer.py`, `rules/manifest/fixers.py`, `rules/upgrade_safety/fixers.py`, `cli/app.py` | new texts in memory, temporary files | scan, read, apply fixers from the last line up, write | files stay whole; nothing is fixed in the wrong place; the data list still loads |
| scoring | `core/scoring.py`, `core/roi.py` | none | score a module, rank fixes | bounds, caps, no category counted twice |
| rule registry and plugins | `rules/registry.py`, `rules/plugins.py`, `lsp/engine.py` | registered rules, loaded plugins | load, refuse, roll back | a failed plugin leaves no rule behind; allow lists apply |
| project graph, resolver | `graph/*.py` | modules, models, XML ids | merge declarations, three-valued lookup along `_inherit` | the merge does not depend on order; "missing" only when the model is complete |
| configuration | `core/config.py`, `core/config_edit.py` | `odoo-doctor.toml` | load, edit in place | no other line changes; no lost edit |
| baseline, history, badge | `core/baseline.py`, `core/history.py`, `reporters/badge.py` | JSON and JSONL files | write, compare, append, read back | a torn line hides itself only; the right pair is compared |
| git delta | `core/git.py` | a temporary worktree | add, scan, remove | removed on every path |
| command line | `cli/app.py`, `core/upgrade.py` | none | scan flow, artifacts, exit codes | every artifact that was asked for; exit code by the documented order |
| pull request comment | `reporters/pr_comment.py` | a comment on a forge | list, choose, update or create | one comment per pull request |
| adapters | `adapters/*` | none | run Ruff and Pylint-Odoo | a failure is a warning, never an empty result |
| discovery, parsers | `discovery/*`, `parsers/*` | source cache only | find addons, detect versions, parse | what the rules are told of a text is in the text |
| native rules | `rules/*/` | none, but for the analysis within one call | 57 checks over one file or the graph | high confidence is never wrong; silence where a caller decides is |
| editor features | `lsp/actions.py`, `lsp/hover.py` | the buffer, the file, the findings of the last scan | quick fixes, hovers | a fix applies to the text it was made for, and does what its title says |
| VS Code client | `src/editors/vscode/src/extension.ts` | the language client | start, stop, restart | no second server |
| reporters, rule docs, scripts | `reporters/*`, `rules/rule_docs.py`, `src/scripts/*` | none | formatting | |

How they interact. The command line and the language server both call `collect_scores`
(`core/scanner.py`): discovery, graph, rules, linters, pipeline, scores. The command line may go
through the scan cache; the language server calls it in one worker thread and hands it the
folder's reuse table. Everything that reads a source file goes through the process-wide source
cache. The fixer runs on what the pipeline lets through; the editor's quick fixes use the same
fixers on the open buffer. Configuration edits made by the server change the input of its own next
scan.

What is hard. Requests, saves, timers, folder changes and results of the one worker meet in the
server's event loop in any order. Files are written while a scan reads them, with clocks that tick
more slowly than editors save and tools that set times back. Several processes share the cache
file, and each may die at any step. The pipeline must judge a finding for the counts by the same
switches as for the list, in one order. Fixers name lines of a text that has changed since.

## Modules

| Module | Models | Source |
|---|---|---|
| `DiagnosticsBoard` | what the server promises an editor: versions of files shown per open folder, never older than before, wiped on closing | (abstract) |
| `ScanServer` | the event loop, the scan loops, the worker, the published files | `lsp/server.py`, `lsp/engine.py` |
| `ScanReuse` | one folder's scan with everything it keeps, over files with mtime, ctime and size | `core/reuse.py`, `core/source.py`, `core/scanner.py`, `lsp/engine.py` |
| `ScanCache` | `--cache` processes that share a file | `core/cache.py`, `adapters/cache.py`, `core/scanner.py` |
| `Pipeline` | the stages of `run_pipeline_with_stats`, the counts and the noise verdict | `core/pipeline.py`, `core/suppression_stats.py`, `rules/suppression.py` |
| `EditorActions` | quick fixes and hovers on a text that is edited, saved and scanned | `lsp/actions.py`, `lsp/hover.py`, `rules/suppression.py` |
| `Fixer` | `odoo-doctor fix` from scan to write | `core/fixer.py`, `cli/app.py`, `rules/upgrade_safety/` |
| `DataOrder` | the fixer of the manifest's data list, a pure algorithm applied repeatedly | `rules/manifest/fixers.py`, `rules/manifest/data_order_risk.py` |
| `Scoring` | impact, category scores, blend, project mean, the ranking of fixes, what a surface shows | `core/scoring.py`, `core/roi.py`, `core/surfaces.py` |
| `Baseline`, `History` | identities of accepted findings in three formats; a JSONL file with torn lines | `core/baseline.py`, `core/history.py` |
| `CiJobs` | scan and history commands as processes that share these files and a pull request's comments | `cli/app.py`, `core/git.py`, `reporters/pr_comment.py` |
| `Plugins`, `ConfigEdit` | the registry while third-party code loads; the text of `odoo-doctor.toml` and its edit in place | `rules/registry.py`, `rules/plugins.py`, `core/config.py`, `core/config_edit.py` |
| `RuleSet` | both in one server with several folders, next to commands that edit the same files | `lsp/engine.py`, `lsp/server.py`, `cli/app.py` |
| `Taint` | the taint analysis, and what a function does when it runs | `rules/_taint.py` |
| `RawSql`, `Dispatch` | raw SQL through private helpers; methods called by name | `rules/security/raw_sql_interpolation.py`, `dynamic_method_dispatch.py` |
| `RpcSudo`, `Routes` | elevated rights on what a client picked; routes that elevate without a login | `rules/security/rpc_sudo_without_access_check.py`, `public_controller_sudo.py`, `parsers/python_models.py` |
| `LoopCalls` | ORM calls in loops, and which do the same on every pass | `rules/performance/*_in_loop.py`, `rules/_ast_helpers.py` |
| `ModelGraph`, `Resolver` | how the classes of the addons become one entry per model; three-valued lookup of members, with stubs | `graph/module_context.py`, `parsers/python_models.py`, `graph/resolver.py` |
| `GraphRules` | dependencies, packages and ids of core that are said to be missing; the rows of `ir.model.access.csv` against the addon's models | `rules/manifest/`, `rules/upgrade_safety/`, `rules/security/*access*.py`, `parsers/security_csv.py`, `graph/*.py` |
| `Migration` | the migration rules whose findings are called mechanical, and their fixers, on a data record | `core/upgrade.py`, `rules/upgrade_safety/` |
| `Views`, `XmlIds` | fields and buttons of views with their subviews; two declarations of one id | `parsers/xml_records.py`, `rules/xml/` |
| `Judging`, `Rules` | one rule called on one input; what each promises | `core/scanner.py` (`Rules` composes the rule modules) |
| `ScanServerProofs`, `ScanReuseProofs`, `ScanCacheProofs`, `PipelineProofs`, `FixerProofs`, `RuleSetProofs`, `CiJobsProofs` | inductive invariants and theorems (`PipelineProofs` has those of `EditorActions`, `FixerProofs` of `DataOrder`, `CiJobsProofs` of `Scoring`, `RuleSetProofs` of `XmlIds`, `Dispatch`, `GraphRules` and `Resolver`) | |
| `SetInduction` | induction and recursion over numbers and finite sets; listings of finite sets in an order | |
| `MC*` | instances for TLC | |

A comment that begins with "Mutant:" (or "A bug to rule out:") marks a deliberately wrong variant of the
definition after it. No specification uses it. It is there to show that a property fails when the code has
that bug.

### ScanServer

Each action is a stretch of a coroutine from one `await` to the next (the event loop runs nothing
else in between), or one step of the worker thread. `requested`, `saved`, `dirty`, `kept`,
`findings`, `published` and `warned` are the server's own fields; `phase` is where the loop of a
folder stands and replaces `_running` ("idle" means: not in the set); `queue` is the executor's;
`starting` are tasks created and not begun. A file is a version number; a scan reads the files of
its folder one by one, so it can see some before and some after a write. A save is a write followed
by a notification that arrives later (`inflight`). A folder has one or several names (`Path`) and
one directory (`Root`), and directories nest.

`ScanServer` implements `DiagnosticsBoard` with the refinement mapping `open <- roots`,
`board <- findings`.

Fairness: notifications are delivered, debounce timers fire, tasks that are ready get a turn, and
the worker goes on. The code justifies this: asyncio runs ready callbacks in order, the timer is an
`asyncio.sleep`, the executor is first in, first out, and rules and linters have time limits. The user,
who writes files and opens folders, is not fair. Each condition is weak fairness per file or folder;
no strong fairness is needed because no step is disabled again by another folder's step for ever.

### ScanReuse

A file has a content, an mtime and a ctime; writing sets both times to the clock. `setting` fixes for a
behaviour what may happen besides: a tool sets mtime back (`restorable`), a file is written twice within
a tick (`coarse`), a file is deleted (`fleeting`), files are written between any two reads of a scan
(`overlap`). A scan goes through discover, stamp, manifests, models, rules and lint. `env` is one number
for the configuration, the set of rules and the linters. `reuse` is what the engine's table holds, `held`
what the running scan was given: forgetting removes the entry from the table, not from the scan.
The process-wide source cache is the set `lru`, from which entries may vanish at any time. Not modelled
in it: the index of an Odoo source tree, plugin rules (they run on every scan), `--diff`.

### ScanCache

Each process walks the files, hashes those with a hashed suffix (of the others only the name
counts), compares the fingerprint with the entry it loaded, scans when they differ, stores, and
replaces the file by a temporary one. It may die between any two steps. `env` stands for everything
else in the fingerprint. `quiet` records that nothing was written while the process ran.

### Pipeline and EditorActions

The state of `Pipeline` is the list of findings as a set of positions in the list that came in, what each
channel has dropped, and the stage. Paths are resolved in the first stage: before that, two spellings of one
file are two files. Globs are decided per file. Finding the comments in a text is left out; which
lines or files a comment silences is not.

`EditorActions` has three texts: the editor's buffer (`draft`), the file (`page`) and the text the
displayed findings were made from (`shownFrom`). They are edited, saved and scanned in any order; an action
offered in between uses the line numbers of the third on the text of the first. A line has an
identity, so that "the same statement" means something while lines move. What a line says is reduced to
what the quick fixes look at: the rules that flag it, the comment on it, whether it leaves a string or a
tag open. `deed` is the last accepted action with the text before it.

### Fixer and DataOrder

A text is a list of elements, each of a record, with an offence and the lines its tag and content
take. Findings are made from the text on disk during the scan, with the line of the element; the
text is read again for fixing, and each fixer looks for its place in the running text by line, as
`record_span` and `tags_ending_on_line` do. Replacing a chatter takes lines away, adding a manifest field
adds one. Somebody may save any file (with any of its possible texts) or delete it at every step;
the command may be killed at every step. An element that is `hard` is a sure offence which the fixer
declines: a manifest without a name, with an empty value or without a comma at its end, a tag that the text
and the parsed tree count differently, an offence that is there again after the edit. Each field that a manifest
lacks is a finding of its own on line 1, and the first of them to be fixed adds all that can be added. `skipped`
holds the declined findings of each file, which the command reports. Elements start on lines of their own, and the
fixer of Python files is left out.

`DataOrder` computes, for a data list and what each file creates, needs, declares and mentions, the
high findings, the target of each move, whether a move is safe, and the rearranged list. The new
list is given by its order (`Sorted`), not built by a loop.

### CiJobs, with Scoring, Baseline and History

A job is one process and goes through the stages its options ask for, in the order of `cli/app.py`:
write the baseline (truncate, then write) and stop; or leave out the accepted findings and score the modules
that still have one, compare with the base commit, take the time, append to the history, write the HTML
report, list the comments of the pull request, send a request, and judge the gates. Between two stages
other jobs run, and a job may be killed, within an append too. A baseline identity has a module, a rule,
the path below the scan root, the stripped text of the line and the title, by version. A line of the
history is the sequence of pieces written to it: one whole piece can be read. A request to the forge is carried
out later or never, as `gh` is stopped after ten seconds and its answer is not awaited. `origin`, `log` and
`posted` are ghosts: what the baseline was made from, what was appended, which requests met another one.

Scores and weights are in tenths. The code adds and subtracts floats: where a weight is no multiple of a half,
the result may lie a hair above the number it stands for, and the cut to whole points takes one more.
The constant `Above` says for which findings, added up and taken off again, that is so, and `Low` the same for the
ties of the blend; the run gives `Above` the floats of Python for a category that weighs 0.8, the theorem any.
The fix order is the greedy loop of `core/roi.py` as a fold over sets.

### RuleSet, with Plugins and ConfigEdit

One process of the server: its worker loads the configuration of a folder, loads the entry points that the
folder's allow list lets through (once per process) and scans; its event loop and separate commands edit
`odoo-doctor.toml`. Loading an entry point imports what its module uses (imports have no cycles), registers rules, and on
failure restores the registry; Python forgets the module that failed, not those it had imported. A file is a list of sections, keys and other
lines, with whether its last line ends; an edit is read, compute, empty, write. A scan that finds the file
empty or broken proceeds as `load_config` does.

### The rules

`Judging` has one variable for the rule that runs and one for its input: a rule keeps nothing
between two calls. Each rule module has two halves. The first is the rule as the code decides it. The second is
what happens to the program under inspection, defined without the rule: the values a function can hold
on every run (`Executed`), the routes Odoo serves (`Served`), the effect of loading a file (`Loaded`),
the place in the combined view where an xpath lands (`Targets`), the modules that get installed (`Installed`),
the models Odoo lets a row give rights on (`Meant`), what of a record no finding is about (`Unconcerned`).
The properties compare the halves. The programs are small trees, not text: operations that the rules
treat alike are one operation.

| Rule | Promise checked |
|---|---|
| taint | text built from a foreign value is called unsafe, and nothing that holds one is called safe (`TaintCovers`) |
| raw SQL | "high" exactly when a caller's value reaches the text in three calls (`HighMeansReached`) |
| dynamic dispatch | silence means that the code names the methods (`SilenceIsFixed`) |
| resolver | "not found" only for what the model cannot have (`AbsenceIsProved`) |
| dependencies, packages, core ids, access rights | a high finding is certain whatever the unread code holds (`HighIsCertain`) |
| controllers | unprotected elevation is reported, with the authentication Odoo uses (`RoutesAsServed`) |
| loops | a high finding does the same on every pass (`RepeatsAreSame`) |
| RPC methods | elevation on a client's records is reported (`ElevationSeen`) |
| views | only fields of the view's own model are looked up on it (`FieldsOfOwnModel`) |
| migration rules and fixers | whatever is labelled mechanical is mended, in every order of the fixers, and the rest of the record is kept (`MechanicalIsFixed`) |
| XML ids | a silent double declaration commutes (`PatchesCommute`) |

Several of them hold only under a condition which the property names (`BoundOneWay`, `Grounded`,
`NamesCreate`, `SiteIsPlain`, `BasesAreKnown`, `SearchesAreNamed`, `PlainView`, `PlainRecord`); the cases outside are listed under
"Divergences".

## Runs

| Run | Distinct states | Instance | Properties |
|---|---|---|---|
| `scan_server_reopen` | 201,130 | one folder opened under a linked name, two files of which one is its configuration, one write each, three events (folder changes and rescans) | `NoLostSave`, `RestIsFresh`, `ClosedKeepsNothing`, `EmptyWarningIsHonest`, `NeverGoesBack`, `SavesAreAnswered` |
| `scan_server_nested` | 381,692 | a folder inside another one that has two names, a file of both, two events | `ViewMatchesFindings`, `ImplementsBoard`, `MarkersFollowName` |
| `scan_reuse_kept` | 3,600,582 | three settings: files written between any two reads of a scan; rewritten within a tick or set back in time between scans; two addons of which one depends on the other and vanishes | `ReusedAsFromScratch`, `KeptIsCurrent`, `DroppedStaysDropped` |
| `scan_reuse_failure` | | a linter fails and nothing changes | `FailureIsRetried` (violated) |
| `scan_cache_shared` | 170,696 | two processes that crash and start again, files and configuration change between them | `HitIsLive`, `EntriesAreTrue`, `EntrySurvives` |
| `scan_cache_undone` | | a file edited after it was hashed, and the edit undone | `HitIsLive` (violated) |
| `pipeline_stages` | 1,998,724 | all lists of three of five findings under small configurations; eight documents with six ways of typing and two changes in an editor | `EveryFindingCounted`, `ScoreCountsOnce`, `ActionsHitTheirLine` |
| `fixer` | 122,292 | three files with five texts of a view and three of a manifest, some with offences that fixers decline, two writes by others; data lists of up to three of seven files and four different ones | `FixFinishes`, `FilesWhole`, `CustomKept`, `DataListKept`, `FixAllSettles` |
| `fixer_twice` | | data lists of four | `FixSettles` (violated) |
| `rules` | 315,719 | every input of every rule; setups of plugins and of edits of the configuration | those of "The rules", `RegistryIsWhole`, `EditsKeep` |
| `rules_absence` | | the resolver's projects | `AbsenceIsProvedAlways` (violated) |
| `jobs` | 275,763 | two to four jobs that share baseline, history and comments, one of them killed, a clock up to 2; rankings of up to six findings and one that is unsure, and of piles in a category that weighs 0.8 | `GateIsExact`, `HistoryTells`, `StickyShowsLatest`, `RankingIsHonest` |

Why the bounds are enough to be of use. Each hazard needs two or three actors' steps: a save during a scan and
its follow-up, a rewrite between stamp and read, a crash between two writes, a list of comments that another
job changes. One write per file tells a stale result from a fresh one, and a third event allows closing,
reopening and closing again during one scan. Three findings are the fewest in which two are duplicates
and a third takes a place of theirs; in a data list three files show a move past a file that moves itself, four
a chain of moves. Rule inputs are small trees in which each branch of a rule
occurs: expressions nested twice, one compound statement between an assignment and its use, chains of five
functions (a caller is followed over three), three classes of three models in two addons, one or two nodes of an arch.

What they leave out: `SavesAreAnswered` is checked with one folder, so that folders which wait for each other in
the worker's queue are met by the safety properties only. In `EditorActions` a quick fix is offered and accepted in
one step; the code answers with an edit for the buffer of that moment, and whether the editor still applies it to
another one is the client's affair. `RegistryIsWhole` takes a folder's allow list as the code does, and does not say which folders a
plugin then runs for; `EditsKeep` says nothing of a file in which two edits have met or one was killed (both are
listed under "Divergences").

What the properties say is written above each of them. The ones to begin with: `NoLostSave`,
`NeverGoesBack`, `ViewMatchesFindings` and `SavesAreAnswered` (ScanServer), `ReusedAsFromScratch`
(ScanReuse), `HitIsLive` and `EntriesAreTrue` (ScanCache), `EveryFindingCounted` and `ScoreCountsOnce`
(Pipeline), `ActionsHitTheirLine` (EditorActions), `FixFinishes` and `DataListKept` (Fixer, DataOrder),
`GateIsExact` and `HistoryTells` (CiJobs), `RegistryIsWhole` and `EditsKeep` (RuleSet).

Small components share a run: the initial states choose which of them a behaviour is about, and the others
stay at rest (`MCAllRules`, `MCPipeline`, `MCFixer`). A type invariant is checked where a theorem does not
already establish it for every instance.

Deadlock is not checked where the system may rest: the server when nothing is left to do; the pipeline, the
fixer, a rule and a job at their end.

## Findings

Four statements of the repository that the code does not keep, each shown by a run:

- `scan_reuse_failure`: `core/scanner.py:479` says that a missing tool, a timeout or bad output "is
  retried on the next scan". The failed result is not kept per linter, but it is kept in the last whole
  result, which the next scan returns while no stamp changes.
- `scan_cache_undone`: `core/cache.py:8-13` promises that a hit reproduces the live result. The
  fingerprint is made before the files are read: a result made of an edit is stored under the
  fingerprint of the text before it, and served when the edit is undone.
- `fixer_twice`: `core/fixer.py:6-7` requires that applying a fixer twice yields what applying it once
  does. The data list fixer moves `<reports, menus, h, g>` (reports needs h, menus and h need g) to
  `<h, reports, g, menus>`, and a second call moves g again. A whole `fix` run calls it once per finding
  and does settle (`FixAllSettles`); one quick fix in the editor does not.
- `rules_absence`: `graph/resolver.py:305-309` says that unknown models are never complete. A class with
  `_name` and `_inherit` both "a" is an extension written out; when the class that creates "a" is outside
  the scan, the graph takes the extension for the whole model and answers "not found" for the rest of it.

## Divergences

Seen while modelling and not kept as runs. Each is outside the condition of a property, or one setting away.

Scans and caches
- `ScanReuse` with `coarse` and `overlap`: a file stamped twice in one scan, rewritten in the same tick
  between, is reported stale. With `fleeting` and `overlap`: a file that exists only while a scan runs
  stays in the last result. With a `restorable` manifest: one replaced with its mtime set back, after a
  scan that was answered whole, is read from the source cache.
- A `--cache` entry made while a linter failed is served by every later run.
- `ScanServer` with one directory open under two names: closing one of them leaves its markers until the next
  result, which goes under the other name.
- `lsp/engine.py:45`: plugins load once per process with the allow list of the first folder that enables
  them, and then run for folders that never did.

Fixes and editor
- A text saved between the fixer's read and its rename is overwritten.
- A manifest that lacks its name and another field: the finding of the name, which cannot be fixed, is counted as
  fixed if it comes first, as the other field is added then, and the one of that field is reported as skipped
  (`rules/manifest/fixers.py:91-93`, `cli/app.py:470`). `FixFinishes` asks for a report per file and rule.
- `DataOrder!AllLoadOrderKept`: a CSV file declares external ids as well, and a file that names one can
  be moved in front of it; `safe_placement` looks into XML files only.
- "Disable on this line" for a rule that reports at a fixed line 1 writes a comment above line 1,
  which silences line 2 (`lsp/actions.py:91-92`). A trailing or annotated comment on the line above is not
  extended; the comment that is inserted ends its effect. Text in a multi-line string that looks like a
  comment is extended. A line that has moved next to an identical one counts as in step. After a save and
  before the scan ends, actions use the old line on the new text. "Disable in this file" after a shebang pushes
  an encoding declaration to line 3.

Jobs
- `--baseline` scores only modules that still have a finding (`cli/app.py:318-330`), so the project's
  score, its badge and history are means over fewer modules; `--score-delta` compares that with an
  unfiltered base. When nothing is left the job returns before its artifacts (`cli/app.py:343-356`), and the
  pull request keeps an outdated comment (`src/README.md:294`).
- `core/roi.py:12-13` calls `projected_score` the real score after a fix. It is cut from a float that fixes were
  subtracted from, the real one from a fresh sum, so with a weight such as the default 0.8 they may be a point of a category
  apart: two P0 and three P2 findings, all fixed, promise 99 where the category has 100.
- A second, identical line with an accepted finding is accepted silently. A baseline written for `.` does
  not match a scan of a subfolder.
- An older job may overwrite the comment of a newer commit. `git worktree add` that fails leaves a temporary
  directory. History and badge are written before an HTML report that may fail.
- `core/history.py:14` speaks of the time of the scan; a record without one gets the time it is read.
- The comment above `CHANNELS` (`core/suppression_stats.py:20`) gives another order of the channels than
  the stages run in; nothing depends on it.

Configuration and plugins
- `core/config_edit.py`: when `[ignore]` is the last line and has no newline, the edit is no TOML; names
  quoted in a comment inside the array are read as items, and a `]` in it breaks the file; a folder's
  first own list hides its parent's. Two edits at a time lose one, a scan in between reads an empty file, and
  a killed edit leaves it empty. The command does not know plugin rules, the server does.
- A failing plugin that shares a module with another takes that module's rules with it. An entry point that is
  listed twice and fails at first finds the modules it imported in Python's cache the second time: it can
  succeed then, without their rules.

Rules
- `rules/_taint.py:10-11` calls a string unsafe that is constructed by a `join` of something not safe; the code
  (320-326) returns unknown for it, and safe once it is wrapped in `SQL(...)`. What an item or a loop takes out of a list
  counts as given to the function too, also when the list was built of foreign text. `TaintCovers` asks of such
  text (`lost`) that it is not called safe, and leaves out the wrapped.
- `rules/_taint.py:14-16`: one pass over a loop does not see what the second iteration does
  (`TaintCoversLoops`). `SilenceIsFixedAlways`: a name bound in two ways is judged by one of them.
- `literal_texts` (`dynamic_method_dispatch.py:339`) follows names without remembering them: for `a = b; b = a` and a
  loop over `a` it recurses until the scanner reports that the rule crashed. The model takes such names as not fixed.
- Resolver: `_inherit = [variable, 'b']` loses the variable; mixins given to a model known only from a stub
  are lost. An addon that repeats `_name` = `_inherit` becomes the owner of the model it extends.
- A package declared by a module of the source checkout is reported missing with high confidence.
  `unknown-model-in-access-csv` is certain about a model that is only extended here, named by an expression,
  or has more than nine parts; `missing-access-csv` does not see access rights given in XML.
- Routes: authentication is taken from the first base that says it, so a diamond or a class of the same name in
  another file can make a public route a "user" one.
- Views: an xpath into an x2many field with `position="inside"`, `//list` in a form with an inline list, a
  `//field` name shared by the model and its lines, and a name seen below two anchors are looked up on the wrong
  model. `missing-xml-ref` does not see ids from CSV files.
- Findings labelled mechanical that are not mended (outside `PlainRecord`): an `eval` that writes its quotes as
  `&quot;` is reported with high confidence, and the fixer does not find it in the text; a `tree` tag or an xpath
  to change that also sets `tree_view_ref` needs two edits of one tag, of which the second undoes the first, and
  the fixer declines; an xpath that names a renamed field twice is mended once per run.
- An xpath into the lines of an x2many field that names a removed field is reported, and renamed, for the
  view's own model (`removed_core_field_usage.py`).
- `rpc-sudo-without-access-check` does not follow comprehension variables, nor elevated records through a loop
  variable or a second name.
- Ruff: a run whose only findings are unused imports of `__init__.py` is reported as a failed process.

## Proofs

TLC checks the instances above; the theorems hold for every value of the constants. Their assumptions
are the named `ASSUME`s of the modules, which TLC evaluates in every run. `ReuseIsSound`, `CacheEntriesTrue` and
`CacheHitLive` have one more hypothesis each, which the table gives.

| Theorem | Statement |
|---|---|
| `ScanServerProofs!TypeCorrect`, `SaveNeverLost`, `JobsNeverPileUp`, `FreshAtRest`, `ViewIsFindings` | `Spec => []P` for `TypeOK`, `NoLostSave`, `OneJobPerRoot`, `RestIsFresh`, `ViewMatchesFindings` |
| `ScanServerProofs!NothingKeptClosed`, `WarningsHonest` | the same for `ClosedKeepsNothing`, `EmptyWarningIsHonest` |
| `ScanServerProofs!MarkersHaveOneName` | the action property `MarkersFollowName`: a result puts a folder's markers under one of its names, and nothing else touches them while it is open, for any nesting and number of names |
| `ScanServerProofs!NeverBack`, `BoardRefined` | the action property `NeverGoesBack` and the refinement of `DiagnosticsBoard` |
| `ScanReuseProofs!TypeCorrect`, `ForgottenForGood`, `KeptStaysCurrent` | `TypeOK`, the action property `DroppedStaysDropped`, and `KeptIsCurrent`, under every setting |
| `ScanReuseProofs!ReuseIsSound` | `ReusedAsFromScratch`, under the settings that are `Orderly` |
| `ScanCacheProofs!CacheTypes`, `SavedWhole` | types, and that a crash leaves a whole entry, with files written at any time |
| `ScanCacheProofs!CacheEntriesTrue`, `CacheHitLive` | the same for `EntriesAreTrue` and `HitIsLive`, when no file is written while a process runs (with such writes the second is false, see Findings) |
| `PipelineProofs!StagesAreExact`, `CountedOnce`, `ConfigFirst` | after each stage the list and the channels are exactly what the filters so far leave and take; no finding is in two places; no comment is counted against a rule the configuration has switched off or ignored |
| `PipelineProofs!TypeCorrect`, `AllCounted`, `ScoredOnce` | types; the counts add up (`EveryFindingCounted`); what several tools found is scored once, and is if one of them is sure (`ScoreCountsOnce`) |
| `FixerProofs!FilesStayWhole`, `OutsideStays`, `CustomStays` | files stay whole wherever the command is killed; files outside the scanned directories stay as they are; a custom chatter is kept (`CustomKept`) |
| `FixerProofs!FixesFinish` | a run of `fix` that is left alone and not killed leaves only what the fixers decline, and has reported it (`FixFinishes`), for any texts, findings and number of files |
| `FixerProofs!DataListStays`, `FixesSettle` | a rearranged data list keeps its entries, and each file after what it mentions; after one call per finding no call changes it (`FixAllSettles`) |
| `PipelineProofs!ActionsHit` | what a hover or quick fix offers for an edited text is about the statement its finding points at, and takes away that finding only (`ActionsHitTheirLine`), for any text and whatever is typed |
| `RuleSetProofs!RulesStayEdited` | a configuration file that the edits understand lists what they asked for and keeps all else (`EditsKeep`), for any number of files, folders, edits and kills |
| `RuleSetProofs!RegistryStaysWhole` | the built-in rules stay first and as they are, no name is taken twice, and behind them stand exactly the rules of the permitted plugins that ran to their end (`RegistryIsWhole`), for any plugins whose imports have no cycle, entry points and allow lists |
| `RuleSetProofs!SilentPatchesCommute` | declarations of one XML id that are passed in silence make the same record in every order (`PatchesCommute`), however many there are |
| `RuleSetProofs!SilentCallsAreFixed` | a call by name that is passed in silence only finds methods the code names (`SilenceIsFixed`), for any function and expressions of any depth |
| `RuleSetProofs!CertainAreSo` | what is said with high confidence of dependencies, packages, references into core and access rights is so (`HighIsCertain`), for any addons, whichever manifests were read |
| `RuleSetProofs!AbsenceIsSound` | a field or method that the resolver calls absent is given to the model by no class, parent or stub (`AbsenceIsProved`), for any addons and stubs |
| `CiJobsProofs!CommentShowsLatest`, `GateTellsNew`, `HistoryIsTold`, `FixOrderHonest` | the four properties of the run `jobs`: `StickyShowsLatest`, `GateIsExact`, `HistoryTells`, `RankingIsHonest`, for any number of jobs, findings, kills and late requests. A fix order's promises are exact where weights are multiples of a half, and otherwise at most eleven tenths off, whatever the floats |

The arguments.

*ScanServer.* `NoLostSave` is not inductive: that a result shown is fresh needs that the scan read each
file after it began, and no older than shown (`ReadsAreCurrent`), that what the last scan set out to see is shown
unless it failed (`ResultsAreShown`), and that jobs in the queue belong to loops that wait for them
(`JobsHaveLoops`, `OneJobPerRoot`). `BooksAreKept` relates published files to findings and to the view.
`KeptForScans` says that a closed folder which keeps results still has a scan under way or one that failed, and
`ProbingShowsNothing` that a folder which is being probed for addons has nothing published: the first gives
`ClosedKeepsNothing`, the second `EmptyWarningIsHonest`. Together they are `IInv`, which the module proves with one step per action.
That markers have one name follows from it too: a folder wipes and publishes only what its own directory holds
(`BooksAreKept`), directories that are scanned do not lie in each other (`MarkersAreOwn`), and what is displayed
of a file is published by someone, so after a result it is what that result put there. The refinement maps each
action to a write, a folder change, a refresh or a stutter.

*ScanReuse.* Three invariants, each on top of the one before. `Detached`: a running scan whose entry was
dropped finds the table empty and leaves it so. `FineInv`: where all times tell writes apart (the property says
so itself), a stat stands for one content of its file, and everything kept was made of that content; the
stamps of a running scan are no later than the clock. `ReuseInv` is for the rest. Everything kept is
tied to stamps: a reading x of a file, made in a scan that stamped it st, `Agrees` with st when a later scan
that makes the same stamp finds x again. For a file whose stat may stand for several contents (`Loose`) there
are three reasons why it does: the stat was older than the clock when the file was read, so that no later write
has it; or the scan recorded the hash of x beside the stamp, and a later rewrite with the same stat changes the
stamp; or the stamp itself holds the hash. Then a kept finding, a linter's run and a whole last result each
agree part by part with the stamps in their keys (`FilesTrue`, `RunsTrue`, `ReportTrue`), and when the
keys are equal to the present ones, so are the contents. The same is said of the parts of a running scan
that are done (`GraphTrue`, `RulesTrue`, `LintTrue`). A write, a deletion or a restored time leaves `Agrees` as
it is, which is the heart of the proof. `Orderly` is a condition on the constant `Settings`: where files
are written during scans, they are not rewritten within a tick, set back in time or deleted; where nothing is
written meanwhile, all of that may happen, but a manifest is neither rewritten within a tick nor set back. Two
of the three settings of `scan_reuse_kept` meet it (`Between` and `TwoAddons`); the third, `Overlapping`, meets
it but for a manifest that may vanish during a scan, which only TLC has checked. Among the cases it leaves
out are those that `ReusedAsFromScratch` is false for (see Divergences). `NoneAssumption` says that the value for "nothing" is not also a value.

*ScanCache.* `CacheInv` says of each process that nothing has disturbed how far it has come: the
fingerprint covers the files already hashed, the scan those already read. Entries are true because a result is
stored under the fingerprint of the same process.

*Pipeline.* `StagesExact` states each stage's list on the list that came in. It is what makes the
stages independent: every filter judges a finding by itself. Disjointness then follows from the filters'
definitions. The counts add up because the lists are disjoint, their sizes add up (`FS_Union` of the library),
and positions that are kept correspond one to one to groups of equal findings. That each group has
a best member, which the score takes, is an induction over positions.

*Fixer.* `WritesInv`: whatever is in memory to be written lies inside and parses or is the original.
`TextsInv`: the text that fixers have worked on so far has the elements of the text that was read, and the
custom ones are as they were (`CarriesCustom`); each fixer touches elements with its own offence only.
`QuietInv`, for a run that is left alone: the text being worked on is the file with the findings below the
present line fixed (`Mended`), all of them findings of the file on disk, and what their fixers declined has been
reported (`Reports`). What can be mended of a finding depends on the text on disk only, as no fixer changes what is `hard`. Fixing a finding moves only the lines
behind it, so those that wait in the queue, which stand above, are found where the scan saw them. Then (`WritingInv`) each file is as it was and needs nothing
that a fixer would do (`Done`), or its computed text waits, or has been written.

*DataOrder.* A file b that goes past a was high, so its target lies at or before a, so a was among the
files `Clash` looked at. If both moved, their targets are files that stay. The entries are kept because,
without chained moves, every place is taken up exactly once; this needs that the first loader exists,
which the library's well-founded induction gives. After a call that changes the list, a file with a high finding had
one before, and another such file stood in front of it: the first of those that had one has none any more. So
`CallsLeft` is kept: there are at most as many high findings as calls left.

*EditorActions.* `EditorInv`: in the file, the text of the findings and the buffer, no two flagged lines have the
same identity and a rule flags lines or files (`TextFine`). The proof is about one edit. A comment put in as a
line of its own moves the lines behind it (`Moved`). It leaves no string or tag open, so each line begins where
it did, in a string or outside (`MarkedHeld`: the open ones before a line are as many as before). It disables
what it names, on the next line or in the file, and nothing else (`MarkedDisables`). A comment that is
extended and a repaired line change what one line says (`Altered`). From each follows what is reported
(`AllBut`, `Silent`). That the line of the buffer says what the line of the file says, and the finding was
made from that file, ties the edit to the finding (`Offered`).

*RuleSet.* `FileInv`, for each file that is clean: while no edit of it has opened it, it is TOML, lists
what was asked for so far and has its other settings; an edit that has read it holds in memory the
text it should have, and there is one such edit at most. What an edit in place does to the settings of a text
is a lemma for each way in which a list can be written (none, empty, on several lines, without a newline).

`LoadInv`, for the registry: what is left to load are the last of the permitted entry points, and the registry is
what the ones before them leave (`SoFar`). An entry point whose module was imported before was listed before, since
entry points share no other code (`Apart`); any other one starts with none of its code imported. For that case
`ImportSound` says that the import ends well exactly when the plugin is `Sound`, and then adds exactly the rules of what it
reaches; otherwise `RollbackUndoes` gives the registry back as it was, because no rule before it has a name of
one that was added. The import itself is by induction on the rank of a module (imports have no cycle,
`Layered`): as long as nothing fails, every module that is imported has all its rules behind those there were
(`Base`, `Complete`), and where nothing can fail (`Fine`) nothing does (`Holds`).

*XmlIds.* Silence means that all declarations are of one model and no two write one field (`SilenceMeansPatches`).
Then the record made of any set of them holds, of each field, the value of the one that writes it (`Made`). Which
set was loaded does not depend on the order, and such a record exists once (`MadeOnce`).

*Dispatch.* Expressions have a rank, the level they are first found on (`LevelsAssumption`), which gives recursion
and induction over them: one over names that the code fixes finds what the code fixes, if it reads no
data (`TextOfFixed`; `DispatchersAssumption` says that data is read through a name which is not fixed). The
invariant of the run of a function (`Settled`) speaks of each store it can have: a name that counts as fixed,
or as a literal of fixed texts, holds text that the code fixes, and one whose assignments all have a constant
prefix holds nothing or such text. The names that `LiteralNames` finds in rounds are inside a set that is
closed (`Literals`), which suffices. `BoundOneWay` is needed where a loop and an assignment bind one name.

*GraphRules.* The entry of a model is made of one of its classes, of one that defines it if there is one, and says
that it is defined exactly when there is (`EntryIs`); the addon that the graph names as its owner has a class with
that name (`GraphModelIs`). So whoever is said to own a parent creates it (`OwnersCreate`). If every manifest of
the closure was read, what is installed is inside the closure (`InstalledIsClosure`), since a module that is
always there depends on nothing; what is absent from the closure is then not installed. For access rights, where
names are written out, the graph knows a class by the model it is of (`KeyIsTarget`), and the candidates for the
model of a row are just the models spelt with its words (`CandidateIsMeant`). `GraphInputsAssumption` says that a
world names every module with its classes and what it depends on, that the resolver's table of owners is right, and that
every class of a site names a model or one it inherits from.

*Resolver.* Both lookups are recursive functions of what is still to be looked at and what was seen; they end because
less is left each time (`Unseen`), for which the graph's names must be finitely many (`NamesAreFinite`). A visit
that calls a model complete leaves a set of models that write out all their parents and lead on only to models of
the set (`CompleteMeans`). A search that misses leaves a set that lacks the member and is closed in the
same way: a parent that is passed over, because it was seen before, is in it (`SearchMisses`). What both have in
common is closed too (`Barren`). Every class of such a model has its members and its parents in the graph, whichever
addon it stands in and whether it names the model or only extends it (`ClassIsKept`), so the model's ancestors in the
running system are all in the set (`AbsentIsMissing`). `Grounded` is needed where a class
names a model it inherits from: without the class that creates the model the graph takes it for the whole
(`rules_absence`). `ProjectsAssumption` says that a project is a list of addons with classes and that no name is empty.

*CiJobs.* `Shape` says which stages a job can be in, by its options; the invariants on top of it are
independent of each other.
- The comment (`StickyInv`). A job and a request under way `Fits`: as long as no request was carried
  out since the job listed the comments, its target is the one it would choose now. So a request that met no
  other one leaves at most one more marked comment than there was, which is none if there was one, and shows
  itself in the first. The assumption is that earlier jobs left at most one such comment.
- The gates (`GateInv`). The baseline file is what one of the three formats makes of the findings it was
  written from (`WrittenFrom`). `AcceptsSame` shows that identities are equal exactly when the findings
  are the same, because a path below a root determines the rest (`OnePath`). From there what is left, the scores
  and the exit code follow stage by stage (`CodesFit`).
- The history (`HistInv`). Each append that was completed on a line of its own has that line still, and it is not
  the last one if that is open (`Preserved`): so what is written next, whole or torn, cannot join it. While no
  append was interrupted, the file is the log (`Whole`). `LoadedIs` shows that the records are a
  listing of the readable lines in the order of their times, which exists and leaves nothing out
  (`SetInduction`), and `WholeTells` that the last record, and the last comparable one before it, are the newest of
  the log. What a command saw is a prefix of the log, of which later appends change nothing (`WorseStays`).
- The fix order. A sum over findings is a recursion over a finite set, which does not depend on
  the order; a score does not fall when findings are removed; a first finding by gain, effort and name
  exists. The states of the greedy loop are a recursive function on the number of fixes. A hair costs a category
  one point at most, in the promise or in the fresh score, so each pair of category scores is at most one apart; the least and
  the mean of them are then too, and rounding to tenths adds one tenth.

The library's induction theorems take operators, which the installed provers do not instantiate. `SetInduction`
states induction and recursion for sets and functions instead: a proof names the set of the numbers (or
of the finite sets, or of the elements with a bounded rank) it is about.

TLC has checked each of these inductive invariants on the instance of its module's run (`GateInv`, `HistInv`
and `StickyInv` on all 275,763 states of `jobs`; `ReuseInv` on 2,010,588 states of the settings of
`scan_reuse_kept`, with `Overlapping` restricted to what is `Orderly`; `FixInv`, `TextsInv`, `QuietInv` and
`CallsLeft` on the 122,292 states of `fixer`; `EditsInv` and `LoadInv` on the 50,423 states of the setups of `rules`;
`EditorInv` on the states of `pipeline_stages`).

Model-checked only:
- liveness (`SavesAreAnswered`; the proof system has no rules for fairness here);
- the other properties of the rule modules (`Rules`): their definitions recurse over trees (`RECURSIVE`), which
  the proof system does not take, or share a module with one that does. These are `TaintCovers`, `HighMeansReached`,
  `RoutesAsServed`, `RepeatsAreSame`, `ElevationSeen`, `FieldsOfOwnModel` and `MechanicalIsFixed`. `XmlIds`, `Dispatch`,
  `GraphRules` and `Resolver` do without, and have a specification each (`IdsSpec`, `DispatchSpec`, `GraphSpec`,
  `ResolverSpec`), of which `Rules` takes the steps.

## Not modelled, and why

- Reporters, rule documentation and maintenance scripts: the formatting of a finished result.
- The VS Code client: every start, stop and restart goes through one promise chain, so that no two overlap;
  a model would restate it.
- The fixers of Python files, and the migration rules that have no fixer.
- Rules that are one test of one parsed declaration (licence, required fields, deprecated calls, record
  rules, frontend patterns): they have no case that the text of the rule does not show.
- Git's own behaviour, the forge, linters and the Odoo server: external, modelled by what the code expects.
- The building of stubs, the detection of versions, the columns of editor ranges.

## Plan

What is left: the rules that recurse over trees, rewritten with recursive functions as `Dispatch` and `Resolver` are, beginning
with `Taint`, and their properties proved.
