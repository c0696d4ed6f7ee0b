------------------------------- MODULE CiJobs -------------------------------
(***************************************************************************)
(* The scan command and the history commands (cli/app.py) as jobs that     *)
(* share a baseline file, a history file and the comments of a pull        *)
(* request.  A job is one process; a step of it is what nothing of another *)
(* process can come between.  A scan's findings are given: the modules     *)
(* about the scan and the pipeline say where they come from.               *)
(***************************************************************************)
EXTENDS Scoring, Baseline, History

CONSTANTS
  Scenarios,  \* what the jobs are, and what is there before they start
  MaxTime,    \* bound: the clock
  CISurface   \* DEFAULT_CI_SURFACE

\* A scenario's jobs, in the order they start; its files; how many jobs may be killed.
VARIABLES
  plan,       \* job -> its command and options
  kills,      \* bound: the jobs that may still be killed
  baseline,   \* the baseline file
  history,    \* the history file
  comments,   \* the comments of the pull request: [job, marker], job 0 for a person
  flight,     \* requests to GitHub that may still be carried out
  clock,
  jobs,       \* job -> its process
  origin,     \* ghost: the findings and the scan root the baseline file was written from
  log,        \* ghost: the completed appends, and whether each had a line of its own
  posted      \* ghost: the last request carried out, how many there were, how many met another one

vars == <<plan, kills, baseline, history, comments, flight, clock, jobs, origin, log, posted>>

Nobody == [set |-> {}, root |-> <<>>, version |-> 3]
Waiting == [pc |-> "waiting", found |-> {}, left |-> {}, scores |-> <<>>, ranked |-> <<>>, stamp |-> 0,
            target |-> 0, seen |-> 0, intact |-> TRUE, code |-> 0, delta |-> 0, accepted |-> Nobody]

\* What a scan reports.
Diagnostic == [rule : STRING, module : STRING, path : Seq(STRING), file : STRING, line : Nat, text : STRING,
               title : STRING, category : STRING, tier : ToSet(Tiers), confidence : {"high", "medium", "low"},
               severity : {"error", "warning", "info"}, fixable : BOOLEAN]

Under(root) == {f \in Diagnostic : \E rest \in {SubSeq(f.path, i, Len(f.path)) : i \in 1..Len(f.path)} :
                                     f.path = root \o rest}

\* A baseline file is what one of the versions makes of the findings it was written from.
WrittenFrom(file, from) ==
  IF file.state = "whole"
  THEN /\ file.version \in 1..3 /\ from.version = file.version
       /\ from.root \in Seq(STRING) /\ from.set \subseteq Under(from.root)
       /\ file.ids = {IF file.version = 1 THEN LegacyIdentity(f) ELSE FindingIdentity(f, file.version, from.root) :
                       f \in from.set}
  ELSE from.set = {}

\* Where a job scans.
Root(o) == IF o.sub THEN Append(o.at, "addons") ELSE o.at

\* A scan finds what lies under its root, in the modules it scores, by the rules there are.
Possible(o) ==
  /\ o.kind \in {"scan", "import", "show"} /\ {o.at, Root(o)} \subseteq Seq(STRING) /\ o.report.stamp \in Nat
  /\ o.tree \subseteq Under(IF o.sub THEN <<"addons">> ELSE <<>>) /\ IsFiniteSet(o.tree)
  /\ \A f \in o.tree : /\ o.kind = "scan" => f.module \in o.modules
                       /\ {f.file, f.rule} \subseteq ToSet(Names) /\ (f.fixable \/ f.rule \in DOMAIN Effort)

\* Of the jobs before these at most one comment is left.
ASSUME CiAssumption ==
  /\ CISurface.confidence = "high" /\ CISurface.categories = {} /\ CISurface.tiers = {"P0", "P1"}
  /\ \A s \in Scenarios :
       /\ DOMAIN s.jobs \subseteq Nat \ {0} /\ s.kills \in Nat
       /\ \A j \in DOMAIN s.jobs : Possible(s.jobs[j])
       /\ WrittenFrom(s.baseline, s.origin)
       /\ s.comments \in Seq([job : Nat, marker : BOOLEAN])
       /\ \A i, k \in DOMAIN s.comments : s.comments[i].marker /\ s.comments[k].marker => i = k

Init == \E s \in Scenarios :
  /\ plan = s.jobs /\ kills = s.kills /\ baseline = s.baseline /\ origin = s.origin
  /\ history = NoHistory /\ comments = s.comments /\ flight = {} /\ clock = 1 /\ log = <<>>
  /\ jobs = [j \in DOMAIN s.jobs |-> Waiting]
  /\ posted = [by |-> 0, alone |-> FALSE, landed |-> 0, met |-> 0]
-----------------------------------------------------------------------------
(* A scan goes through these stages; the options leave some out. *)

Stages == <<"truncate", "ids", "rescore", "delta", "stamp", "append", "html", "list", "send", "gate">>

Wanted(o, stage) ==
  CASE stage \in {"truncate", "ids"} -> o.write
    [] stage = "delta"               -> o.delta
    [] stage \in {"stamp", "append"} -> o.history
    [] stage = "html"                -> o.html
    [] stage \in {"list", "send"}    -> o.comment
    [] OTHER                         -> TRUE

\* The stage after this one.
Following(o, stage) ==
  LET later == {i \in DOMAIN Stages : Wanted(o, Stages[i]) /\ \A k \in i..Len(Stages) : Stages[k] # stage}
  IN IF stage = "ids" \/ later = {} THEN "ended" ELSE Stages[Min(later)]

At(j, stage) == jobs[j].pc = stage

\* The job ends its stage with this record, or ends.
Go(j, job)        == jobs' = [jobs EXCEPT ![j] = [job EXCEPT !.pc = Following(plan[j], jobs[j].pc)]]
Exit(j, job, code) == jobs' = [jobs EXCEPT ![j] = [job EXCEPT !.pc = "ended", !.code = code]]

\* The findings of a tree as a scan in this checkout reports them.
Checkout(o, tree) == {[f EXCEPT !.path = o.at \o @] : f \in tree}

Modules(set) == {f.module : f \in set}

ScorePerModule(set, modules) == [m \in modules |-> Overall({f \in set : f.module = m}, FALSE)]

\* A partial score would corrupt the trend; a minimum is a score.
Refused(o) == (o.history /\ o.partial) \/ o.minScore \notin 0..1000

Start(j) ==
  LET o == plan[j]
  IN /\ At(j, "waiting") /\ \A i \in 1..(j - 1) : ~At(i, "waiting")
     /\ IF o.kind # "scan" THEN jobs' = [jobs EXCEPT ![j].pc = o.kind]
        ELSE IF Refused(o) THEN Exit(j, jobs[j], 3)
        ELSE Go(j, [jobs[j] EXCEPT !.found = Checkout(o, o.tree)])
     /\ UNCHANGED <<plan, kills, baseline, history, comments, flight, clock, origin, log, posted>>

\* write_baseline: the file is truncated, then written.
Truncate(j) ==
  /\ At(j, "truncate") /\ baseline' = CutFile /\ origin' = Nobody /\ Go(j, jobs[j])
  /\ UNCHANGED <<plan, kills, history, comments, flight, clock, log, posted>>

WriteIds(j) ==
  /\ At(j, "ids") /\ baseline' = Written(jobs[j].found, Root(plan[j]))
  /\ origin' = [set |-> jobs[j].found, root |-> Root(plan[j]), version |-> 3]
  /\ Go(j, jobs[j])
  /\ UNCHANGED <<plan, kills, history, comments, flight, clock, log, posted>>

\* The baseline's findings are left out and the modules that still have one scored again; with
\* no module left the scan returns.
Rescore(j) ==
  LET o       == plan[j]
      found   == jobs[j].found
      left    == IF o.baseline THEN FilterAgainstBaseline(found, LoadBaseline(baseline), Root(o)) ELSE found
      modules == IF o.baseline THEN Modules(left) ELSE o.modules
      job     == [jobs[j] EXCEPT !.left = left, !.scores = ScorePerModule(left, modules),
                                 !.ranked = [m \in modules |-> RankFixes({f \in left : f.module = m})],
                                 !.accepted = IF o.baseline THEN origin ELSE Nobody]
  IN /\ At(j, "rescore")
     /\ IF modules = {} THEN Exit(j, job, 0) ELSE Go(j, job)
     /\ UNCHANGED <<plan, kills, baseline, history, comments, flight, clock, origin, log, posted>>

\* --score-delta: the base commit is scanned in a worktree of its own, without a baseline; without
\* a repository or such a commit the job fails.
ScanBaseRef(j) ==
  LET o    == plan[j]
      base == ProjectScore(ScorePerModule(Checkout(o, o.base), o.modules))
  IN /\ At(j, "delta")
     /\ \/ Go(j, [jobs[j] EXCEPT !.delta = ProjectScore(jobs[j].scores) - base])
        \/ Exit(j, jobs[j], 3)
     /\ UNCHANGED <<plan, kills, baseline, history, comments, flight, clock, origin, log, posted>>
-----------------------------------------------------------------------------
(* The history: build_record reads the clock, append_record writes; clocks of two machines
   differ by a second. *)

Record(j) ==
  [stamp |-> jobs[j].stamp, branch |-> plan[j].branch, schema |-> 2,
   project |-> ProjectScore(jobs[j].scores), modules |-> jobs[j].scores]

Stamp(j) ==
  /\ At(j, "stamp") /\ \E late \in {0, 1} : Go(j, [jobs[j] EXCEPT !.stamp = clock - late])
  /\ UNCHANGED <<plan, kills, baseline, history, comments, flight, clock, origin, log, posted>>

Logged(record) == log' = Append(log, [record |-> record, own |-> ~history.open])

AppendHistory(j) ==
  /\ At(j, "append") /\ history' = AppendRecord(history, Record(j)) /\ Logged(Record(j))
  /\ Go(j, jobs[j])
  /\ UNCHANGED <<plan, kills, baseline, comments, flight, clock, origin, posted>>

\* history import: a report of any version, with the time of its file.
Import(j) ==
  LET report == plan[j].report
      record == NormalizeReport(report, ProjectScore(report.modules))
  IN /\ At(j, "import")
     /\ IF report.modules = <<>> THEN Exit(j, jobs[j], 3) /\ UNCHANGED <<history, log>>
        ELSE Exit(j, jobs[j], 0) /\ history' = AppendRecord(history, record) /\ Logged(record)
     /\ UNCHANGED <<plan, kills, baseline, comments, flight, clock, origin, posted>>

\* history show --max-drop.
Show(j) ==
  /\ At(j, "show")
  /\ Exit(j, [jobs[j] EXCEPT !.seen = Len(log), !.intact = \A i \in DOMAIN jobs : ~At(i, "cut")],
          IF Regressed(LoadHistory(history), plan[j].maxDrop) THEN 2 ELSE 0)
  /\ UNCHANGED <<plan, kills, baseline, history, comments, flight, clock, origin, log, posted>>
-----------------------------------------------------------------------------
(* The report, the comment and the gates *)

\* _write_html_report: what cannot be written ends the job.
WriteHtml(j) ==
  /\ At(j, "html") /\ \/ Go(j, jobs[j])
                      \/ Exit(j, jobs[j], 3)
  /\ UNCHANGED <<plan, kills, baseline, history, comments, flight, clock, origin, log, posted>>

\* Mutant: the last comment with the marker is taken.
ChooseLast(list) == Max({i \in DOMAIN list : list[i].marker} \cup {0})

\* choose_comment_action: the first comment with the marker, 0 to create one.
ChooseCommentAction(list) ==
  LET marked == {i \in DOMAIN list : list[i].marker} IN IF marked = {} THEN 0 ELSE Min(marked)

\* post_pr_comment: gh lists the comments; if that fails nothing is posted.
ListComments(j) ==
  /\ At(j, "list")
  /\ \/ Go(j, [jobs[j] EXCEPT !.target = ChooseCommentAction(comments), !.seen = posted.landed])
     \/ jobs' = [jobs EXCEPT ![j].pc = "gate"]
  /\ UNCHANGED <<plan, kills, baseline, history, comments, flight, clock, origin, log, posted>>

\* gh is given ten seconds and is not asked how it went: the request may be carried out later,
\* or never.
SendComment(j) ==
  /\ At(j, "send") /\ flight' = flight \cup {[job |-> j, target |-> jobs[j].target]} /\ Go(j, jobs[j])
  /\ UNCHANGED <<plan, kills, baseline, history, comments, clock, origin, log, posted>>

Land(request) ==
  LET alone == jobs[request.job].seen = posted.landed
      shown == [job |-> request.job, marker |-> TRUE]
  IN /\ request \in flight /\ flight' = flight \ {request}
     /\ comments' = IF request.target = 0 THEN Append(comments, shown)
                    ELSE [comments EXCEPT ![request.target] = shown]
     /\ posted' = [by |-> request.job, alone |-> alone, landed |-> posted.landed + 1,
                   met |-> posted.met + (IF alone THEN 0 ELSE 1)]
     /\ UNCHANGED <<plan, kills, baseline, history, clock, jobs, origin, log>>

Drop(request) ==
  /\ request \in flight /\ flight' = flight \ {request}
  /\ UNCHANGED <<plan, kills, baseline, history, comments, clock, jobs, origin, log, posted>>

SeverityRank == [none |-> 4, error |-> 3, warning |-> 2, info |-> 1]
HasSeverityAtOrAbove(set, failOn) == \E f \in set : SeverityRank[f.severity] >= SeverityRank[failOn]

\* The gates, --fail-on before --min-score.
Gate(j) ==
  LET o   == plan[j]
      job == jobs[j]
  IN /\ At(j, "gate")
     /\ Exit(j, job, IF HasSeverityAtOrAbove(FilterForSurface(job.left, CISurface), o.failOn) THEN 1
                     ELSE IF \E m \in DOMAIN job.scores : job.scores[m] < o.minScore THEN 2 ELSE 0)
     /\ UNCHANGED <<plan, kills, baseline, history, comments, flight, clock, origin, log, posted>>
-----------------------------------------------------------------------------
(* The surroundings *)

\* A job is killed between two steps, or while it appends.
Kill(j) ==
  /\ kills > 0 /\ kills' = kills - 1
  /\ jobs[j].pc \notin {"waiting", "ended", "killed", "cut"}
  /\ \/ jobs' = [jobs EXCEPT ![j].pc = "killed"] /\ UNCHANGED history
     \/ /\ At(j, "append") /\ jobs' = [jobs EXCEPT ![j].pc = "cut"]
        /\ \E full \in BOOLEAN : history' = CutRecord(history, Record(j), full)
  /\ UNCHANGED <<plan, baseline, comments, flight, clock, origin, log, posted>>

Tick ==
  /\ clock < MaxTime /\ clock' = clock + 1
  /\ UNCHANGED <<plan, kills, baseline, history, comments, flight, jobs, origin, log, posted>>

Next ==
  \/ \E j \in DOMAIN jobs :
       \/ Start(j) \/ Truncate(j) \/ WriteIds(j) \/ Rescore(j) \/ ScanBaseRef(j)
       \/ Stamp(j) \/ AppendHistory(j) \/ Import(j) \/ Show(j)
       \/ WriteHtml(j) \/ ListComments(j) \/ SendComment(j) \/ Gate(j) \/ Kill(j)
  \/ \E request \in flight : Land(request) \/ Drop(request)
  \/ Tick

Spec == Init /\ [][Next]_vars
-----------------------------------------------------------------------------
(* Properties *)

Suffix(path, root) == CHOOSE rest \in {SubSeq(path, i, Len(path)) : i \in 1..Len(path)} : path = root \o rest

\* Finding f of a scan in root is finding g that a baseline was written from: the same rule says
\* the same of the same text of the same file, on whatever line it is now. Where the checkout is
\* does not matter since version 3; the title does since version 2.
SameAs(f, root, g, b) ==
  /\ f.rule = g.rule /\ f.module = g.module /\ f.text = g.text
  /\ b.version # 1 => f.title = g.title
  /\ IF b.version = 3 THEN Suffix(f.path, root) = Suffix(g.path, b.root) ELSE f.path = g.path

New(j) == LET b == jobs[j].accepted
          IN {f \in jobs[j].found : \A g \in b.set : ~SameAs(f, Root(plan[j]), g, b)}

Scanned(j) == At(j, "ended") /\ plan[j].kind = "scan" /\ ~plan[j].write /\ jobs[j].code # 3

\* The exit code of a scan tells exactly what is new: 1 for a new finding that gates, else 2 for
\* a module whose new findings bring it below the minimum, else 0. A baseline that another job is
\* writing, or that was cut off, accepts nothing; one that was written in another checkout
\* accepts the same findings there ("suppress pre-existing findings, fail only on new ones",
\* core/baseline.py:2; exit codes, cli/app.py:427-458).
GateIsExact ==
  \A j \in DOMAIN jobs : Scanned(j) =>
    LET o     == plan[j]
        gates == \E f \in New(j) : f.confidence = "high" /\ f.tier \in {"P0", "P1"}
                                   /\ SeverityRank[f.severity] >= SeverityRank[o.failOn]
        poor  == \E m \in Modules(New(j)) : Overall({f \in New(j) : f.module = m}, FALSE) < o.minScore
    IN jobs[j].code = IF gates THEN 1 ELSE IF poor THEN 2 ELSE 0

\* A record that had a line of its own.
Kept(n) == {i \in 1..n : log[i].own}

\* The history has every record whose append was completed, whatever was torn before or after it,
\* except the one that joins an interrupted line; it is in the order of the clocks; and while no
\* append was interrupted, history show fails exactly when the newest scan is worse than the last
\* one of its branch and schema (core/history.py:224-291).
HistoryTells ==
  LET loaded == LoadHistory(history)
      later(i, k) == log[i].record.stamp > log[k].record.stamp
                     \/ (log[i].record.stamp = log[k].record.stamp /\ i >= k)
      newest(set) == CHOOSE i \in set : \A k \in set : later(i, k)
  IN /\ \A i \in Kept(Len(log)) : \E k \in DOMAIN loaded : loaded[k] = log[i].record
     /\ \A i, k \in DOMAIN loaded : i < k => loaded[i].stamp <= loaded[k].stamp
     /\ \A j \in DOMAIN jobs : At(j, "ended") /\ plan[j].kind = "show" /\ jobs[j].intact =>
          LET all     == Kept(jobs[j].seen)
              last    == newest(all)
              earlier == {i \in all \ {last} : Comparable(log[i].record, log[last].record)}
          IN jobs[j].code = IF /\ all # {} /\ earlier # {}
                               /\ Drops(log[newest(earlier)].record, log[last].record, plan[j].maxDrop)
                            THEN 2 ELSE 0

\* After a request that met no other one, the first comment with the marker is that job's; and
\* there is at most one such comment for each request that did meet another
\* (README.md:294 "posted/updated", reporters/pr_comment.py:79-86).
StickyShowsLatest ==
  LET marked == {i \in DOMAIN comments : comments[i].marker}
  IN /\ posted.alone => comments[Min(marked)].job = posted.by
     /\ Cardinality(marked) <= 1 + posted.met

\* The fix order of a module names every counted finding once. The gains are the differences of
\* the promised scores, from the score of the module on, and no fix costs points. The score
\* promised after a fix is the score of the findings that are left then; where a finding weighs
\* what no float is, the two may be eleven tenths apart, for what is added up and taken off again
\* is not what is added up afresh. What is only likely never raises a score (core/roi.py:9-14).
RankingIsHonest ==
  \A j \in DOMAIN jobs : \A m \in DOMAIN jobs[j].scores :
    LET of      == {f \in jobs[j].left : f.module = m}
        counted == {f \in of : Counts(f, FALSE)}
        ranked  == jobs[j].ranked[m]
        fixed(k)    == {ranked[i].fix : i \in 1..k}
        score(k)    == Overall(of \ fixed(k), FALSE)
        promised(k) == IF k = 0 THEN jobs[j].scores[m] ELSE ranked[k].projected
        exact       == \A f \in counted : f.category \in Scope => ~Inexact(f.category)
    IN /\ fixed(Len(ranked)) = counted /\ Cardinality(fixed(Len(ranked))) = Len(ranked)
       /\ \A k \in DOMAIN ranked :
            /\ promised(k) - score(k) \in (IF exact THEN {0} ELSE -11..11)
            /\ ranked[k].gain = promised(k) - promised(k - 1) /\ ranked[k].gain >= 0
       /\ Overall(of, TRUE) <= jobs[j].scores[m]
=============================================================================
