-------------------------------- MODULE Rules --------------------------------
(***************************************************************************)
(* One rule looking at one input, as the scanner calls it: the rules' own  *)
(* state lives within the call. The modules extended here are the rules;   *)
(* this one has what they promise.                                         *)
(***************************************************************************)
EXTENDS RawSql, Dispatch, Resolver, GraphRules, Routes, Views, XmlIds

LoopRule == INSTANCE LoopCalls
Upgrade  == INSTANCE Migration
RpcRule == INSTANCE RpcSudo

CONSTANTS Bodies,    \* function bodies for the taint analysis
          SqlFiles,  \* files of functions that call each other
          Controllers, \* controller classes of a scan
          LoopBodies, \* function bodies with one ORM call in or near a loop
          ViewFiles,  \* views, with the views they inherit from
          Callables, \* methods that a client may call
          Records    \* data records to move to a newer Odoo

RulesInit ==
  /\ Unjudged
  /\ \/ rule = "taint" /\ input \in Bodies \X BOOLEAN
     \/ rule = "raw sql" /\ input \in SqlFiles
     \/ rule = "dispatch" /\ input \in Dispatchers
     \/ rule = "resolver" /\ input \in Projects
     \/ rule = "dependencies" /\ input \in Worlds
     \/ rule = "removed core" /\ input \in CoreRefs
     \/ rule = "routes" /\ input \in Controllers
     \/ rule = "loops" /\ input \in LoopBodies
     \/ rule = "views" /\ input \in ViewFiles
     \/ rule = "ids" /\ input \in IdFiles
     \/ rule = "rpc" /\ input \in Callables
     \/ rule = "migration" /\ input \in Records
     \/ rule = "access" /\ input \in Sites

JudgeTaint  == Judge("taint", Analysed(input[1], [x \in {"x"} |-> Unknown], input[2]))
JudgeRawSql == Judge("raw sql", CheckRawSql(input))

JudgeRoutes == Judge("routes", CheckPublicControllerSudo(input))
JudgeLoops  == Judge("loops", LoopRule!CheckLoopCalls(input))
JudgeViews  == Judge("views", CheckView(input))
JudgeRpc    == Judge("rpc", RpcRule!CheckRpcSudo(input))
JudgeMigration == Judge("migration", Upgrade!Migrated(input))

RulesNext == \/ JudgeTaint \/ JudgeRawSql \/ JudgeDispatch
             \/ JudgeResolver \/ JudgeDependencies \/ JudgeRemovedCore \/ JudgeRoutes \/ JudgeLoops
             \/ JudgeViews \/ JudgeIds \/ JudgeRpc \/ JudgeMigration \/ JudgeAccess

RulesSpec == RulesInit /\ [][RulesNext]_ruleVars
-----------------------------------------------------------------------------
\* On every run that goes round a loop at most once, and whose try bodies fail, if they do,
\* at their first statement, text built from a foreign value is unsafe when it is executed,
\* and nothing foreign is called safe: "worst case wins". Text that was built by join, or taken
\* out of a list again, counts as given here, and is left out once SQL() wraps it: the code calls
\* it opaque, where the header calls it UNSAFE (_taint.py:10-11).
TaintCovers ==
  Said("taint") => Covers(verdict, Executed(input[1], [x \in {"x"} |-> Given], 1, input[2]))

\* The same for every run.
TaintCoversLoops ==
  Said("taint") => Covers(verdict, Executed(input[1], [x \in {"x"} |-> Given], 2, input[2]))

\* High confidence means that what a caller controls reaches the text in at most MaxHops
\* calls between functions of the file, and only that.
HighMeansReached ==
  Said("raw sql") =>
    {fn \in DOMAIN verdict : verdict[fn] = "high"} = Exposed(input, MaxHops)

\* Every route that elevates and may be reached without a login is reported, and an auth it
\* is said to run with is the one Odoo serves it with.
RoutesAsServed ==
  Said("routes") /\ BasesAreKnown(input) =>
    \A i \in {k \in DOMAIN input : input[k].route} :
      \A b \in {x \in Bindings(input) : \A k \in DOMAIN input : Straight(input, x, k)} :
        LET reported == {f \in verdict : f.class = i}
        IN /\ input[i].sudo /\ Served(input, b, i) \cap {"public", "none"} # {} => reported # {}
           /\ \A f \in reported : f.auth # "unknown" => Served(input, b, i) = {f.auth}

\* A call in a loop that is reported with high confidence does the same on every pass, on
\* every way through the function: asked once, it gives what every pass would have got, and a
\* write or a create repeats itself.
RepeatsAreSame ==
  Said("loops") /\ High(verdict) # {} => LoopRule!SameOnEveryPass(input)

\* A method a client can call that may use elevated rights on what the client picked, or with
\* what it gave, is reported, unless the method checks the caller, ties the record to one, or
\* hands the value to a method that may.
ElevationSeen ==
  Said("rpc") /\ RpcRule!IsEntry(input) /\ ~RpcRule!Silent(input) /\ RpcRule!SearchesAreNamed(input)
    /\ RpcRule!Elevates(input, {"v", "w"}) # {} => verdict # {}

\* The fields and buttons that are reported missing are those that the view, put together with
\* the one it inherits from, shows of its own model, and the model does not have
\* ("never check a field against the wrong model", parsers/xml_records.py:385-396).
FieldsOfOwnModel ==
  Said("views") /\ PlainView(input) =>
    verdict = {r \in OwnRefs(input) : input.complete /\ r[2] \notin input.has[r[1]]}

\* In whatever order the fixers of a record run, the findings for a person and everything that no
\* finding is about stay as they are and no new finding comes up; what the upgrade report calls
\* mechanical is mended, where the record can be edited as text ("a finding labelled mechanical is
\* either fixed or reported", upgrade_safety/fixers.py:8; "so the label and the fix agree",
\* core/upgrade.py:79).
MechanicalIsFixed ==
  Said("migration") =>
    LET manual == {f \in verdict.report : ~Upgrade!IsMechanical(f)}
    IN \A fixed \in verdict.after :
         LET left == Upgrade!Report(fixed)
         IN /\ Upgrade!Kept(input, fixed) /\ manual \subseteq left /\ left \subseteq verdict.report
            /\ Upgrade!PlainRecord(input) => left = manual
=============================================================================
