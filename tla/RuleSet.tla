------------------------------- MODULE RuleSet -------------------------------
(***************************************************************************)
(* Which rules a process has and which of them are switched off: a         *)
(* language server that scans several folders, loads plugins for the first *)
(* one that wants them (lsp/engine.py) and edits a configuration on        *)
(* request (lsp/server.py), beside commands that edit it too               *)
(* (cli/app.py).                                                           *)
(***************************************************************************)
EXTENDS Plugins, ConfigEdit

CONSTANTS BuiltinRules,   \* the built-in rules
          Setups     \* what is installed and configured, and the edits that are asked for

ASSUME BuiltinRulesAssumption == BuiltinRules \in Seq(STRING) /\ IsInjective(BuiltinRules)

\* A setup: the code and the entry points, the text of each file, the files above each folder
\* (outermost first), the edits, and how many of them may be killed.
ASSUME SetupsAssumption ==
  \A s \in Setups :
    /\ DOMAIN s.code \subseteq STRING /\ IsFiniteSet(DOMAIN s.code)
    /\ s.code \in [DOMAIN s.code -> PluginModule(DOMAIN s.code)] /\ Layered(s.code)
    /\ s.entries \in Seq([name : STRING, module : DOMAIN s.code])
    /\ s.toml \in [DOMAIN s.toml -> TomlText]
    /\ \A folder \in DOMAIN s.above : s.above[folder] \in Seq(DOMAIN s.toml) /\ s.above[folder] # <<>>
    /\ \A j \in DOMAIN s.edits : /\ s.edits[j].file \in DOMAIN s.toml
                                 /\ s.edits[j].rule \in STRING /\ s.edits[j].ignored \in BOOLEAN

VARIABLES
  setup,
  kills,       \* bound: the edits that may still be killed
  toml,        \* file -> its text
  interpreter, \* the server's registry and modules
  loaded,      \* _plugins_loaded
  worker,      \* the server's scan: [pc, config, left]
  edits,       \* edit -> [pc, text]
  permitted,   \* ghost: the entry points that the first folder to want plugins lets through
  wanted,      \* ghost: file -> the rules its list should have
  clean        \* ghost: file -> no edit of it met another one or was killed

setVars == <<setup, kills, toml, interpreter, loaded, worker, edits, permitted, wanted, clean>>

Resting == [pc |-> "idle", config |-> BuildConfig({}), left |-> <<>>]
BuiltIns == [registry |-> [i \in DOMAIN BuiltinRules |-> [name |-> BuiltinRules[i], by |-> "builtin"]], modules |-> {}, ok |-> TRUE]

OwnConfig(f) == BuildConfig(Settings(toml[f]))
FolderConfig(folder) == LET above == setup.above[folder] IN BuildConfig(Merged([i \in DOMAIN above |-> toml[above[i]]]))

SetInit ==
  /\ setup \in Setups /\ kills = setup.kills /\ toml = setup.toml
  /\ interpreter = BuiltIns /\ loaded = FALSE /\ worker = Resting
  /\ edits = [j \in DOMAIN setup.edits |-> [pc |-> "asked", text |-> Empty]]
  /\ permitted = <<>>
  /\ wanted = [f \in DOMAIN setup.toml |-> BuildConfig(Settings(setup.toml[f])).ignored]
  /\ clean = [f \in DOMAIN setup.toml |-> Plainly(setup.toml[f])]
-----------------------------------------------------------------------------
(* The worker: scan_project *)

\* The configuration is loaded; a file that is no TOML fails the scan.
StartScan(folder) ==
  LET config == FolderConfig(folder)
      load   == config.plugins /\ ~loaded
  IN /\ worker.pc = "idle"
     /\ \A i \in DOMAIN setup.above[folder] : IsToml(toml[setup.above[folder][i]])
     /\ worker' = [pc |-> IF load THEN "loading" ELSE "scanning", config |-> config,
                   left |-> IF load THEN Permitted(setup.entries, config) ELSE <<>>]
     /\ permitted' = IF load THEN Permitted(setup.entries, config) ELSE permitted
     /\ UNCHANGED <<setup, kills, toml, interpreter, loaded, edits, wanted, clean>>

\* load_rule_plugins, an entry point at a time: it never raises.
LoadPlugin ==
  /\ worker.pc = "loading" /\ worker.left # <<>>
  /\ interpreter' = LoadEntry(setup.code, interpreter, Head(worker.left).module)
  /\ worker' = [worker EXCEPT !.left = Tail(@)]
  /\ UNCHANGED <<setup, kills, toml, loaded, edits, permitted, wanted, clean>>

\* _load_plugins_once.
PluginsLoaded ==
  /\ worker.pc = "loading" /\ worker.left = <<>>
  /\ loaded' = TRUE /\ worker' = [worker EXCEPT !.pc = "scanning"]
  /\ UNCHANGED <<setup, kills, toml, interpreter, edits, permitted, wanted, clean>>

EndScan ==
  /\ worker.pc = "scanning" /\ worker' = Resting
  /\ UNCHANGED <<setup, kills, toml, interpreter, loaded, edits, permitted, wanted, clean>>
-----------------------------------------------------------------------------
(* Edits: the server's disable_rule, and rules disable and rules enable as processes *)

Job(j)      == setup.edits[j]
Busy(f)     == \E j \in DOMAIN edits : edits[j].pc \in {"read", "open"} /\ Job(j).file = f
At(j, pc) == edits' = [edits EXCEPT ![j].pc = pc]

\* A command knows the built-in rules only, the server those that its plugins registered as well.
KnownTo(j) == IF Job(j).by = "server" THEN RuleNames(interpreter.registry) ELSE ToSet(BuiltinRules)

\* The server's event loop runs one edit to its end.
MayBegin(j) == Job(j).by = "server" => \A k \in DOMAIN edits : Job(k).by = "server" => edits[k].pc \notin {"read", "open"}

Refuse(j) ==
  /\ edits[j].pc = "asked" /\ Job(j).rule \notin KnownTo(j) /\ At(j, "refused")
  /\ UNCHANGED <<setup, kills, toml, interpreter, loaded, worker, permitted, wanted, clean>>

Decided(j) == wanted' = [wanted EXCEPT ![Job(j).file] = IF Job(j).ignored THEN @ \cup {Job(j).rule} ELSE @ \ {Job(j).rule}]

\* The text is read and edited in memory; when that changes nothing, nothing is written.
ReadConfig(j) ==
  LET f    == Job(j).file
      text == SetRuleIgnored(toml[f], Job(j).rule, Job(j).ignored)
  IN /\ edits[j].pc = "asked" /\ MayBegin(j) /\ Job(j).rule \in KnownTo(j)
     /\ clean' = [clean EXCEPT ![f] = @ /\ ~Busy(f)]
     /\ IF text = toml[f] THEN At(j, "done") /\ Decided(j)
        ELSE edits' = [edits EXCEPT ![j] = [pc |-> "read", text |-> text]] /\ UNCHANGED wanted
     /\ UNCHANGED <<setup, kills, toml, interpreter, loaded, worker, permitted>>

\* write_text: the file is emptied, then written.
OpenConfig(j) ==
  /\ edits[j].pc = "read"
  /\ toml' = [toml EXCEPT ![Job(j).file] = Empty] /\ At(j, "open")
  /\ UNCHANGED <<setup, kills, interpreter, loaded, worker, permitted, wanted, clean>>

WriteConfig(j) ==
  /\ edits[j].pc = "open"
  /\ toml' = [toml EXCEPT ![Job(j).file] = edits[j].text] /\ At(j, "done") /\ Decided(j)
  /\ UNCHANGED <<setup, kills, interpreter, loaded, worker, permitted, clean>>

\* A command is killed.
KillEdit(j) ==
  /\ kills > 0 /\ kills' = kills - 1 /\ Job(j).by = "command" /\ edits[j].pc \in {"read", "open"}
  /\ At(j, "killed")
  /\ clean' = [clean EXCEPT ![Job(j).file] = @ /\ edits[j].pc = "read"]
  /\ UNCHANGED <<setup, toml, interpreter, loaded, worker, permitted, wanted>>

SetNext ==
  \/ \E folder \in DOMAIN setup.above : StartScan(folder)
  \/ LoadPlugin \/ PluginsLoaded \/ EndScan
  \/ \E j \in DOMAIN edits : \/ Refuse(j) \/ ReadConfig(j) \/ OpenConfig(j)
                             \/ WriteConfig(j) \/ KillEdit(j)

SetSpec == SetInit /\ [][SetNext]_setVars
\* Nothing is scanned or edited.
SetIdle ==
  /\ setup = <<>> /\ kills = 0 /\ toml = <<>> /\ interpreter = BuiltIns /\ loaded = FALSE
  /\ worker = Resting /\ edits = <<>> /\ permitted = <<>> /\ wanted = <<>> /\ clean = <<>>
-----------------------------------------------------------------------------
(* Properties *)

\* Whatever third-party code does while it loads, the built-in rules stay as they are, no name is
\* taken twice, and the other rules are those of the plugins so far that ran to their end and that
\* the folder permits: all of them, and none of a plugin that failed ("every rule it had already
\* registered is removed", "a plugin can never replace a built-in rule", docs/custom-rules.md).
\* Plugins that share code are left out: the first one that fails takes the shared rules with it,
\* and a plugin that is listed twice can succeed the second time, without the rules of what it imports.
RegistryIsWhole ==
  LET registry == interpreter.registry
      builtin  == Len(BuiltinRules)
      done     == Len(permitted) - Len(worker.left)
      sound    == SoundOnes(setup.code, permitted, done, ToSet(BuiltinRules))
  IN /\ IsPrefix(BuiltIns.registry, registry)
     /\ \A i, k \in DOMAIN registry : registry[i].name = registry[k].name => i = k
     /\ Apart(setup.code, permitted) =>
          {registry[i] : i \in (builtin + 1)..Len(registry)} = UNION {RulesOf(setup.code, m) : m \in sound}

OtherSettings(text) == {s \in Settings(text) : <<s[1], s[2]>> # <<"ignore", "rules">>}

\* A file that the edit understands, with no two edits of it at a time and none of them killed, is
\* TOML, lists exactly the rules that the edits asked for, and has every other setting it had; and
\* the folders below it follow its list ("every other line of the file is left byte-for-byte as it
\* was", core/config_edit.py:4-5; "closer configs override parent values", core/config.py:76).
EditsKeep ==
  \A f \in DOMAIN toml : clean[f] /\ (\A j \in DOMAIN edits : edits[j].pc # "open" \/ Job(j).file # f) =>
    /\ IsToml(toml[f]) /\ OwnConfig(f).ignored = wanted[f] /\ OtherSettings(toml[f]) = OtherSettings(setup.toml[f])
    /\ \A folder \in DOMAIN setup.above :
         Last(setup.above[folder]) = f /\ wanted[f] # {} => FolderConfig(folder).ignored = wanted[f]
=============================================================================
