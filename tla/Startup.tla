------------------------------- MODULE Startup -------------------------------
(***************************************************************************)
(* The commands of one terminal up to the point where a run is ready to    *)
(* start: internal/cli/app.go and cmd_run.go, cmd_config.go, cmd_mode.go,  *)
(* cmd_skill.go and cmd_doctor.go over config.go, mode.go, skill.go and    *)
(* openrouter_validation.go.                                               *)
(*                                                                         *)
(* An action is one access to the file system, or the computing between    *)
(* two of them: files are looked for first and read later, and may be      *)
(* edited, put there or removed at any moment.  What a command answered    *)
(* stays on the terminal (log); the properties compare answers.            *)
(*                                                                         *)
(* A name with a suffix after "_" is a faulty variant of the definition    *)
(* below it, and a property of this module tells the two apart.            *)
(***************************************************************************)
EXTENDS Configuration

CONSTANTS
    Commands,      \* what may be typed: [kind, dir, config, req, schema, skill]
    Environments,  \* the TINYFLAGS_* variables to start from: [set, bad]
    Worlds,        \* the files to start from: [configs, models, skills]
    Edits,         \* what may be written: [what, dir, content]
    Catalog,       \* the service's models: Catalog[name] is what name supports
    Trimmed,       \* names with blanks around them: Trimmed[name] is name without
    Nested,        \* the skill names with a path separator in them
    MaxCommands,   \* bound: commands typed
    MaxEdits       \* bound: edits

Kinds == {"run", "config", "mode", "validate", "doctor", "skill", "skills"}

\* What may be at a path, of each kind of file.
ConfigFiles == {w.configs[d] : w \in Worlds, d \in Dirs}
                   \cup {e.content : e \in {e \in Edits : e.what = "config"}}
ModelFiles  == {w.models[d] : w \in Worlds, d \in Dirs}
                   \cup {e.content : e \in {e \in Edits : e.what = "models"}}
SkillFolders == {w.skills[d] : w \in Worlds, d \in Dirs}
                   \cup {e.content : e \in {e \in Edits : e.what = "skills"}}

\* All the files at one moment.
Snapshots == [configs : [Dirs -> ConfigFiles], models : [Dirs -> ModelFiles],
              skills : [Dirs -> SkillFolders]]
Unread == {"absent", "dir", "locked", "broken"}

\* A format that is asked for is checked before any command starts.
ASSUME CommandsAssumption ==
    \A c \in Commands : /\ c.kind \in Kinds
                        /\ c.dir \in Dirs \ {HomeDir}
                        /\ c.config \in Dirs \cup {NoDir}
                        /\ c.schema \in BOOLEAN
                        /\ c.req.format = "" \/ SupportedFormat(c.req.format)
ASSUME EnvironmentsAssumption ==
    \A e \in Environments :
       /\ e.bad \in BOOLEAN
       /\ DOMAIN e.set \subseteq Settings \ {"shell_args"}
       /\ "skills_dir" \in DOMAIN e.set => e.set["skills_dir"] \in Dirs \cup {NoDir}
ASSUME WorldsAssumption == Worlds \subseteq Snapshots
ASSUME EditsAssumption  == \A e \in Edits : e.what \in {"config", "models", "skills"} /\ e.dir \in Dirs
ASSUME ConfigFilesAssumption ==
    \A f \in ConfigFiles :
       /\ f.kind \in Unread \cup {"config"}
       /\ f.kind = "config" =>
             /\ "skills_dir" \in DOMAIN f.set => f.set["skills_dir"] \in Dirs \cup {NoDir}
             /\ \A m \in DOMAIN f.modes : DOMAIN f.modes[m] \subseteq DOMAIN NoMode
ASSUME ModelFilesAssumption ==
    \A f \in ModelFiles :
       /\ f.kind \in Unread \cup {"models"}
       /\ f.kind = "models" => f.aliases \in [DOMAIN f.aliases -> STRING]
ASSUME SkillFoldersAssumption ==
    \A f \in SkillFolders :
       /\ f.kind \in {"absent", "locked", "there"}
       /\ f.kind = "there" =>
             \A n \in DOMAIN f.files : f.files[n] \in {"file", "dir", "locked", "dangling"}
ASSUME TrimmedAssumption == \A n \in DOMAIN Trimmed : Trimmed[n] \notin DOMAIN Trimmed
ASSUME BoundsAssumption == MaxCommands \in Nat /\ MaxEdits \in Nat

VARIABLES
    configs,    \* what is at config.toml in every directory
    models,     \* and at models.toml
    skills,     \* the skill folder below every directory; at HomeDir, the global one
    env,        \* the environment of the terminal
    past,       \* history: the files before every edit
    pc,         \* what the command does next, "idle" between commands
    cmd,        \* the command
    since,      \* edits before it began
    found,      \* what DiscoverConfigPath returned
    cfg,        \* the configuration loaded so far
    modelFile,  \* where the models.toml to read is
    aliases,    \* the model aliases loaded so far
    resolved,   \* the resolved mode, of a run or `mode show`; <<>> before
    source,     \* where the skill was loaded from, "" before
    listing,    \* where `skill list` has found which skills so far
    log         \* the answers of the commands that have ended

files   == <<configs, models, skills>>
edits   == Len(past)
loading == <<found, cfg, modelFile, aliases>>
answer  == <<resolved, source, listing>>
vars    == <<files, env, past, pc, cmd, since, loading, answer, log>>

\* The three as one value, so that earlier ones can be kept.
Now == [configs |-> configs, models |-> models, skills |-> skills]

NoCommand == [kind |-> "none", dir |-> NoDir, config |-> NoDir, req |-> NoRequest,
              schema |-> FALSE, skill |-> ""]
Nowhere   == Discovered(NoDir, NoDir)

Init ==
    /\ \E w \in Worlds : configs = w.configs /\ models = w.models /\ skills = w.skills
    /\ env \in Environments
    /\ past = <<>>
    /\ pc = "idle"
    /\ cmd = NoCommand
    /\ since = 0
    /\ found = Nowhere
    /\ cfg = DefaultConfig
    /\ modelFile = NoDir
    /\ aliases = <<>>
    /\ resolved = <<>>
    /\ source = ""
    /\ listing = <<>>
    /\ log = <<>>

\* A command is typed.
Type ==
    /\ pc = "idle"
    /\ Len(log) < MaxCommands
    /\ cmd' \in Commands
    /\ since' = edits
    /\ pc' = "discover"
    /\ UNCHANGED <<files, env, past, loading, answer, log>>

\* Where there is a directory no file is written, and the reverse, before it is removed.
MayReplace(old, new) == "absent" \in {old.kind, new.kind} \/ (old.kind = "dir" <=> new.kind = "dir")

\* Somebody writes or removes a file.
Edit ==
    /\ edits < MaxEdits
    /\ past' = Append(past, Now)
    /\ \E e \in Edits :
          /\ e.what = "config" => MayReplace(configs[e.dir], e.content)
          /\ e.what = "models" => MayReplace(models[e.dir], e.content)
          /\ configs' = IF e.what = "config" THEN [configs EXCEPT ![e.dir] = e.content] ELSE configs
          /\ models'  = IF e.what = "models" THEN [models EXCEPT ![e.dir] = e.content] ELSE models
          /\ skills'  = IF e.what = "skills" THEN [skills EXCEPT ![e.dir] = e.content] ELSE skills
          /\ files' # files
    /\ UNCHANGED <<env, pc, cmd, since, loading, answer, log>>

\* The command ends with an exit code; report is what was found out about models.
EndWith(code, report) ==
    /\ log' = Append(log, [cmd |-> cmd, since |-> since, until |-> edits, code |-> code,
                           mode |-> resolved, source |-> source, listing |-> listing,
                           report |-> report])
    /\ pc' = "idle"
    /\ cmd' = NoCommand
    /\ since' = 0
    /\ found' = Nowhere
    /\ cfg' = DefaultConfig
    /\ modelFile' = NoDir
    /\ aliases' = <<>>
    /\ resolved' = <<>>
    /\ source' = ""
    /\ listing' = <<>>
    /\ UNCHANGED <<files, env, past>>

Fail(code) == EndWith(code, "none")

Goto(place) ==
    /\ pc' = place
    /\ UNCHANGED <<files, env, past, cmd, since, log>>

-----------------------------------------------------------------------------
(***************************************************************************)
(* LoadFromAnchor.                                                         *)
(***************************************************************************)
Discover ==
    /\ pc = "discover"
    /\ LET path == DiscoverConfigPath(cmd.config, cmd.dir, configs)
       IN  \/ Locked(path.load, configs) /\ Fail(ExitRuntime)
           \/ /\ ~Locked(path.load, configs)
              /\ found' = path
              /\ Goto("load config")
              /\ UNCHANGED <<cfg, modelFile, aliases, answer>>

\* The file that was found may be gone or broken by now.
LoadConfig ==
    /\ pc = "load config"
    /\ LET readable == found.load # NoDir => configs[found.load].kind = "config"
           file     == IF found.load = NoDir THEN DefaultConfig
                       ELSE MergeConfig(DefaultConfig, configs[found.load])
       IN  \/ (~readable \/ env.bad) /\ Fail(ExitRuntime)
           \/ /\ readable /\ ~env.bad
              /\ cfg' = ApplyEnv(file, env)
              /\ Goto("find models")
              /\ UNCHANGED <<found, modelFile, aliases, answer>>

\* The config file is looked for again instead of remembered.
FindModels_Again ==
    /\ pc = "find models"
    /\ LET again == DiscoverConfigPath(cmd.config, cmd.dir, configs)
           path  == FindUpward(ModelDiscoveryAnchor(again, cmd.dir), models)
       IN  /\ modelFile' = path
           /\ Goto(IF path = NoDir THEN "find home models" ELSE "read models")
           /\ UNCHANGED <<found, cfg, aliases, answer>>

FindModels ==
    /\ pc = "find models"
    /\ LET path == FindUpward(ModelDiscoveryAnchor(found, cmd.dir), models)
       IN  \/ Locked(path, models) /\ Fail(ExitRuntime)
           \/ /\ ~Locked(path, models)
              /\ modelFile' = path
              /\ Goto(IF path = NoDir THEN "find home models" ELSE "read models")
              /\ UNCHANGED <<found, cfg, aliases, answer>>

\* The file at home is read in any case, and last.
FindHomeModels ==
    /\ pc = "find home models"
    /\ \/ Locked(HomeDir, models) /\ Fail(ExitRuntime)
       \/ /\ ~Locked(HomeDir, models)
          /\ modelFile' = HomeDir
          /\ Goto(IF models[HomeDir].kind = "absent" THEN "loaded" ELSE "read home models")
          /\ UNCHANGED <<found, cfg, aliases, answer>>

ReadModels ==
    /\ pc \in {"read models", "read home models"}
    /\ \/ models[modelFile].kind # "models" /\ Fail(ExitRuntime)
       \/ /\ models[modelFile].kind = "models"
          /\ aliases' = Over(models[modelFile].aliases, aliases)
          /\ Goto(IF pc = "read models" THEN "find home models" ELSE "loaded")
          /\ UNCHANGED <<found, cfg, modelFile, answer>>

-----------------------------------------------------------------------------
(***************************************************************************)
(* The commands, with the configuration loaded.                            *)
(***************************************************************************)
ResolveMode ==
    /\ pc = "loaded"
    /\ cmd.kind \in {"run", "mode"}
    /\ LET code == ResolveCode(cfg, aliases, cmd.req)
       IN  \/ code # ExitSuccess /\ Fail(code)
           \/ /\ code = ExitSuccess
              /\ resolved' = Resolve(cfg, aliases, cmd.req)
              /\ Goto(CASE cmd.kind = "mode" -> "show"
                        [] cmd.kind = "run" /\ cmd.skill = "" -> "preflight"
                        [] OTHER -> "project skill")
              /\ UNCHANGED <<loading, source, listing>>

\* evaluateModelRequirements: a catalogue that cannot be fetched is a warning.
Reports(requirements) ==
    {"unknown"} \cup (IF \A r \in requirements : Meets(r, Catalog) THEN {"met"} ELSE {"unmet"})

\* `config validate` fails with what it finds; `doctor` only tells.
ValidateConfig ==
    /\ pc = "loaded"
    /\ cmd.kind \in {"validate", "doctor"}
    /\ LET errors     == RequirementErrors(cfg, aliases)
           Told(code) == IF cmd.kind = "doctor" THEN ExitSuccess ELSE code
       IN  \/ \E code \in errors : EndWith(Told(code), "unmet")
           \/ /\ errors = {}
              /\ \E r \in Reports(ConfigModelRequirements(cfg, aliases)) :
                    EndWith(IF r = "unmet" THEN Told(ExitRuntime) ELSE ExitSuccess, r)

\* validateRunModel: the last thing a run does before its loop.
Preflight ==
    /\ pc = "preflight"
    /\ \E r \in Reports({[model    |-> resolved.model,
                          features |-> RequiredModelFeatures(resolved, cmd.schema)]}) :
          EndWith(IF r = "unmet" THEN ExitRuntime ELSE ExitSuccess, r)

-----------------------------------------------------------------------------
(***************************************************************************)
(* Skills.  A skill folder is "absent", "locked" or "there"; then files    *)
(* tells what <name>.md is: a file, a folder, something that cannot be     *)
(* read, or a symbolic link to nothing.                                    *)
(***************************************************************************)
TrimSpace(name) == IF name \in DOMAIN Trimmed THEN Trimmed[name] ELSE name

EntryKind(folder, name) ==
    IF folder.kind = "there" /\ name \in DOMAIN folder.files THEN folder.files[name] ELSE "absent"

\* What os.ReadFile makes of it: a link to nothing is as good as no file.
FileKind(folder, name) ==
    LET entry == EntryKind(folder, name)
    IN  IF folder.kind = "locked" THEN "locked" ELSE IF entry = "dangling" THEN "absent" ELSE entry

\* readFileIfExists: what cannot be read is an error, not a missing skill.
TrySkill(dir, origin, next) ==
    LET kind == FileKind(skills[dir], TrimSpace(cmd.skill))
    IN  \/ kind \in {"locked", "dir"} /\ Fail(ExitRuntime)
        \/ /\ kind = "file"
           /\ source' = origin
           /\ Goto(IF cmd.kind = "run" THEN "preflight" ELSE "show")
           /\ UNCHANGED <<loading, resolved, listing>>
        \/ kind = "absent" /\ Goto(next) /\ UNCHANGED <<loading, answer>>

LoadSkill ==
    /\ pc = "loaded"
    /\ cmd.kind = "skill"
    /\ Goto("project skill")
    /\ UNCHANGED <<loading, answer>>

ProjectSkill ==
    /\ pc = "project skill"
    /\ \/ TrimSpace(cmd.skill) = "" /\ Fail(ExitRuntime)
       \/ TrimSpace(cmd.skill) # "" /\ TrySkill(cmd.dir, "project-local", "global skill")

\* The folder is a setting, and may be none.
GlobalSkill ==
    /\ pc = "global skill"
    /\ LET dir == cfg.settings.skills_dir
       IN  \/ dir # NoDir /\ TrySkill(dir, "global", "inline skill")
           \/ dir = NoDir /\ Goto("inline skill") /\ UNCHANGED <<loading, answer>>

InlineSkill ==
    /\ pc = "inline skill"
    /\ \/ TrimSpace(cmd.skill) \notin cfg.skills /\ Fail(ExitRuntime)
       \/ /\ TrimSpace(cmd.skill) \in cfg.skills
          /\ source' = "config-inline"
          /\ Goto(IF cmd.kind = "run" THEN "preflight" ELSE "show")
          /\ UNCHANGED <<loading, resolved, listing>>

\* Whatever a folder holds is a skill, read or not, the folders in it and what they
\* hold excepted.
ScanDir(folder, origin) ==
    IF folder.kind # "there" THEN <<>>
    ELSE [n \in {n \in DOMAIN folder.files \ Nested : folder.files[n] # "dir"} |-> origin]

ListProject ==
    /\ pc = "loaded"
    /\ cmd.kind = "skills"
    /\ \/ skills[cmd.dir].kind = "locked" /\ Fail(ExitRuntime)
       \/ /\ skills[cmd.dir].kind # "locked"
          /\ listing' = ScanDir(skills[cmd.dir], "project-local")
          /\ Goto("list others")
          /\ UNCHANGED <<loading, resolved, source>>

\* What is listed later hides what is listed already.
ListOthers_LastWins ==
    /\ pc = "list others"
    /\ LET dir    == cfg.settings.skills_dir
           global == IF dir = NoDir THEN <<>> ELSE ScanDir(skills[dir], "global")
       IN  /\ listing' = Over(Over(global, listing), [n \in cfg.skills |-> "config-inline"])
           /\ Goto("show")
           /\ UNCHANGED <<loading, resolved, source>>

ListOthers ==
    /\ pc = "list others"
    /\ LET dir    == cfg.settings.skills_dir
           global == IF dir = NoDir THEN <<>> ELSE ScanDir(skills[dir], "global")
       IN  \/ dir # NoDir /\ skills[dir].kind = "locked" /\ Fail(ExitRuntime)
           \/ /\ dir # NoDir => skills[dir].kind # "locked"
              /\ listing' = Over(Over(listing, global), [n \in cfg.skills |-> "config-inline"])
              /\ Goto("show")
              /\ UNCHANGED <<loading, resolved, source>>

\* `config show`, `config path` and `mode list` print what is loaded, `mode show`
\* and the skill commands what they have found.
Show ==
    /\ \/ pc = "show"
       \/ pc = "loaded" /\ cmd.kind = "config"
    /\ EndWith(ExitSuccess, "none")

-----------------------------------------------------------------------------
Load == Discover \/ LoadConfig \/ FindModels \/ FindHomeModels \/ ReadModels

Next == \/ Type \/ Edit
        \/ Load
        \/ ResolveMode \/ ValidateConfig \/ Preflight
        \/ LoadSkill \/ ProjectSkill \/ GlobalSkill \/ InlineSkill
        \/ ListProject \/ ListOthers
        \/ Show

Spec == Init /\ [][Next]_vars

-----------------------------------------------------------------------------
(***************************************************************************)
(* What the commands answer, if nobody touches the files: the layers read  *)
(* at one moment.  fs is a value of Now.                                   *)
(***************************************************************************)
ConfigAt(fs, c) ==
    LET path == DiscoverConfigPath(c.config, c.dir, fs.configs)
    IN  IF path.load = NoDir THEN DefaultConfig
        ELSE MergeConfig(DefaultConfig, fs.configs[path.load])

AliasesAt(fs, c) ==
    LET anchor == ModelDiscoveryAnchor(DiscoverConfigPath(c.config, c.dir, fs.configs), c.dir)
        near   == FindUpward(anchor, fs.models)
        In(d)  == IF d = NoDir \/ fs.models[d].kind = "absent" THEN <<>>
                  ELSE fs.models[d].aliases
    IN  Over(In(HomeDir), In(near))

ReadableAt(fs, c) ==
    LET path == DiscoverConfigPath(c.config, c.dir, fs.configs)
        near == FindUpward(ModelDiscoveryAnchor(path, c.dir), fs.models)
    IN  /\ ~env.bad
        /\ path.load # NoDir => fs.configs[path.load].kind = "config"
        /\ near # NoDir => fs.models[near].kind = "models"
        /\ fs.models[HomeDir].kind \in {"absent", "models"}

ModeAt(fs, c) ==
    LET config == ApplyEnv(ConfigAt(fs, c), env)
        known  == AliasesAt(fs, c)
    IN  IF ReadableAt(fs, c) /\ ResolveCode(config, known, c.req) = ExitSuccess
        THEN Resolve(config, known, c.req) ELSE <<>>

-----------------------------------------------------------------------------
(***************************************************************************)
(* Properties.                                                             *)
(***************************************************************************)
Places == {"idle", "discover", "load config", "find models", "read models",
           "find home models", "read home models", "loaded", "preflight",
           "project skill", "global skill", "inline skill", "list others", "show"}
Origins == {"project-local", "global", "config-inline"}

\* Every variable stays within the values the code can give it.
TypeOK ==
    /\ pc \in Places
    /\ cmd \in Commands \cup {NoCommand}
    /\ pc = "idle" <=> cmd = NoCommand
    /\ edits <= MaxEdits /\ since <= edits
    /\ {found.load, found.display, modelFile} \subseteq Dirs \cup {NoDir}
    /\ DOMAIN cfg.settings = Settings
    /\ source \in Origins \cup {""}
    /\ \A n \in DOMAIN listing : listing[n] \in Origins
    /\ Len(log) <= MaxCommands

\* The answers i and j were given while nobody wrote a file, by commands that read
\* the same configuration.
Undisturbed(i, j)   == log[i].since = log[j].until /\ log[j].since = log[i].until
SamePlace(i, j)     == log[i].cmd.dir = log[j].cmd.dir /\ log[i].cmd.config = log[j].cmd.config
FilesAt(k)          == Append(past, Now)[k + 1]

\* If one file is written while a command runs, the command answers from the files
\* as they were before or as they are after, never from a mixture of config file and
\* model files that nobody has ever had (LoadFromAnchor reads up to four files, one
\* after the other, where it found them earlier); or else it fails.
AtOneMoment ==
    \A i \in DOMAIN log :
       LET entry == log[i]
       IN  entry.cmd.kind \in {"run", "mode"} /\ entry.mode # <<>> /\ entry.until <= entry.since + 1
           => entry.mode \in {ModeAt(FilesAt(k), entry.cmd) : k \in entry.since .. entry.until}

\* After `config validate` has seen the catalogue and said ok, a run in the same place
\* starts, whatever mode it names, unless it names one there is not: the code that
\* validates every mode (configModelRequirements) and the code that a run uses
\* (mode.Resolve and validateRunModel) agree.
ValidatedModesRun ==
    \A i, j \in DOMAIN log :
       /\ log[i].cmd.kind = "validate" /\ log[i].code = ExitSuccess /\ log[i].report = "met"
       /\ log[j].cmd.kind = "run" /\ log[j].cmd.req.model = ""
       /\ ~log[j].cmd.schema /\ log[j].cmd.skill = ""
       /\ SamePlace(i, j) /\ Undisturbed(i, j)
       => \/ log[j].code = ExitSuccess
          \/ log[j].code = ExitCLIUsage /\ log[j].cmd.req.mode # ""

\* `skill list` and the loading of a skill agree, though they search separately
\* (skill.List, skill.Load).  Of the name as Load trims it: a skill that loads is
\* listed, with the source it loads from, unless its name is a path into a folder of
\* skills or a link to nothing has the name of its file; and a skill that is listed
\* loads, unless a folder, a file that cannot be read or a link to nothing has it.
ListedSkillsShow ==
    \A i, j \in DOMAIN log :
       LET name      == TrimSpace(log[j].cmd.skill)
           list      == log[i].listing
           Is(kinds) == \E d \in Dirs : EntryKind(FilesAt(log[i].since).skills[d], name) \in kinds
       IN  /\ log[i].cmd.kind = "skills" /\ log[i].code = ExitSuccess
           /\ name # ""
           /\ SamePlace(i, j) /\ Undisturbed(i, j)
           => /\ log[j].source # "" /\ name \notin Nested /\ ~Is({"dangling"})
                    => name \in DOMAIN list /\ list[name] = log[j].source
              /\ name \in DOMAIN list /\ log[j].cmd.kind = "skill"
                 /\ ~Is({"dir", "locked", "dangling"})
                    => log[j].code = ExitSuccess

\* With a config file at home and none named on the command line, a mode resolves
\* alike wherever the command runs: the files of a project, config.toml and
\* models.toml, do not matter (LoadFromAnchor prefers the file at home and looks for
\* models from there).
HomeConfigShields ==
    \A i, j \in DOMAIN log :
       /\ log[i].cmd.kind \in {"run", "mode"} /\ log[j].cmd.kind \in {"run", "mode"}
       /\ log[i].cmd.config = NoDir /\ log[j].cmd.config = NoDir
       /\ log[i].cmd.req = log[j].cmd.req
       /\ Undisturbed(i, j)
       /\ FilesAt(log[i].since).configs[HomeDir].kind # "absent"
       => log[i].mode = log[j].mode

\* docs/flags.md says of the shipped mode "text" that its max_tool_retries is 0: with
\* no config file, no variable and no flag that says otherwise it resolves so.
ShippedBudget ==
    \A i \in DOMAIN log :
       LET entry == log[i]
       IN  /\ entry.mode # <<>> /\ entry.mode.name = "text"
           /\ entry.cmd.req.max_tool_retries = -1
           /\ "max_tool_retries" \notin DOMAIN env.set
           /\ entry.since = entry.until
           /\ \A d \in Dirs : FilesAt(entry.since).configs[d].kind = "absent"
           => entry.mode.max_tool_retries = 0

=============================================================================
