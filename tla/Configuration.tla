---------------------------- MODULE Configuration ----------------------------
(***************************************************************************)
(* What the configuration layers amount to, as operators: the shipped      *)
(* defaults, one config file over them, the environment over both          *)
(* (internal/config/config.go), the model catalogue files, a mode resolved *)
(* for a request (internal/mode/mode.go), and what a mode asks of its      *)
(* model (internal/cli/openrouter_validation.go).  Startup says when which *)
(* file is read.                                                           *)
(*                                                                         *)
(* Texts are strings of which only emptiness and identity count; a partial *)
(* function holds the keys a file or the environment sets.  Paths are      *)
(* directories: each holds at most one file of a name.  Durations are in   *)
(* minutes.                                                                *)
(*                                                                         *)
(* A name with a suffix after "_" is a faulty variant of the definition    *)
(* below it, and a property of Startup tells the two apart.                *)
(***************************************************************************)
EXTENDS ExitCodes, Integers, Sequences

CONSTANTS
    HomeDir,    \* ~/.tinyflags
    Up,         \* Up[d]: d and the directories above it, nearest first
    FullNames   \* the model names with a slash in them

ASSUME UpAssumption ==
    /\ HomeDir \in DOMAIN Up
    /\ \A d \in DOMAIN Up : Up[d] \in Seq(DOMAIN Up) /\ Up[d] # <<>>
    /\ "" \notin DOMAIN Up \cup FullNames

Dirs  == DOMAIN Up
NoDir == ""

(***************************************************************************)
(* Settings and modes.                                                     *)
(***************************************************************************)
Texts    == {"api_key", "base_url", "default_mode", "default_model", "default_format",
             "db_path", "skills_dir", "shell", "log_level", "plan_mode_instruction"}
Counts   == {"max_steps", "max_tool_retries"}
Settings == Texts \cup Counts \cup {"timeout", "shell_args"}

DefaultSettings ==
    [api_key |-> "", base_url |-> "openrouter", default_mode |-> "commander",
     default_model |-> "", default_format |-> "text", db_path |-> HomeDir,
     skills_dir |-> HomeDir, shell |-> "/bin/bash", shell_args |-> <<"-lc">>,
     log_level |-> "error", plan_mode_instruction |-> "",
     timeout |-> 2, max_steps |-> 12, max_tool_retries |-> 3]

\* The zero ModeConfig.  A tool list may be empty without being nil.
NoMode ==
    [model |-> "", format |-> "", system |-> "", tools |-> {}, toolsNil |-> TRUE,
     persist_session |-> FALSE, store_run_log |-> FALSE, capture_commands |-> FALSE,
     capture_stdout |-> FALSE, capture_stderr |-> FALSE,
     max_steps |-> 0, max_tool_retries |-> 0, timeout |-> 0]

ShippedMode(tools, capture, steps, retries) ==
    [NoMode EXCEPT !.format = "text", !.tools = tools, !.toolsNil = FALSE,
                   !.persist_session = TRUE, !.store_run_log = TRUE,
                   !.capture_commands = capture, !.capture_stdout = capture,
                   !.capture_stderr = capture,
                   !.max_steps = steps, !.max_tool_retries = retries]

ShippedModes ==
    [text      |-> ShippedMode({}, FALSE, 4, 0),
     tool      |-> ShippedMode({"read_file", "write_file"}, TRUE, 8, 3),
     commander |-> ShippedMode({"bash"}, TRUE, 12, 3)]

\* append([]string(nil), tools...): the copy of an empty tool list is nil.
CopyTools(mode) == [mode EXCEPT !.toolsNil = (mode.tools = {})]

DefaultConfig ==
    [settings |-> DefaultSettings,
     modes    |-> [m \in DOMAIN ShippedModes |-> CopyTools(ShippedModes[m])],
     skills   |-> {"commit"}]

(***************************************************************************)
(* Merging.                                                                *)
(***************************************************************************)
\* An empty text or list and a timeout of zero are as good as unset; a count of
\* zero is not.
Counted(file, k) ==
    /\ k \in DOMAIN file.set
    /\ k \in Texts => file.set[k] # ""
    /\ k = "shell_args" => file.set[k] # <<>>
    /\ k = "timeout" => file.set[k] > 0

\* One layer over another: what upper has, and of lower the rest.
Over(upper, lower) == [k \in (DOMAIN upper) \cup (DOMAIN lower) |->
                          IF k \in DOMAIN upper THEN upper[k] ELSE lower[k]]

MergeModeConfig(base, override) == CopyTools(Over(override, base))

\* A file that is there stands for the defaults.
MergeConfig_Replace(base, file) ==
    [settings |-> file.set, modes |-> Over(file.modes, base.modes), skills |-> file.skills]

MergeConfig(base, file) ==
    LET Base(m) == IF m \in DOMAIN base.modes THEN base.modes[m] ELSE NoMode
    IN  [settings |-> [k \in Settings |-> IF Counted(file, k) THEN file.set[k]
                                          ELSE base.settings[k]],
         modes    |-> Over([m \in DOMAIN file.modes |-> MergeModeConfig(Base(m), file.modes[m])],
                          base.modes),
         skills   |-> base.skills \cup file.skills]

\* A variable that is set counts, also when it is set to the empty text.
ApplyEnv(cfg, env) == [cfg EXCEPT !.settings = Over(env.set, @)]

(***************************************************************************)
(* Finding files.  What is at a path is told by its kind: "absent", "dir", *)
(* "locked" (it cannot be looked at), "broken" (its contents are refused), *)
(* "config" or "models".                                                   *)
(***************************************************************************)
FindUpward(dir, files) ==
    LET hits == {i \in DOMAIN Up[dir] : files[Up[dir][i]].kind \notin {"absent", "dir"}}
    IN  IF hits = {} THEN NoDir ELSE Up[dir][CHOOSE i \in hits : \A j \in hits : i <= j]

Locked(dir, files) == dir # NoDir /\ files[dir].kind = "locked"

\* The config file to load, and the path to show for it; a path given with
\* --config is shown even if nothing is there.
Discovered(load, display) == [load |-> load, display |-> display]

DiscoverConfigPath(explicit, anchor, configs) ==
    LET first == IF explicit # NoDir THEN explicit ELSE HomeDir
        near  == FindUpward(anchor, configs)
    IN  IF configs[first].kind # "absent" THEN Discovered(first, first)
        ELSE IF explicit # NoDir THEN Discovered(NoDir, explicit)
        ELSE Discovered(near, near)

\* Models are looked for where the command runs.
ModelDiscoveryAnchor_Command(found, anchor) == anchor

ModelDiscoveryAnchor(found, anchor) == IF found.display # NoDir THEN found.display ELSE anchor

(***************************************************************************)
(* Resolving a mode for a request.  An error is its exit code.             *)
(***************************************************************************)
FirstNonEmpty(texts) ==
    LET hits == {i \in DOMAIN texts : texts[i] # ""}
    IN  IF hits = {} THEN "" ELSE texts[CHOOSE i \in hits : \A j \in hits : i <= j]

SupportedFormat(format) == format \in {"text", "json"}

ModelCode(aliases, name, fromFlag) ==
    IF name = "" THEN ExitCLIUsage
    ELSE IF name \in (DOMAIN aliases) \cup FullNames THEN ExitSuccess
    ELSE IF fromFlag THEN ExitCLIUsage ELSE ExitRuntime

\* An alias wins over a full name that reads the same.
ResolveModel(aliases, name) == IF name \in DOMAIN aliases THEN aliases[name] ELSE name

ModeName(cfg, req) == FirstNonEmpty(<<req.mode, cfg.settings.default_mode>>)

Model(cfg, req)  == FirstNonEmpty(<<req.model, cfg.modes[ModeName(cfg, req)].model,
                                    cfg.settings.default_model>>)
Format(cfg, req) == FirstNonEmpty(<<req.format, cfg.modes[ModeName(cfg, req)].format,
                                    cfg.settings.default_format>>)

ResolveCode(cfg, aliases, req) ==
    IF ModeName(cfg, req) \notin DOMAIN cfg.modes THEN ExitCLIUsage
    ELSE LET code == ModelCode(aliases, Model(cfg, req), req.model # "")
         IN  IF code # ExitSuccess THEN code
             ELSE IF SupportedFormat(Format(cfg, req)) THEN ExitSuccess ELSE ExitRuntime

\* The resolved mode, if ResolveCode is ExitSuccess.  Flags are -1, or 0 for the
\* timeout, when they are not given.
Resolve(cfg, aliases, req) ==
    LET mode  == cfg.modes[ModeName(cfg, req)]
        steps == IF mode.max_steps > 0 THEN mode.max_steps ELSE cfg.settings.max_steps
        tries == IF mode.max_tool_retries # 0 \/ ~mode.toolsNil
                 THEN mode.max_tool_retries ELSE cfg.settings.max_tool_retries
        time  == IF mode.timeout > 0 THEN mode.timeout ELSE cfg.settings.timeout
    IN  Over([name             |-> ModeName(cfg, req),
              model            |-> ResolveModel(aliases, Model(cfg, req)),
              format           |-> Format(cfg, req),
              max_steps        |-> IF req.max_steps >= 0 THEN req.max_steps ELSE steps,
              max_tool_retries |-> IF req.max_tool_retries >= 0 THEN req.max_tool_retries ELSE tries,
              timeout          |-> IF req.timeout > 0 THEN req.timeout ELSE time],
             mode)

(***************************************************************************)
(* What is asked of models.                                                *)
(***************************************************************************)
RequiredModelFeatures(mode, schema) ==
    (IF mode.tools # {} THEN {"tools"} ELSE {})
        \cup (IF schema THEN {"response_format", "structured_outputs"} ELSE {})

\* catalog maps the names of models to the parameters they support.
Meets(requirement, catalog) ==
    /\ requirement.model \in DOMAIN catalog
    /\ requirement.features \subseteq catalog[requirement.model]

NoRequest == [mode |-> "", model |-> "", format |-> "",
              max_steps |-> -1, max_tool_retries |-> -1, timeout |-> 0]

ModeRequests(cfg) == {[NoRequest EXCEPT !.mode = m] : m \in DOMAIN cfg.modes}

\* The codes the requirements of a configuration may fail with: the default model
\* is resolved first, then the default mode, then the modes in some order.
RequirementErrors(cfg, aliases) ==
    LET default == cfg.settings.default_model
        first   == IF default = "" THEN ExitSuccess ELSE ModelCode(aliases, default, FALSE)
        second  == ResolveCode(cfg, aliases, NoRequest)
    IN  IF first # ExitSuccess THEN {first}
        ELSE IF second # ExitSuccess THEN {second}
        ELSE {ResolveCode(cfg, aliases, r) : r \in ModeRequests(cfg)} \ {ExitSuccess}

\* The modes are left to the run that uses them.
ConfigModelRequirements_DefaultOnly(cfg, aliases) ==
    LET mode == Resolve(cfg, aliases, NoRequest)
    IN  {[model |-> mode.model, features |-> RequiredModelFeatures(mode, FALSE)]}

ConfigModelRequirements(cfg, aliases) ==
    LET Required(r) == LET mode == Resolve(cfg, aliases, r)
                       IN  [model |-> mode.model,
                            features |-> RequiredModelFeatures(mode, FALSE)]
        default == cfg.settings.default_model
    IN  {Required(r) : r \in ModeRequests(cfg) \cup {NoRequest}}
            \cup (IF default = "" THEN {}
                  ELSE {[model |-> ResolveModel(aliases, default), features |-> {}]})

=============================================================================
