----------------------------- MODULE MC_Startup -----------------------------
(***************************************************************************)
(* A small instance of Startup: a project "repo" with a directory "sub" in *)
(* it, and ~/.tinyflags as "tf", both below "home".                        *)
(***************************************************************************)
EXTENDS Startup, TLC

MCUp == [home |-> <<"home">>, tf |-> <<"tf", "home">>,
         repo |-> <<"repo", "home">>, sub |-> <<"sub", "repo", "home">>]
MCFullNames == {"a/m", "b/m"}
MCCatalog == [n \in {"a/m", "b/m"} |->
                 IF n = "a/m" THEN {"tools", "response_format", "structured_outputs"} ELSE {}]

Absent == [kind |-> "absent"]
Kind(k) == [kind |-> k]
Nothing == [d \in DOMAIN MCUp |-> Absent]

\* The configuration files.  Wide lists its own mode, and the second model for text;
\* Weak has a default mode that suits its model and others that do not.
Config(set, modes, inline) == [kind |-> "config", set |-> set, modes |-> modes, skills |-> inline]
Fast  == Config([default_model |-> "fast", timeout |-> 0], <<>>, {})
Wide  == Config([default_model |-> "a/m", default_mode |-> "own", timeout |-> 9],
                [text |-> [model |-> "b/m"],
                 own  |-> [model |-> "fast", tools |-> {"bash"}, timeout |-> 5]], {"own"})
Weak  == Config([default_model |-> "b/m", default_mode |-> "text", skills_dir |-> ""], <<>>, {})
Xml   == Config([default_model |-> "a/m"], [own |-> [format |-> "xml"]], {})
Aliases(m) == [kind |-> "models", aliases |-> m]
ToA == Aliases([fast |-> "a/m"])
ToB == Aliases([fast |-> "b/m", slow |-> "a/m"])

Folder(names) == [kind |-> "there", files |-> names]
Project == Folder([commit |-> "file", own |-> "dir", gone |-> "dangling"]
                  @@ ("team/notes" :> "file"))
Global  == Folder([commit |-> "file", own |-> "file", gone |-> "file", secret |-> "locked"])
MCTrimmed == (" commit " :> "commit") @@ ("  " :> "")
MCNested  == {"team/notes"}

World(config, model, skill) ==
    [configs |-> config @@ Nothing, models |-> model @@ Nothing, skills |-> skill @@ Nothing]
MCWorlds ==
    {World(<<>>, [repo |-> ToA], [tf |-> Global]),
     World([tf |-> Fast, repo |-> Wide], [repo |-> ToA, sub |-> ToB], [repo |-> Project]),
     World([repo |-> Wide, sub |-> Kind("dir")], [repo |-> ToA], [repo |-> Project, tf |-> Global]),
     World([repo |-> Weak, tf |-> Absent], [tf |-> ToB], [sub |-> Kind("locked")]),
     World([repo |-> Xml], [repo |-> Kind("locked")], <<>>),
     World([tf |-> Fast], [home |-> ToB, tf |-> Kind("dir")], <<>>),
     World([tf |-> Xml], [tf |-> ToB, repo |-> ToA], [tf |-> Kind("locked")])}

\* The edits: a config file at home comes and goes, the one of the project changes
\* or cannot be read any more; so do the model files and a skill.
Write(what, dir, content) == [what |-> what, dir |-> dir, content |-> content]
MCEdits ==
    {Write("config", "tf", Fast), Write("config", "tf", Absent),
     Write("config", "repo", Kind("broken")), Write("config", "repo", Kind("locked")),
     Write("models", "repo", ToB), Write("models", "tf", Kind("locked")),
     Write("models", "tf", ToA), Write("models", "tf", Absent),
     Write("skills", "repo", Folder([own |-> "file"]))}

Typed(kind, dir) == [NoCommand EXCEPT !.kind = kind, !.dir = dir]
In(mode) == [NoRequest EXCEPT !.mode = mode]
MCCommands ==
    {Typed("run", "sub"), Typed("mode", "sub"), Typed("validate", "sub"),
     Typed("skills", "sub"), Typed("skills", "repo"),
     Typed("doctor", "repo"), Typed("config", "repo"),
     [Typed("mode", "repo") EXCEPT !.req = In("text")],
     [Typed("mode", "repo") EXCEPT !.req = [NoRequest EXCEPT !.model = "slow"]],
     [Typed("run", "sub") EXCEPT !.req = In("commander")],
     [Typed("run", "sub") EXCEPT !.req = In("text"), !.schema = TRUE],
     [Typed("run", "repo") EXCEPT !.req = [In("text") EXCEPT !.timeout = 1, !.max_steps = 0,
                                                             !.max_tool_retries = 0]],
     [Typed("run", "repo") EXCEPT !.req = [NoRequest EXCEPT !.model = "slow"], !.config = "sub"],
     [Typed("run", "repo") EXCEPT !.skill = "commit"],
     [Typed("run", "sub") EXCEPT !.skill = "  "],
     [Typed("skill", "repo") EXCEPT !.skill = "own"],
     [Typed("skill", "repo") EXCEPT !.skill = "gone"],
     [Typed("skill", "repo") EXCEPT !.skill = "secret"],
     [Typed("skill", "repo") EXCEPT !.skill = "team/notes"],
     [Typed("skill", "sub") EXCEPT !.skill = " commit "]}

MCEnvironments ==
    {[set |-> <<>>, bad |-> FALSE],
     [set |-> [default_model |-> "a/m", skills_dir |-> "", timeout |-> 0], bad |-> FALSE],
     [set |-> <<>>, bad |-> TRUE]}

=============================================================================
