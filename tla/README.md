# A formal model of tinyflags

tinyflags is a command-line agent: one invocation reads a prompt, drives a
provider/tool loop under a deadline, optionally saves the conversation in a
named session and a run log in SQLite, prints the answer and exits with a
stable code. This directory holds TLA+ modules translated from the Go source
(`internal/...`), the TLC configurations that check them on small instances,
and proofs that TLAPS checks for every instance. `PROJECT.json` lists the runs,
the faulty variants each property rejects, the source lines behind every
definition, the hazards, and the findings.

    tlc -workers 2 -config AgentLoop.cfg MC_AgentLoop
    tlapm AgentLoopProofs.tla
    tlapm AgentLoopBoundsProofs.tla
    tlapm ProviderClientProofs.tla
    tlapm BashToolProofs.tla
    tlapm SessionStoreProofs.tla
    tlapm SessionsRefinementProofs.tla
    tlapm InvocationProofs.tla
    tlapm StartupProofs.tla

## The system

| part | source | state it keeps | operations | what makes it correct |
| --- | --- | --- | --- | --- |
| agent loop | `internal/agent/agent.go` | transcript, this run's part of it, step, consecutive failures, usage, summaries | ask the provider, run each tool call, record its result, count failures and steps, stop | every tool call gets its result and every result a call; budgets hold across responses; nothing acts that the mode does not admit; it ends by its deadline |
| tools | `internal/tools/...` | none between calls; bash: the shell, its context and the pipes its children hold | `Execute` of bash, read_file, write_file, web_search stub | no effect in plan mode; bounded lateness after the deadline; complete output; a timeout only for a deadline |
| invocation | `internal/cli/cmd_run.go` | the armed deadline, where the invocation is, the error to report | load inputs, preflight, loop, validate, save, finalize, render, exit code | exit code, run row and session agree on what happened |
| run log | `internal/store/store.go` | rows of `runs`, `tool_calls`, `shell_commands`; ids by call | hooks of the loop; `FinalizeSuccess`, `FinalizeError` | a tool that ran is in the log; nothing stays "running"; the log matches the transcript |
| session store | `internal/session/session.go` | rows of `sessions`, `messages` | load or create, fork, append, read, show, clear, delete | whole turns only, in the session of the given name |
| provider client | `internal/provider/openrouter` | none between requests; within one the attempt and its timers | complete with retries, look up the metadata, fetch the model catalogue | rests a server asks for are kept, none is begun that the deadline cuts short, the look-up never costs the answer |
| model validation | `internal/cli/openrouter_validation.go` | none | compare required and supported features | a run that cannot work is refused before the loop |
| hooks | `internal/hooks`, `internal/logging` | none | call every hook of an event, join their errors | a hook's error is never lost |
| configuration | `internal/config` | none; files of the project and of the home directory | discover the config file, decode, merge over the defaults, apply the environment, find and read model files | a command answers from files as they were together; a config file at home shields from a project's |
| modes | `internal/mode` | none | resolve a mode for a request, model aliases | what `config validate` accepts can be run; flags over mode over settings |
| skills | `internal/skill` | none; two folders and the configuration | load one, list all | what is listed loads, from where the list says |
| schema validation | `internal/schema` | a validator goroutine | validate beside the context | the answer conforms or the run fails |
| redaction | `internal/core/tool_result.go` | none | drop what capture settings exclude from rows and messages | nothing excluded reaches log or session |
| errors, output, admin commands | `internal/errors`, `internal/output`, `internal/cli` | none | exit codes, rendering, printing | stable codes |

How they interact: `executeRun` loads the session's messages, hands them to
`Runner.Run` with the run log's hooks, and when the loop returns validates,
saves `NewMessages` and finishes the run row. The loop and everything behind it
share one context, which a timer (the deadline) or a signal (the interrupt)
may finish at any moment; the code tests only for the deadline. Several
invocations share one database file; each has one connection and no busy
timeout, so a statement that meets a foreign write lock fails at once.

What is hard here: a failure in the middle of a response's tool calls; the
deadline or an interrupt between any two steps; a database statement that fails
between two others; the process being killed anywhere; several invocations on
one session, and sessions deleted under a running one; files that change between
being found and being read; two pieces of code that must agree on what a
configuration means. The list, with lines, is `hazards` in `PROJECT.json`.

## Modules

**ExitCodes** — the exit codes. Errors are abstracted to the code they carry,
the only thing the control flow inspects.

**AgentLoop** — `Runner.Run`. Each action is one handler of the loop:
`LoopStart` (hook, prompt stack), `StepStart` (deadline, hook), `SendRequest`,
the ways `Complete` returns (`ResponseTooLate`, `ProviderFails`,
`StepCompleteFails`, `ProviderRefuses`, `ProviderAsksTools`,
`ProviderAnswers`), the handling of one call (`RejectCall`, `AdmitCall`,
`InvalidArguments`, `PlanTool`, `StartTool`, `ToolReturns`,
`ToolResultHookFails`, `RecordResult`) and `EndBatch`. `Expire` and `Interrupt`
are the environment. The loop's locals are variables of the same name; `calls`
is what is left of `resp.ToolCalls`. A call keeps its id, its name and whether
its arguments are JSON at all ("garbled" if not). An error keeps its exit code
and, where it matters, whether it wraps a timeout: a connection that could not be set
up in time ends the run with the timeout's code under a live context
(`NormalizeContextError`). A message keeps its role, the
calls it makes or answers and whether it reports a failure. `effects` is a
history variable: which calls really acted, when. `MayAct` says which calls
may: a shell command under a live context may still fail to start.

**ProviderClient** — `Client.Complete`: one request with its retries (`doWithRetry`),
their back-off, `Retry-After`, the deadline test before a rest and the look-up of the
generation's metadata. Time is explicit: `left` counts down to the deadline, `timer`
to the timer that runs, and `Tick` never passes a timer that is due. Of a response
only its class is kept. `rests` is a history variable; `cause` is what the returned
error wraps, which the loop looks at. `Loop` maps a request to AgentLoop's, and
`ImplementsLoopRequest` is the refinement: the retries amount to what AgentLoop takes
for granted of a request.

**BashTool** — `Execute` of the shell tool behind its argument checks: the shell, the
processes it leaves behind (`holders` of its output, with `os/exec` waiting for them),
the invocation's context and the command's own (`cmd`), whose duration is computed in
a machine integer and may wrap. A `timeout_seconds` that does not fit makes a command
time out early or at once; the model has that, and `TimeoutEarned` speaks of those
that fit (`Fits`), measured in true seconds. `ImplementsLoopTool` is the refinement of
AgentLoop's `StartTool` and `ToolReturns`.

**RunTracker** — the hooks of the run log as operations that take whether their
statement succeeded. It has no specification of its own: it is a part of
Invocation.

**Invocation** — `executeRun`, from the armed deadline to the exit code. It
instantiates AgentLoop and RunTracker and gives each loop action the hook that
runs inside it. `OnToolResult` is two statements, so it is two steps
(`ResultLogged`, `CommandLogged`) before `RecordResult`. `phase` is the place in
`executeRun`; `Setup` is the stages before the loop, each with its errors and
the deadline test behind it. `finishError` is two steps: `FinishError` reads the
deadline and settles the error, `CloseRun` writes the run row and exits, and the
deadline may pass in between. `StoredMessage` is what the messages table keeps
of a message, including the tool calls whose encoding fails. `kept` is a history
variable: which parts of shell commands have come into the database, and where, the
texts of calls (`CallPlaces`) and the parts of results (`ResultPlaces`). `expiry` is
another: where `executeRun` was when the deadline passed, and how many answers it had.

**Redaction** — what a stored tool result discloses of a shell command: the
results bash makes, `RedactToolResult`, and which parts of the command text and
its output a field contains. Invocation applies it where rows and messages are
written.

**Configuration** — what the layers amount to, as operators: the shipped
defaults, `mergeConfig` with its rules for empty values, `applyEnv`, the search for
files, `mode.Resolve` with its errors, and what modes require of models. Of a text
only emptiness and identity count. An empty tool list and a missing one are told
apart, since the code does.

**Startup** — the commands `run` (up to its loop), `config`, `mode`, `skill` and
`doctor` over files that are edited meanwhile. An action is one access to a file
(`Discover`, `LoadConfig`, `FindModels`, `ReadModels`, `FindHomeModels`,
`ProjectSkill`, ...) or the computing between two. `log` keeps the answers, so that
properties can compare what two commands said; `past` is a history variable with the
files before every edit. Whoever edits the files writes no file over a directory, and
makes no directory where a file is, without removing it first (`MayReplace`): a file
system does not either. `AtOneMoment` rests on it. The search for a file passes
directories by, and reads `models.toml` at home without looking what it is; so a
directory there that became a file in one step, between the two, would give aliases
that no moment gives. A `--format` is checked before any command starts
(app.go:117-120), hence `CommandsAssumption`. What is at `<name>.md` in a skill folder
is a file, a folder, something that cannot be read or a link to nothing (`EntryKind`);
reading tells the last from no file at all no better than the code does (`FileKind`),
listing takes all but folders (`ScanDir`). `Load` trims the name it is given
(`TrimSpace`, by the table `Trimmed`) and takes a path for a name (`Nested`); `List`
does neither, and an empty name is an error of its own. `ConfigAt`, `AliasesAt`,
`ReadableAt` and `ModeAt` are the reference: what a command would answer from files at
one moment.

**Sessions** — the abstract specification of the session commands: a store of
named conversations, one step a command. A command whose session has been deleted
may act on another one, and on no other ground.

**SessionStore** — the same at the level of SQL statements, for several
processes over one file with its write lock: transactions, look-ups outside
them, row ids that are given out again, cascade on delete, failing statements,
killed processes. `ImplementsSessions` is the refinement: `ByName` maps the
tables to the conversations; `deleted` is a history variable of both.

**MC_AgentLoop, MC_ProviderClient, MC_BashTool, MC_Invocation, MC_SessionStore,
MC_Startup** — the instances for TLC.

**AgentLoopProofs, ProviderClientProofs, BashToolProofs, SessionStoreProofs** — the
theorems about the modules they are named for. **AgentLoopBoundsProofs** — the
rest of AgentLoop's safety properties, on top of AgentLoopProofs.
**SessionsRefinementProofs** — SessionStore implements Sessions, on top of
SessionStoreProofs. **InvocationProofs** — Invocation, on top of AgentLoop's
theorems. **StartupProofs** — Startup and Configuration.

In every module a name with a suffix behind "_" (`EndBatch_CapOffByOne`) is a
faulty variant of the definition below it; `PROJECT.json` says which property
rejects it. No specification uses them.

## What the runs check

| run | shows |
| --- | --- |
| `agent_loop` | Transcript pairing (`TranscriptAnswered`), the turn being exactly what was sent (`TurnIsTranscriptSuffix`), step cap and failure budget (`RequestsBounded`, `BudgetHonoured`), bounded lateness (`LateEffectsBounded`), authorisation (`EffectsAuthorised`), a true summary (`ToolsUsedMatchTranscript`), and termination by the deadline if the tools that are started return (`TimeoutEndsRun`). |
| `provider_client` | Every retry was preceded by the rest its server asked for (`RetriesRested`), a rest that cannot end in time is not begun (`RestFitsDeadline`), the metadata look-up never makes an answer late (`LookUpKeepsAnswer`), a request whose context is done returns (`FinishedContextReturns`), and the whole is one request of AgentLoop (`ImplementsLoopRequest`). |
| `shell_command` | Captured output is complete (`OutputComplete`), a timeout is reported for the invocation's deadline or when all the seconds asked for have passed, for every `timeout_seconds` that fits into a duration (`TimeoutEarned`), a command whose time is up returns once nothing holds its output (`KilledUnlessHeld`), and the whole is one tool call of AgentLoop (`ImplementsLoopTool`). |
| `invocation` | The log: no effect unrecorded (`EffectsAreLogged`), log and transcript tell the same story (`LogMatchesTranscript`), nothing left running (`NothingLeftRunning`), the run row is true, and an error in it is the one the process ended with even if statements were lost (`RunRowTrue`). The outcome: exit code 0 means everything happened (`SuccessIsComplete`), only whole turns are saved (`SavedTurnWhole`), a run that ended with a code other than success, timeout, session failure or runtime error saved nothing (`UnsavedByCode`), a late answer is neither used nor saved and the deadline decides the exit code by the place it passed at (`TimeoutReported`), and the process ends if nothing holds it up for ever that no context reaches (`TimeoutEndsProcess`). Outside plan mode no part of a result that is not to be captured is stored, on any of the three ways a result takes (`RunsCaptureHonoured`). |
| `sessions` | With every command, sessions and loaded histories hold whole turns (`SessionsWhole`), names are unique and a new session inherits nothing (`NothingInherited`), and the statements implement the abstract commands (`ImplementsSessions`). |
| `startup` | If one file is written while a command runs, the command answers from the files before or after (`AtOneMoment`). What `config validate` accepts, a run accepts (`ValidatedModesRun`); what `skill list` shows, loads, and the reverse, with the exceptions the code has: folders, files that cannot be read, links to nothing and paths for names (`ListedSkillsShow`); behind a config file at home, a mode resolves alike in every project (`HomeConfigShields`). |
| `command_outlives_timeout` | A finding: a process the shell left behind, holding its output, keeps the command and with it the invocation past `--timeout` (`TimeoutEndsCommand`). |
| `stdin_outlives_timeout` | A finding: reading standard input is not covered by `--timeout`; nothing else holds the process up in the counterexample (`HardCap`). |
| `garbled_call_lost` | A finding: a tool call whose arguments are no JSON is lost when the turn is saved, its result is not (`SavedResultsHaveCalls`); a provider refuses such a history from then on. |
| `turn_in_other_session` | A finding: a run whose session is deleted and whose row id is reused saves its turn in another session (`SavedWhereAsked`). |
| `shipped_budget` | A finding: the shipped mode `text` does not resolve to the retry budget of 0 the flags' documentation gives for it, because a copy turns its empty tool list into none (`ShippedBudget`). |
| `planned_command_kept` | A finding: in plan mode, with both outputs captured and commands not, the saved tool message keeps the command in its content (`CaptureHonoured`). |

The process may be killed anywhere, and nothing in the code runs then; so an
invariant of Invocation, which holds in every reachable state, holds of what a
killed process leaves behind. SessionStore has an action for it (`Crash`),
because there the other processes go on.

### Bounds

- `agent_loop`: up to two calls a response, caps of 0, 1 and 2 steps, budgets -1,
  0, 1, 3. One tool of each kind: the shell (stopped by the context), a file
  tool (not stopped), the stub (no effect), one admitted but not registered, one
  registered but not admitted, one call with garbled arguments. Two calls in each
  of two steps reach every order of success and failure around a budget and a
  cap; nothing in the code depends on a third.
- `provider_client`: ticks of 50 ms, so the program's own back-offs are 10, 20 and
  40; `Retry-After` absent, one second and four. The deadlines are on both sides of
  every comparison the code makes (2, 3, 4 around the look-up, 10 and 11 around the
  first back-off, 31, 72 and 85 around sums of rests), and none. The look-up's
  timeout and slack, 100 and 50 ms, are 2 and 1.
- `shell_command`: two children, so that one may hold the output when another lets
  go; four ticks to a second and durations up to 15: no timeout, two that fit, one
  that wraps to a negative time and one that wraps to a short one.
- `invocation`: the shell and a file tool, the same call id in several
  responses, two steps (one with a schema), every persistence setting the code
  branches on. Capture of the command is off in plan mode and with a schema, and
  the outputs that may be kept are both, one and none.
- `sessions`: two terminals, two names, two invocations each, turns of two
  messages, three row ids. A stale id needs one run in progress and two commands
  of the other terminal; a mixed or torn turn needs two messages.
  With three invocations of each terminal the run passes too (10 million states,
  5 minutes). The properties of this run are proved without bounds.
- `startup`: a project with a directory in it and the directory of the program's own
  files, both in a home directory that may have files too; seven worlds of
  files to start from (files that shadow each other, that cannot be looked at, that
  are directories, that are broken; skill files of every kind), twenty commands of all
  kinds, with names to trim, a path for a name and an empty name, two in a row,
  and one edit among nine. Two commands are what a property compares. One edit is
  what `AtOneMoment` is about: with two edits during one command a mixture of files
  is possible, since the code reads up to four, one after the other. The properties
  of this run are proved without bounds.

### Fairness

`AgentLoop!FairSpec` and `Invocation!FairSpec` assume that the process goes on
taking its own steps, that an armed timer fires, and that a request returns
once its context is done. Nothing is assumed of what no context reaches. So the
liveness properties name their condition: `TimeoutEndsRun` speaks of runs in which
every tool that is started returns (`ToolsReturn`), `TimeoutEndsProcess` of
processes that nothing holds up for ever (`HeldUp`): the other end of standard
input, a skill or schema file (which may be a pipe), a tool, or the reader of the
output. `HardCap` lets standard input alone hold the process up, and fails. A
database statement is the process's own step: it fails at once on a foreign lock.
ProviderClient shows the assumption about requests (`FinishedContextReturns`) from
a weaker one: Go's transport returns when the context of its request is done, and
the look-up's own timer ends the look-up; nothing is assumed of a server under a
live context. BashTool shows when a shell command returns: its only
fairness is that `Execute`, the kill and the timer go on; no process has to end
and no deadline has to fire. A command then returns if nothing goes on holding
its output (`KilledUnlessHeld`), and may not otherwise (`TimeoutEndsCommand`
fails), which is why AgentLoop and Invocation assume nothing of tools. SessionStore and
Startup are checked for safety only: their commands are short, sequential and may
be abandoned anywhere.

## What is proved

`AgentLoopProofs` proves, for every set of calls, allowed and registered tools,
response length and input:

- `TypeCorrect`: `Spec => []TypeOK`.
- `TranscriptAlwaysAnswered`: `Spec => []TranscriptAnswered`.

The assumptions are the named ones of AgentLoop: the shape of calls and inputs,
a natural response bound, and that a loaded history owes nothing
(`SessionsAssumption`).

`TypeOK` is inductive: one step of the proof per action (`TypeStep`). It carries
one fact that is no type, that the call being handled is still in `calls`, which
the proof needs for `Head(calls)` to be a call.

`TranscriptAnswered` is inductive relative to `TypeOK`. Its core is
`Answers(s, rest)`: transcript `s` with the calls `rest` still owed. It states
for each assistant message that its k-th call is answered k places later, or is
the right element of `rest` if that is past the end; that each result was asked
for; and where `rest` comes from. The lemmas are the loop's four ways to touch
the transcript: nothing yet (`AnswersEmpty`), a message with no calls behind or
before it (`AnswersSuffix`, `AnswersPrefix`), a response that asks
(`AnswersAsk`), a result that is recorded (`AnswersRecord`). Every other action
leaves transcript and `calls` alone.

`AgentLoopBoundsProofs` proves the other safety properties of AgentLoop, under the
same assumptions: `TurnAlwaysSuffix`, `RequestsAlwaysBounded`,
`BudgetAlwaysHonoured`, `ToolsAlwaysMatch`, `EffectsAlwaysAuthorised` and
`LateEffectsAlwaysBounded`. Two lemmas sort the steps, so that no proof repeats
the list of actions: by what they do to the transcript (`StepKinds`) and whether
they run a tool (`EffectKinds`). Each property has its strengthening:

- `TurnInv`: before the loop starts there is no transcript.
- `CapInv`: the step is at most the cap and is ahead of the answers while one is
  being asked for.
- `BudgetInv`: the counter is the length of the failed streak at the end of the
  transcript. That counter and transcript agree is what makes the budget hold
  across responses.
- `ToolsInv`: the same equation from the start.
- `AuthorInv`: the call about to be executed was admitted.
- `LateInv`: a late effect fixes the context for good; the run then comes back to a
  tool only within that step, and after a deadline not at all.

`ProviderClientProofs` proves, for every back-off table, set of `Retry-After`
values, look-up timeout, slack and set of requests: `TypeCorrect`,
`RetriesAlwaysRested`, `RestAlwaysFits`, `LookUpAlwaysKeepsAnswer`, and
`ClientImplementsRequest`, the refinement. None of the properties is inductive
alone. The invariant joins `RestInv` (in a back-off, time slept and time on the
timer together are at least what the table and the server asked for),
`LookUpInv` (during a look-up the deadline is further away than the look-up's
timer, by more than the slack), and `RequestInv` (nothing is decided before the
return, nothing is sent with a bad schema, and only a request made with a deadline
can meet one). The refinement proof has one lemma per action, saying which
step of AgentLoop it is, or that it is none.

`BashToolProofs` proves, for every set of children, timeouts (also those that do not
fit, of which `TimeoutEarned` says nothing) and integer width:
`TypeCorrect`, `OutputAlwaysComplete`, `TimeoutAlwaysEarned` and
`CommandImplementsTool`, the refinement. The invariant adds `TimerInv`: time on
the timer and time elapsed are together the duration, also a short one that has
wrapped, and the shell and its children are gone in the phases that come after
waiting for them. The assumptions are that timeouts are natural
numbers and a second is at least a tick.

`SessionStoreProofs` proves, for every set of terminals and names, every number of
invocations and row ids and every length of a turn: `TypeCorrect`,
`NothingEverInherited` and `SessionsAlwaysWhole`. `PlaceInv` says what an
invocation has at each of its statements: a row id once it has looked one up, an
existing session once its first INSERT has passed the foreign key, a free name and
row id once its fork holds the lock. It survives the steps of others because of
one lemma (`OthersKept`): nobody writes the tables while somebody else holds the
lock. `TableKinds` sorts the statements by what they do to the tables, so the
proofs behind it have six cases instead of fifteen. `TurnInv` strengthens
`SessionsWhole`: stored messages belong to turns that are over (`StoredOver`), so
the turn being saved is none of them, and an open transaction holds the beginning
of its turn or a copy of a session (`RowsOf`).

`SessionsRefinementProofs` proves the refinement, `StoreImplementsSessions`, under the
same assumptions. It needs `TargetInv` (the session under a row id that was looked
up has the name that was asked for, or that name has been deleted since) and
`FreshId` (the id SQLite gives a new row belongs to no session, which takes a
smallest element and so the well-foundedness of the natural numbers). There is a
lemma for each way the tables change, saying which command of Sessions it is.

`InvocationProofs` proves every safety property of the run `invocation`, for every
set of calls, options and inputs, any number of calls and any failures of the
database: `TypeCorrect`, `EffectsAlwaysLogged`, `LogAlwaysMatchesTranscript`,
`NothingEverLeftRunning`, `RunRowAlwaysTrue`, `SuccessAlwaysComplete`,
`SavedTurnAlwaysWhole`, `TimeoutAlwaysReported`, `AlwaysUnsavedByCode` and
`RunsCaptureAlwaysHonoured`. The assumptions are AgentLoop's about calls and inputs,
named again in Invocation, and the shape of options (`OptionsAssumption`).
`InvocationImplementsLoop` is the refinement it stands on: every step of an
invocation is a step of the loop with a hook inside it, or leaves the loop's
variables alone (`LoopSteps`). AgentLoop's theorems are therefore used through an
instance (`Run`), and none of them is proved a second time; `LoopKeepsPromises`
collects what they say of the loop inside an invocation.

`StepKinds` sorts the steps by what they do to the log: outside the loop, one that
asks, one that acts, or one of six that write rows. The invariant (`IInv`) joins:

- `TypeInv`: the types; and that a call in hand has a row, without which
  `OnToolResult` has nothing to update.
- `PlaceInv`: which phases of `executeRun` go with which places in the loop, and
  that a loop that has failed has a code.
- `RunInv`: the run row agrees with what the tracker believes of it, and loop and
  tracker, which count tokens separately, have counted the same.
- `RowsInv`: the results in the transcript are the first rows; the row of the call
  in hand is the last one, and its id stands for that row although an earlier call
  may have had the id. `LogMatchesTranscript` alone is not inductive: it does not
  say which row a result is going to be written to.
- `EffInv`: for every call and step, what it has done and what it is about to do
  are together at most its rows.
- `OutInv`, `ExitInv`: which error may be pending in which phase, what has been saved
  by then, and what `finishError` makes of both.

`TimeoutReported` has a strengthening of its own, `ExpiryInv`: where the process may be
once the deadline has passed at a given place (`ExpirySteps`), since the deadline is
read at few places and the error that is chosen there has to survive up to the exit,
a step in between included. `RunsCaptureHonoured` is inductive step by step
(`CaptureStep`): of what a saved turn adds, every message is redacted before it is
stored (`MessagesCaptured`).

`SavedTurnWhole` takes two lemmas more: that a session's turn answers its calls
without the prompts in front of it (`AnswersWithoutPrefix`), and that what the
messages table keeps of a turn without garbled calls is the turn (`StoredWhole`).

`StartupProofs` proves every property of the run `startup`, for every set of
directories, files, edits and commands, and any number of commands and edits:
`TypeCorrect`, `ModeOfOneMoment`, `HomeShields`, `ListedLoads` and `ValidatedRuns`.
The assumptions are the named ones of Configuration and Startup: the home directory
is a directory; each directory has a list of those above it, itself first; and
files, folders, commands, variables and edits have the shape a decoder or a flag
parser gives them. The invariant (`StartupInv`) joins:

- `TypeInv`: the types; what is loaded has every setting, and every mode all its
  keys (`ConfigOK`); and an answer's `since` and `until` are moments of `past`.
- `CleanInv`: what a command has not reached yet it has nothing of.
- `ReadInv`: if there was at most one edit since a command began, the configuration it
  has read is that of the files at one moment since, and so is what it knows of every
  alias, each taken alone. `AtOneMoment` is not inductive: it says nothing of a command
  that is half through its reads. Nor would it do to say that all the aliases are of
  one moment, which is false: the edit may fall between the reads of two model files.
  But a mode asks for one alias only, and of the moments of config file and alias one
  will do for both, since one edit writes one file (`SameMoment`).
- `ResolvedInv`: a resolved mode is that of one of these moments.
- `HandInv`: if there was no edit since a command began, what it has found of skills
  and listings is what is there.
- `HeardInv`: the same of each answer given (`Heard`, `Told`): the mode, why a run did
  not start, where a skill was loaded from, what a list shows, and what a
  configuration said to be valid amounts to (`Fits`). The theorems compare two
  answers, and follow from what each says of the files.

The core is what happens to a search when the edit falls between finding a file and
reading it: the file is as it was when it was found, or it would be found again
(`EditedSearch`, `EditedConfig`), and behind the read of the model file at home every
single alias is as before the edit or as after it (`EditedHome`). The last one fails
without `MayReplace`. A lemma for each action says what it adds to `ReadInv`
(`DiscoverReads`, ...), and what its answer adds to `HeardInv` (`ResolveHears`, ...).
`ValidatedRuns` then compares two pieces of code that never call each other: the
requests `config validate` makes up for every mode, and the one a run makes of its flags
(`SameRequirement`); `ListedLoads` does so for the list of skills in three layers
(`ThreeLayers`) and the search through the same three.

Only model-checked: the liveness properties (`TimeoutEndsRun`, `TimeoutEndsProcess`,
`FinishedContextReturns`, `KilledUnlessHeld`), since TLAPS proves neither fairness nor
ENABLED here. Every invariant and every refinement that a passing run checks is a
theorem.

## What is not modelled

Message texts, token numbers, times, provider metadata and formatting are left
out, save where a property is about them: the clocks of ProviderClient and
BashTool. In Configuration, keys a decoder does not know, the expansion of `~` and
the reading of numbers in variables are left out; that a variable cannot be read is
`env.bad`. Flag parsing, the schema migration of the database and the logger to
stderr are not modelled, nor is the printing of keys with their middle hidden.
`doctor` is modelled up to its judgement of models; its checks of the database, the
shell and the connection are independent reads.
A `Retry-After` too large for a duration is left out, and so is a child that closes
the output and lives on: the code takes no notice of it. `session list` is one read
and has no action. The text of a call, in the `request_json` of its row and in the
`tool_calls_json` of its message, is stored as it is, whatever is captured: `kept` has
it, and `RunsCaptureHonoured` excepts it, since the documentation promises capture for
results only. `normalizeInvocationError` tests for a timeout wrapped in the error,
too: under a live context no error that reaches it wraps one, for the loop has given
its own a code already and the preflight drops the catalogue's; so the test has no
branch in Invocation. A skill folder is readable or it is not; one that can be
searched but not listed is left out. Invocation abstracts the session to whether one
is loaded: that a fork committed before a failed preflight stays, and that the same
command then fails because the name is taken, is not a state of any module.

An `OnError` hook that fails is not modelled: the hooks the program installs
never do. The context tests in `AgentLoop` are those of the code: an interrupt
is not tested for, and reaches only what takes the context itself.

Two more disagreements with the documentation were met and have no run: a
`default_mode` that names no mode ends a run with the code for usage errors rather
than that for a broken configuration; and `TINYFLAGS_MAX_STEPS` has no effect on the
shipped modes, which all set `max_steps`. Nothing is documented about a duration of
0: neither `--timeout 0` nor a `timeout` of 0 in a file lifts the deadline (both are
taken for absent), only the variable `TINYFLAGS_TIMEOUT` can.

## Plan

1. **Invocation** with the sessions it creates: a fork committed before a run that
   fails in the preflight, and the retry that follows.
