----------------------------- MODULE Invocation -----------------------------
(***************************************************************************)
(* One `tinyflags run`, from the armed deadline to the exit code:          *)
(* internal/cli/cmd_run.go, executeRun.                                    *)
(*                                                                         *)
(* It composes the agent loop (AgentLoop) with the run log (RunTracker),   *)
(* whose statements are the loop's lifecycle hooks, and adds what happens  *)
(* before and after the loop: loading the inputs, the model preflight,     *)
(* schema validation, saving the turn in the session, the terminal run     *)
(* status and rendering.  Any database statement may fail, the deadline    *)
(* and an interrupt may come between any two steps, and the process may be *)
(* killed anywhere: what an invariant says of a state, it says of what a   *)
(* killed process leaves behind.                                           *)
(*                                                                         *)
(* A name with a suffix after "_" is a faulty variant of the definition    *)
(* below it, and a property of this module tells the two apart.            *)
(***************************************************************************)
EXTENDS ExitCodes, Redaction, Sequences, FiniteSets

CONSTANTS Calls, MaxCalls, Allowed, Registered, Inputs,   \* see AgentLoop
          Options   \* the persistence settings to start from

RunOptions == [log : BOOLEAN,        \* mode.StoreRunLog
               persist : BOOLEAN,    \* mode.PersistSession
               noSave : BOOLEAN,     \* --no-session-save
               session : BOOLEAN,    \* a session is loaded or forked
               output : SUBSET Output,   \* mode.CaptureStdout, mode.CaptureStderr
               preflight : BOOLEAN]  \* the provider is the OpenRouter client

ASSUME OptionsAssumption == Options \subseteq RunOptions

VARIABLES
    input, ctx, pc, step, messages, newMessages, calls, outcome, failures,
    usage, toolsUsed, commands, effects, exit,                      \* AgentLoop
    runRow, runID, callRow, toolRows, shellRows, tracked, lost,     \* RunTracker
    options,  \* the RunOptions of this invocation
    phase,    \* where executeRun is
    hook,     \* how far OnToolResult has come for the result being recorded
    pending,  \* the error finishError was given
    saved,    \* what this run appended to its session
    kept,     \* history: the parts of shell commands that are in the database, [in, part]
    code,     \* the exit code of the process
    expiry    \* history: where executeRun was when the deadline passed, and how many
              \* answers of the provider it had, [phase, answers]

Loop    == INSTANCE AgentLoop
Tracker == INSTANCE RunTracker

\* What AgentLoop assumes of its constants.
ASSUME CallsAssumption    == \A c \in Calls : c.name \in STRING /\ c.args \in {"json", "garbled"}
ASSUME MaxCallsAssumption == MaxCalls \in Nat
ASSUME InputsAssumption   == Inputs \subseteq Loop!RunInput
ASSUME SessionsAssumption == \A in \in Inputs : Loop!Answers(in.session, <<>>)

loopVars == <<input, ctx, pc, step, messages, newMessages, calls, outcome, failures,
              usage, toolsUsed, commands, effects, exit>>
trackerVars == <<runRow, runID, callRow, toolRows, shellRows, tracked, lost>>
stored  == <<saved, kept>>
runVars == <<options, phase, hook, pending, stored, code>>
vars    == <<loopVars, trackerVars, runVars, expiry>>

Expired == ctx = "deadline"

\* An error with its exit code, and whether it is an ExitCodeError itself.
NoError == [code |-> ExitSuccess, typed |-> FALSE]
Typed(c) == [code |-> c, typed |-> TRUE]
\* Errors without a code count as runtime errors.
Untyped  == [code |-> ExitRuntime, typed |-> FALSE]

SetupPhases == <<"stdin", "skill", "schema", "db", "session">>

NotExpired == [phase |-> "none", answers |-> 0]

Init ==
    /\ Loop!Init
    /\ Tracker!Init
    /\ options \in Options
    /\ phase = SetupPhases[1]
    /\ hook = "none"
    /\ pending = NoError
    /\ saved = <<>>
    /\ kept = {}
    /\ code = ExitSuccess
    /\ expiry = NotExpired

Exit(c) == phase' = "exited" /\ code' = c

-----------------------------------------------------------------------------
(***************************************************************************)
(* Before the loop.  An error here is returned as it is: there is no run   *)
(* to finish yet.                                                          *)
(***************************************************************************)
NeedsDB == options.session \/ options.log \/ options.persist

SetupErrors(stage) ==
    CASE stage \in {"stdin", "skill"} -> {ExitRuntime}
      [] stage = "schema"  -> IF input.schema = "none" THEN {} ELSE {ExitSchemaValidation}
      [] stage = "db"      -> IF NeedsDB THEN {ExitSessionFailure} ELSE {}
      [] stage = "session" -> IF options.session THEN {ExitSessionFailure, ExitCLIUsage} ELSE {}

\* The deadline is read after every stage but the opening of the database.
Setup(i) ==
    /\ phase = SetupPhases[i]
    /\ \/ \E e \in SetupErrors(phase) : Exit(e)
       \/ Expired /\ phase # "db" /\ Exit(ExitTimeout)
       \/ /\ ~Expired \/ phase = "db"
          /\ phase' = IF i = Len(SetupPhases) THEN "preflight" ELSE SetupPhases[i + 1]
          /\ UNCHANGED code
    /\ UNCHANGED <<loopVars, trackerVars, options, expiry, hook, pending, stored>>

\* Piped input is read to its end, with no regard to the context.
ReadStdin == Setup(1)

Load == \E i \in 2..Len(SetupPhases) : Setup(i)

\* finishError is entered with err.
Fails(err) == phase' = "finish" /\ pending' = err

\* validateRunModel: a catalogue that cannot be fetched is not an error.
Preflight ==
    /\ phase = "preflight"
    /\ \/ options.preflight /\ Fails(Typed(ExitRuntime))
       \/ phase' = "loop" /\ UNCHANGED pending
    /\ UNCHANGED <<loopVars, trackerVars, options, expiry, hook, stored, code>>

-----------------------------------------------------------------------------
(***************************************************************************)
(* The loop, with the run log's statements as its hooks.  The logging      *)
(* hooks, OnStepStart, OnStepComplete and OnLoopComplete never fail.       *)
(***************************************************************************)
InLoop == phase = "loop" /\ UNCHANGED <<options, expiry, phase, pending, saved, code>>

\* A step of the loop that calls no hook of the run log.
Unlogged == InLoop /\ UNCHANGED <<trackerVars, hook, kept>>

LoopStart ==
    /\ InLoop
    /\ UNCHANGED <<hook, kept>>
    /\ IF options.log
       THEN \E ok \in BOOLEAN : Tracker!StartRun(ok) /\ Loop!LoopStart(~ok)
       ELSE Loop!LoopStart(FALSE) /\ UNCHANGED trackerVars

StepStart       == Unlogged /\ Loop!StepStart(FALSE)
SendRequest     == Unlogged /\ Loop!SendRequest
ResponseTooLate == Unlogged /\ Loop!ResponseTooLate
ProviderFails   == Unlogged /\ Loop!ProviderFails

ProviderResponds ==
    /\ InLoop
    /\ UNCHANGED <<hook, kept>>
    /\ \/ Loop!ProviderRefuses
       \/ Loop!ProviderAsksTools
       \/ Loop!ProviderAnswers(FALSE)
    /\ IF options.log THEN Tracker!CountUsage ELSE UNCHANGED trackerVars

RejectCall == Unlogged /\ Loop!RejectCall

\* The tool runs while its row is still being written.
AdmitCall_LogLater ==
    /\ InLoop
    /\ UNCHANGED <<trackerVars, hook, kept>>
    /\ Loop!AdmitCall(FALSE)

\* What is in the database of a command, by the place it is kept in.
Keep(place, parts) == [in : {place}, part : parts]

\* A call that is encoded whole names its command, unless it cannot be encoded.
CommandText(c) == IF c.name = "bash" /\ c.args = "json" THEN {"command"} ELSE {}

AdmitCall ==
    /\ InLoop
    /\ UNCHANGED hook
    /\ IF options.log
       THEN \E ok \in BOOLEAN :
               /\ Loop!AdmitCall(~ok)
               /\ Tracker!LogToolCall(Head(calls), step, ok)
               /\ kept' = IF ok THEN kept \cup Keep("request", CommandText(Head(calls)))
                          ELSE kept
       ELSE Loop!AdmitCall(FALSE) /\ UNCHANGED <<trackerVars, kept>>

InvalidArguments == Unlogged /\ Loop!InvalidArguments
PlanTool         == Unlogged /\ Loop!PlanTool
StartTool        == Unlogged /\ Loop!StartTool
ToolReturns      == Unlogged /\ Loop!ToolReturns

\* What the mode lets the database keep of a command.
Captured == options.output \cup (IF input.capture THEN {"command"} ELSE {})

\* The result in hand, as far as it is about a command.
ShellResult == CASE ~outcome.cmd              -> NoCommand
                 [] input.planOnly            -> Planned
                 [] outcome.err = ExitTimeout -> TimedOut
                 [] OTHER                     -> Finished

ResultStatus == IF outcome.err = ExitSuccess THEN "ok" ELSE "failed"

\* OnToolResult, first statement.
ResultLogged ==
    /\ InLoop
    /\ options.log
    /\ pc = "record"
    /\ hook = "none"
    /\ \E ok \in BOOLEAN :
          /\ Tracker!UpdateToolCall(Head(calls), ResultStatus, ok)
          /\ \/ /\ ok
                /\ hook' = "updated"
                /\ kept' = kept \cup Keep("tool row",
                                         Discloses(RedactToolResult(Captured, ShellResult)))
                /\ UNCHANGED loopVars
             \/ ~ok /\ Loop!ToolResultHookFails /\ UNCHANGED <<hook, kept>>

\* OnToolResult, second statement.
CommandLogged ==
    /\ InLoop
    /\ hook = "updated"
    /\ outcome.cmd
    /\ \E ok \in BOOLEAN :
          /\ Tracker!LogShellCommand(Head(calls), ok)
          /\ \/ /\ ok
                /\ hook' = "logged"
                /\ kept' = kept \cup Keep("shell row", ShellResult.command \cap Captured)
                /\ UNCHANGED loopVars
             \/ ~ok /\ Loop!ToolResultHookFails /\ hook' = "none" /\ UNCHANGED kept

\* OnToolResult has returned.
ResultHookDone == \/ ~options.log
                  \/ hook = "updated" /\ ~outcome.cmd
                  \/ hook = "logged"

\* The hook's progress outlives the result it was about.
RecordResult_StaleHook ==
    /\ InLoop
    /\ ResultHookDone
    /\ Loop!RecordResult
    /\ UNCHANGED <<trackerVars, hook, kept>>

RecordResult ==
    /\ InLoop
    /\ ResultHookDone
    /\ Loop!RecordResult
    /\ hook' = "none"
    /\ UNCHANGED <<trackerVars, kept>>

EndBatch == Unlogged /\ Loop!EndBatch

\* An error of the loop is returned without finishing the run.
LoopReturns_NotFinished ==
    /\ phase = "loop"
    /\ \/ pc = "failed" /\ Exit(exit) /\ UNCHANGED pending
       \/ pc = "done" /\ Expired /\ Fails(Typed(ExitTimeout)) /\ UNCHANGED code
       \/ pc = "done" /\ ~Expired /\ phase' = "validate" /\ UNCHANGED <<pending, code>>
    /\ UNCHANGED <<loopVars, trackerVars, options, expiry, hook, stored>>

\* The turn is saved before it is validated.
LoopReturns_SaveFirst ==
    /\ phase = "loop"
    /\ \/ pc = "failed" /\ Fails(Typed(exit)) /\ UNCHANGED saved
       \/ pc = "done" /\ Expired /\ Fails(Typed(ExitTimeout)) /\ UNCHANGED saved
       \/ /\ pc = "done" /\ ~Expired
          /\ saved' = IF options.session /\ options.persist THEN newMessages ELSE saved
          /\ phase' = "validate"
          /\ UNCHANGED pending
    /\ UNCHANGED <<loopVars, trackerVars, options, expiry, hook, kept, code>>

\* Runner.Run has returned; the deadline is read first.
LoopReturns ==
    /\ phase = "loop"
    /\ \/ pc = "failed" /\ Fails(Typed(exit))
       \/ pc = "done" /\ Expired /\ Fails(Typed(ExitTimeout))
       \/ pc = "done" /\ ~Expired /\ phase' = "validate" /\ UNCHANGED pending
    /\ UNCHANGED <<loopVars, trackerVars, options, expiry, hook, stored, code>>

-----------------------------------------------------------------------------
(***************************************************************************)
(* After the loop.                                                         *)
(***************************************************************************)
\* schema.Validate runs the validator beside the context: whichever comes first
\* decides.  An interrupt surfaces as a bare context error.
ValidationErrors ==
    {Typed(ExitSchemaValidation)}
        \cup (IF Expired THEN {Typed(ExitTimeout)} ELSE {})
        \cup (IF ctx = "canceled" THEN {Untyped} ELSE {})

Validate ==
    /\ phase = "validate"
    /\ \/ input.schema # "none" /\ \E e \in ValidationErrors : Fails(e)
       \/ Expired /\ Fails(Typed(ExitTimeout))
       \/ ~Expired /\ phase' = "save" /\ UNCHANGED pending
    /\ UNCHANGED <<loopVars, trackerVars, options, expiry, hook, stored, code>>

SaveAsked == options.session /\ ~options.noSave /\ options.persist

\* What the messages table keeps of a message, as GetMessages gives it back.  The
\* calls of a message are encoded together: if the arguments of one are no JSON
\* the encoding fails, the error is dropped, and none of them is kept.
StoredMessage(m) ==
    IF m.role = "assistant" /\ \E k \in DOMAIN m.calls : m.calls[k].args = "garbled"
    THEN [m EXCEPT !.calls = <<>>]
    ELSE m

Stored(s) == [k \in DOMAIN s |-> StoredMessage(s[k])]

\* redactPersistedMessages: what the messages of a turn disclose.  The message of a
\* command that failed may have its output.
MessageResult(m) ==
    CASE m.role # "tool" \/ m.calls[1].name # "bash" -> NoCommand
      [] input.planOnly -> IF m.failed THEN NoCommand ELSE Planned
      [] OTHER          -> Finished

\* The commands that the calls of an assistant message name.
MessageCommands(m) ==
    IF m.role = "assistant" THEN UNION {CommandText(m.calls[k]) : k \in DOMAIN m.calls} ELSE {}

\* The calls of a message are stored whole, only results are redacted.
MessageParts(m) ==
    Keep("session", Discloses(RedactToolResult(Captured, MessageResult(m))))
        \cup Keep("session calls", MessageCommands(StoredMessage(m)))

KeepMessages(s) == kept' = kept \cup UNION {MessageParts(s[k]) : k \in DOMAIN s}

\* The turn is saved without its last message.
Save_AnswerDropped ==
    /\ phase = "save"
    /\ saved' = IF SaveAsked THEN Stored(SubSeq(newMessages, 1, Len(newMessages) - 1)) ELSE saved
    /\ phase' = "check"
    /\ UNCHANGED <<loopVars, trackerVars, options, expiry, hook, pending, kept, code>>

\* AppendMessages is one transaction and does not look at the context.
Save ==
    /\ phase = "save"
    /\ \/ ~SaveAsked /\ phase' = "check" /\ UNCHANGED <<stored, pending>>
       \/ /\ SaveAsked
          /\ saved' = Stored(newMessages)
          /\ KeepMessages(newMessages)
          /\ phase' = "check"
          /\ UNCHANGED pending
       \/ SaveAsked /\ Fails(Typed(ExitSessionFailure)) /\ UNCHANGED stored
    /\ UNCHANGED <<loopVars, trackerVars, options, expiry, hook, code>>

CheckDeadline ==
    /\ phase = "check"
    /\ \/ Expired /\ Fails(Typed(ExitTimeout))
       \/ ~Expired /\ phase' = "finalize" /\ UNCHANGED pending
    /\ UNCHANGED <<loopVars, trackerVars, options, expiry, hook, stored, code>>

\* A lost terminal status is not an error.
FinalizeSuccess_BestEffort ==
    /\ phase = "finalize"
    /\ IF options.log
       THEN \E ok \in BOOLEAN : Tracker!Finish("success", ExitSuccess, usage, ok)
       ELSE UNCHANGED trackerVars
    /\ phase' = "render"
    /\ UNCHANGED <<loopVars, options, expiry, hook, pending, stored, code>>

FinalizeSuccess ==
    /\ phase = "finalize"
    /\ IF options.log
       THEN \E ok \in BOOLEAN :
               /\ Tracker!Finish("success", ExitSuccess, usage, ok)
               /\ \/ ok /\ phase' = "render" /\ UNCHANGED pending
                  \/ ~ok /\ Fails(Typed(ExitSessionFailure))
       ELSE phase' = "render" /\ UNCHANGED <<trackerVars, pending>>
    /\ UNCHANGED <<loopVars, options, expiry, hook, stored, code>>

\* Writing to stdout may fail; that error carries no exit code.
Render ==
    /\ phase = "render"
    /\ \/ Exit(ExitSuccess) /\ UNCHANGED pending
       \/ Fails(Untyped) /\ UNCHANGED code
    /\ UNCHANGED <<loopVars, trackerVars, options, expiry, hook, stored>>

\* normalizeInvocationError.  Its second test, for an error that wraps a timeout of
\* its own, finds none here under a live context: the loop and the validator code
\* theirs, the preflight drops the catalogue's, and no other stage has one.
NormalizeInvocationError(err) == IF Expired THEN Typed(ExitTimeout) ELSE err

\* Errors keep the code they were made with, deadline or not.
FinishError_NotNormalized ==
    /\ phase = "finish"
    /\ phase' = "close"
    /\ UNCHANGED <<loopVars, trackerVars, options, expiry, hook, pending, stored, code>>

\* finishError reads the deadline ...
FinishError ==
    /\ phase = "finish"
    /\ phase' = "close"
    /\ pending' = NormalizeInvocationError(pending)
    /\ UNCHANGED <<loopVars, trackerVars, options, expiry, hook, stored, code>>

\* ... and then writes the code of the error to the run row.  A failure to write it
\* is joined behind the error: the joined error has the first exit code found in it.
CloseRun ==
    /\ phase = "close"
    /\ IF options.log
       THEN \E ok \in BOOLEAN :
               /\ Tracker!Finish("error", pending.code, 0, ok)
               /\ Exit(IF ok \/ pending.typed THEN pending.code ELSE ExitSessionFailure)
       ELSE Exit(pending.code) /\ UNCHANGED trackerVars
    /\ UNCHANGED <<loopVars, options, expiry, hook, pending, stored>>

\* The deadline covers the agent loop and nothing else.
Expire_LoopOnly ==
    /\ phase = "loop"
    /\ Loop!Expire
    /\ expiry' = [phase |-> phase, answers |-> usage]
    /\ UNCHANGED <<trackerVars, runVars>>

\* While the process lives.
Expire ==
    /\ phase # "exited"
    /\ Loop!Expire
    /\ expiry' = [phase |-> phase, answers |-> usage]
    /\ UNCHANGED <<trackerVars, runVars>>

Interrupt ==
    /\ phase # "exited"
    /\ Loop!Interrupt
    /\ UNCHANGED <<trackerVars, runVars, expiry>>

-----------------------------------------------------------------------------
ProviderReturns == ResponseTooLate \/ ProviderFails \/ ProviderResponds

\* Steps the process takes on its own.
OwnStep ==
    \/ Load
    \/ LoopStart \/ StepStart \/ SendRequest
    \/ RejectCall \/ AdmitCall \/ InvalidArguments \/ PlanTool \/ StartTool
    \/ ResultLogged \/ CommandLogged \/ RecordResult \/ EndBatch
    \/ LoopReturns \/ Validate \/ Save \/ CheckDeadline
    \/ FinalizeSuccess \/ Render \/ FinishError \/ CloseRun

Next == \/ OwnStep
        \/ ReadStdin \/ Preflight \/ ProviderReturns \/ ToolReturns
        \/ Expire \/ Interrupt

Spec == Init /\ [][Next]_vars

\* Where the process waits for something that no context reaches: a skill or schema
\* file (which may be a pipe), a tool, a reader of its output ...
Held == phase \in {"skill", "schema", "render"} \/ (phase = "loop" /\ pc = "running")

\* ... or the other end of standard input.
HeldUp == Held \/ phase = "stdin"

\* As in AgentLoop: the process runs, an armed timer fires, and HTTP requests (the
\* model catalogue's too) return once the context is done.  A database statement
\* that meets another's lock fails instead of waiting.  Nothing is promised of what
\* holds the process up.
FairSpec == /\ Spec
            /\ WF_vars(~HeldUp /\ OwnStep)
            /\ WF_vars(Expire)
            /\ WF_vars(ctx # "live" /\ (Preflight \/ ProviderReturns))

-----------------------------------------------------------------------------
(***************************************************************************)
(* Properties.                                                             *)
(***************************************************************************)
Before == {SetupPhases[i] : i \in DOMAIN SetupPhases}

Phases == Before \cup {"preflight", "loop", "validate", "save", "check", "finalize",
                       "render", "finish", "close", "exited"}

\* Where the database keeps calls, and where it keeps their results.
CallPlaces   == {"request", "session calls"}
ResultPlaces == {"tool row", "shell row", "session"}

TypeOK ==
    /\ Loop!TypeOK
    /\ Tracker!TypeOK
    /\ options \in Options
    /\ phase \in Phases
    /\ hook \in {"none", "updated", "logged"}
    /\ hook # "none" => pc = "record"
    /\ pending \in [code : ExitCode, typed : BOOLEAN]
    /\ saved \in Seq(Loop!Message)
    /\ kept \subseteq [in : CallPlaces \cup ResultPlaces, part : Parts]
    /\ code \in ExitCode
    /\ expiry \in [phase : Phases \cup {"none"}, answers : Nat]

\* How often call c of step n occurs in a list of effects or rows.
Times(list, c, n) == Cardinality({i \in DOMAIN list : list[i].call = c /\ list[i].step = n})

\* With run logging on, no tool acts unrecorded: whenever the process is killed,
\* every tool that ran has a tool_calls row of its own, written before it ran.
EffectsAreLogged ==
    options.log =>
        \A i \in DOMAIN effects :
            LET e == effects[i] IN Times(effects, e.call, e.step) <= Times(toolRows, e.call, e.step)

\* The results in the transcript, and which of them is at j.
ToolResults == {j \in DOMAIN newMessages : newMessages[j].role = "tool"}
Nth(j)      == Cardinality({k \in ToolResults : k <= j})

\* The log and the transcript tell the same story: the transcript's results are the
\* first rows of the log, in order and with their status.  At most one row is ahead,
\* and if its call has ended it is the one whose result the loop has in hand or could
\* not get logged.
LogMatchesTranscript ==
    options.log =>
        LET n == Cardinality(ToolResults)
        IN  /\ \A j \in ToolResults :
                  /\ Nth(j) <= Len(toolRows)
                  /\ toolRows[Nth(j)].call = newMessages[j].calls[1]
                  /\ toolRows[Nth(j)].status = IF newMessages[j].failed THEN "failed" ELSE "ok"
            /\ Len(toolRows) \in {n, n + 1}
            /\ Len(toolRows) > n /\ toolRows[n + 1].status # "running" => hook # "none" \/ lost

\* A process that ends by itself, with no statement lost, leaves nothing
\* "running": neither its run nor any of its tool calls, whichever error it ends
\* with.
NothingLeftRunning ==
    phase = "exited" /\ ~lost =>
        /\ runRow.status # "running"
        /\ \A i \in DOMAIN toolRows : toolRows[i].status # "running"

\* The last write of the run row is the truth: status and code are the
\* process's, tokens are the loop's, whatever was overridden or joined on the
\* way out.  After a lost statement, the row's own perhaps, the row may be left
\* running or, behind a failed rendering, successful; an error in it is still the
\* error the process ended with.
RunRowTrue ==
    phase = "exited" /\ runRow.status # "absent" =>
        /\ ~lost => /\ runRow.exit = code
                    /\ runRow.status = "success" <=> code = ExitSuccess
                    /\ runRow.tokens = usage
        /\ runRow.status = "error" => runRow.exit = code /\ code # ExitSuccess

\* Exit code 0 means all of it happened: the loop answered, the turn is in the
\* session if it was to be saved, the run row says success, and no statement was
\* lost ("hook persistence failures are treated as run failures").
SuccessIsComplete ==
    phase = "exited" /\ code = ExitSuccess =>
        /\ pc = "done"
        /\ saved = IF SaveAsked THEN Stored(newMessages) ELSE <<>>
        /\ runRow.status = IF options.log THEN "success" ELSE "absent"
        /\ ~lost

Garbled == \E i \in DOMAIN newMessages : \E k \in DOMAIN newMessages[i].calls :
               newMessages[i].calls[k].args = "garbled"

\* A session only ever grows by whole turns: what is saved can be sent back to a
\* provider behind the loaded history, and ends with an answer, unless the model
\* called a tool with garbled arguments.
SavedTurnWhole ==
    saved # <<>> /\ ~Garbled =>
        /\ Loop!Answers(input.session \o saved, <<>>)
        /\ saved[Len(saved)] = Loop!Assistant(<<>>)

\* docs/architecture.md: the CLI "persists session messages when enabled".  Every
\* tool result that is saved is saved with the call it answers, garbled or not:
\* a provider refuses a history in which it is missing.
SavedResultsHaveCalls == Loop!ResultsAsked(saved)

\* A script may repeat a run that ended with one of these codes: nothing of it is in
\* the session.  (A run that timed out, lost a statement or could not print may have
\* saved its turn.)
UnsavedCodes == {ExitCLIUsage, ExitRefusal, ExitSchemaValidation, ExitToolFailure, ExitShellFailure}

UnsavedByCode == phase = "exited" /\ code \in UnsavedCodes => saved = <<>>

\* Outside plan mode the database keeps no part of the result of a command (what was
\* run, its output) that the mode does not capture, neither in the log nor in the
\* session, whichever way the command ended.  The text of the call, as the provider
\* sent it, is kept whatever is captured: in tool_calls.request_json and in
\* messages.tool_calls_json.
RunsCaptureHonoured ==
    ~input.planOnly => \A k \in kept : k.part \in Captured \/ k.in \in CallPlaces

\* docs/architecture.md: "shell-command rows and persisted session tool messages honor"
\* the capture settings.
CaptureHonoured == \A k \in kept : k.in \in {"shell row", "session"} => k.part \in Captured

\* What a deadline does, by the place it passed at.  Nothing the provider answers
\* after it is used, and nothing of a turn is saved that it found unsaved.  Before
\* the loop it keeps the loop from starting; from the preflight to the last check
\* it decides the exit code, whatever fails besides (statements of the log, too);
\* after that it does only if something fails.  Once finishError has read the
\* deadline (place "close") the error keeps its code.
TimeoutReported ==
    Expired =>
        /\ usage = expiry.answers
        /\ expiry.phase \in Before \cup {"preflight", "loop", "validate"} => saved = <<>>
        /\ expiry.phase \in Before => pc = "start"
        /\ phase = "exited" =>
              /\ expiry.phase \in Before => code # ExitSuccess
              /\ expiry.phase \in {"preflight", "loop", "validate", "save", "check"}
                    => code = ExitTimeout
              /\ expiry.phase \in {"finalize", "render", "finish"} /\ pending # NoError
                    => code = ExitTimeout

\* A process with an armed deadline ends, wherever it is and whatever fails, if
\* nothing holds it up for ever: the other end of standard input, a skill or schema
\* file, a tool, or the reader of its output.
TimeoutEndsProcess == []<>~HeldUp => (input.timeout ~> phase = "exited")

\* docs/flags.md: --timeout is the "Hard cap for the full invocation".  Standard
\* input alone is let hold the process up.
HardCap == []<>~Held => (input.timeout ~> phase = "exited")

=============================================================================
