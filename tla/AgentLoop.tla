------------------------------ MODULE AgentLoop ------------------------------
(***************************************************************************)
(* The provider/tool loop of internal/agent/agent.go: Runner.Run.          *)
(*                                                                         *)
(* One invocation builds the prompt stack, then repeats a step: ask the    *)
(* provider for a completion; if it asks for tools, run every call of the  *)
(* response in order and append one result per call to the transcript.     *)
(* The loop ends with the first answer that asks for no tool, or with an   *)
(* error.  Three things happen around it, at any moment: the invocation    *)
(* deadline expires, the user interrupts, and a lifecycle hook fails.      *)
(*                                                                         *)
(* Data is abstracted to what the control flow looks at.  A message keeps  *)
(* its role, the tool calls it makes or answers, and whether it reports a  *)
(* failed call.  An error is its exit code.                                *)
(*                                                                         *)
(* A name with a suffix after "_" is a faulty variant of the definition    *)
(* below it, and a property of this module tells the two apart.            *)
(***************************************************************************)
EXTENDS ExitCodes, Sequences, FiniteSets

CONSTANTS
    Calls,        \* the tool calls a response may contain, [id, name, args] records;
                  \* args is "garbled" for arguments that are no JSON
    MaxCalls,     \* bound: calls in one response
    Allowed,      \* mode.Tools: the tool names the mode admits
    Registered,   \* the tool names in the binary's registry
    Inputs        \* the run inputs to start from

Message == [role   : {"system", "user", "assistant", "tool"},
            calls  : Seq(Calls),
            failed : BOOLEAN]

RunInput == [system    : BOOLEAN,       \* mode, skill or inline prompt present
             planOnly  : BOOLEAN,
             schema    : {"none", "valid", "malformed"},  \* output schema
             session   : Seq(Message),  \* history loaded from the session
             prompt    : BOOLEAN,       \* a prompt that is not blank
             stdin     : BOOLEAN,       \* text was piped in
             failFast  : BOOLEAN,       \* --fail-on-tool-error
             capture   : BOOLEAN,       \* mode.CaptureCommands
             timeout   : BOOLEAN,       \* a deadline is armed (Timeout > 0)
             maxSteps  : Int,
             budget    : Int]           \* MaxToolRetries

ASSUME CallsAssumption    == \A c \in Calls : c.name \in STRING /\ c.args \in {"json", "garbled"}
ASSUME MaxCallsAssumption == MaxCalls \in Nat
ASSUME InputsAssumption   == Inputs \subseteq RunInput

VARIABLES
    input,        \* the RunInput of this invocation
    ctx,          \* runCtx.Err(): "live", "deadline" or "canceled"
    pc,           \* where Run is
    step,         \* the loop's step
    messages,     \* the transcript sent with each request
    newMessages,  \* the part of it this run produced
    calls,        \* the calls of the response still to be answered
    outcome,      \* the tool result being handled: [err, cmd, ran]
    failures,     \* consecutiveFailures
    usage,        \* completions counted into usage
    toolsUsed,    \* the names of the tools called
    commands,     \* the calls with a command summary
    effects,      \* history: the calls that really ran a tool, with step and ctx
    exit          \* exit code of Run, ExitSuccess while running

vars == <<input, ctx, pc, step, messages, newMessages, calls, outcome,
          failures, usage, toolsUsed, commands, effects, exit>>

(***************************************************************************)
(* Prompt assembly and small helpers.                                      *)
(***************************************************************************)
Text(role)       == [role |-> role, calls |-> <<>>, failed |-> FALSE]
Assistant(cs)    == [role |-> "assistant", calls |-> cs, failed |-> FALSE]
ResultMessage(c, failed) == [role |-> "tool", calls |-> <<c>>, failed |-> failed]

When(present, msg) == IF present THEN <<msg>> ELSE <<>>

SystemStack(in) == When(in.system, Text("system"))
                   \o When(in.planOnly, Text("system"))
                   \o When(in.schema # "none", Text("system"))

UserTurn(in) == When(in.prompt, Text("user")) \o When(in.stdin, Text("user"))

NoOutcome == [err |-> ExitSuccess, cmd |-> FALSE, ran |-> FALSE]

Expired == ctx = "deadline"

\* An error that surfaces after the deadline is reported as the timeout, and so is,
\* under any context, an error that wraps a timeout of its own (timedOut).
NormalizeContextError(err, timedOut) ==
    IF err # ExitSuccess /\ (Expired \/ timedOut) THEN ExitTimeout ELSE err

\* One failure too many is absorbed.
BudgetExceeded_OffByOne(n, budget) == budget >= 0 /\ n > budget

BudgetExceeded(n, budget) == budget >= 0 /\ n >= budget

Fail(code) == pc' = "failed" /\ exit' = code

\* A response is at most MaxCalls calls long (bound).
Responses == UNION {[1..n -> Calls] : n \in 1..MaxCalls}

-----------------------------------------------------------------------------
Init ==
    /\ input \in Inputs
    /\ ctx = "live"
    /\ pc = "start"
    /\ step = 0
    /\ messages = <<>>
    /\ newMessages = <<>>
    /\ calls = <<>>
    /\ outcome = NoOutcome
    /\ failures = 0
    /\ usage = 0
    /\ toolsUsed = {}
    /\ commands = <<>>
    /\ effects = <<>>
    /\ exit = ExitSuccess

transcript == <<messages, newMessages>>
telemetry  == <<usage, toolsUsed, commands>>

\* Piped text is sent to the provider but left out of the turn.
LoopStart_StdinLost(hookErr) ==
    /\ pc = "start"
    /\ ~hookErr
    /\ pc' = "step"
    /\ step' = 1
    /\ messages' = SystemStack(input) \o input.session \o UserTurn(input)
    /\ newMessages' = When(input.prompt, Text("user"))
    /\ UNCHANGED <<input, ctx, calls, outcome, failures, telemetry, effects, exit>>

\* OnLoopStart, then the prompt stack.
LoopStart(hookErr) ==
    /\ pc = "start"
    /\ \/ /\ hookErr
          /\ Fail(ExitSessionFailure)
          /\ UNCHANGED <<step, transcript>>
       \/ /\ ~hookErr
          /\ pc' = "step"
          /\ step' = 1
          /\ messages' = SystemStack(input) \o input.session \o UserTurn(input)
          /\ newMessages' = UserTurn(input)
          /\ UNCHANGED exit
    /\ UNCHANGED <<input, ctx, calls, outcome, failures, telemetry, effects>>

\* Top of the loop: the deadline is read, then OnStepStart runs.
StepStart(hookErr) ==
    /\ pc = "step"
    /\ \/ Expired /\ Fail(ExitTimeout)
       \/ ~Expired /\ hookErr /\ Fail(ExitSessionFailure)
       \/ ~Expired /\ ~hookErr /\ pc' = "request" /\ UNCHANGED exit
    /\ UNCHANGED <<input, ctx, step, transcript, calls, outcome, failures,
                   telemetry, effects>>

\* Without a key, under a finished context, or with an output schema that is not
\* JSON, Provider.Complete fails before anything is sent.
SendErrors ==
    {ExitRuntime} \cup (IF input.schema = "malformed" THEN {ExitSchemaValidation} ELSE {})

SendRequest ==
    /\ pc = "request"
    /\ \/ ctx = "live" /\ input.schema # "malformed" /\ pc' = "waiting" /\ UNCHANGED exit
       \/ \E code \in SendErrors : Fail(NormalizeContextError(code, FALSE))
    /\ UNCHANGED <<input, ctx, step, transcript, calls, outcome, failures,
                   telemetry, effects>>

\* Complete returned, with a response or an error, after the deadline.
ResponseTooLate ==
    /\ pc = "waiting"
    /\ Expired
    /\ Fail(ExitTimeout)
    /\ UNCHANGED <<input, ctx, step, transcript, calls, outcome, failures,
                   telemetry, effects>>

\* A retry's back-off cut short by an interrupt is reported as a timeout.
ProviderErrors ==
    {ExitRuntime} \cup (IF ctx = "canceled" THEN {ExitTimeout} ELSE {})

\* A connection that could not be set up in time wraps a timeout: the run then
\* ends with the timeout's code although its own deadline is still to come.
ProviderFails ==
    /\ pc = "waiting"
    /\ ~Expired
    /\ \E code \in ProviderErrors, timedOut \in BOOLEAN :
          Fail(NormalizeContextError(code, timedOut))
    /\ UNCHANGED <<input, ctx, step, transcript, calls, outcome, failures,
                   telemetry, effects>>

\* A response in time: its usage is counted and OnStepComplete runs first.
Responded ==
    /\ pc = "waiting"
    /\ ~Expired
    /\ usage' = usage + 1

StepCompleteFails ==
    /\ Responded
    /\ Fail(ExitSessionFailure)
    /\ UNCHANGED <<input, ctx, step, transcript, calls, outcome, failures,
                   toolsUsed, commands, effects>>

ProviderRefuses ==
    /\ Responded
    /\ Fail(ExitRefusal)
    /\ UNCHANGED <<input, ctx, step, transcript, calls, outcome, failures,
                   toolsUsed, commands, effects>>

ProviderAsksTools ==
    /\ Responded
    /\ \E cs \in Responses :
          /\ calls' = cs
          /\ messages' = Append(messages, Assistant(cs))
          /\ newMessages' = Append(newMessages, Assistant(cs))
    /\ pc' = "call"
    /\ UNCHANGED <<input, ctx, step, outcome, failures, toolsUsed, commands,
                   effects, exit>>

\* The final answer; OnLoopComplete may still fail the run.
ProviderAnswers(hookErr) ==
    /\ Responded
    /\ messages' = Append(messages, Assistant(<<>>))
    /\ newMessages' = Append(newMessages, Assistant(<<>>))
    /\ \/ hookErr /\ Fail(ExitSessionFailure)
       \/ ~hookErr /\ pc' = "done" /\ exit' = ExitSuccess
    /\ UNCHANGED <<input, ctx, step, calls, outcome, failures, toolsUsed,
                   commands, effects>>

-----------------------------------------------------------------------------
(***************************************************************************)
(* One tool call.                                                          *)
(***************************************************************************)
\* The mode's tool list is not consulted.
ToolAllowed_Any(c) == c \in Calls

ToolAllowed(c) == c.name \in Allowed

\* A call the mode or the registry does not admit ends the run.
RejectCall ==
    /\ pc = "call"
    /\ calls # <<>>
    /\ ~(ToolAllowed(Head(calls)) /\ Head(calls).name \in Registered)
    /\ Fail(ExitToolFailure)
    /\ UNCHANGED <<input, ctx, step, transcript, calls, outcome, failures,
                   telemetry, effects>>

\* OnToolCall runs before the tool does.
AdmitCall(hookErr) ==
    /\ pc = "call"
    /\ calls # <<>>
    /\ ToolAllowed(Head(calls))
    /\ Head(calls).name \in Registered
    /\ \/ hookErr /\ Fail(ExitSessionFailure)
       \/ ~hookErr /\ pc' = "execute" /\ UNCHANGED exit
    /\ UNCHANGED <<input, ctx, step, transcript, calls, outcome, failures,
                   telemetry, effects>>

\* The call is taken off the batch before its result is recorded.
InvalidArguments_EarlyPop ==
    /\ pc = "execute"
    /\ outcome' = [err |-> ExitToolFailure, cmd |-> FALSE, ran |-> FALSE]
    /\ pc' = "record"
    /\ calls' = Tail(calls)
    /\ UNCHANGED <<input, ctx, step, transcript, failures, telemetry, effects, exit>>

\* A call with bad arguments is skipped without a result message.
InvalidArguments_NoResult ==
    /\ pc = "execute"
    /\ pc' = "call"
    /\ calls' = Tail(calls)
    /\ UNCHANGED <<input, ctx, step, transcript, outcome, failures, telemetry,
                   effects, exit>>

\* Arguments that are no JSON or fail the tool's schema (or whose validation was
\* cut short by the context) produce an error result and the tool does not run.
InvalidArguments ==
    /\ pc = "execute"
    /\ outcome' = [err |-> ExitToolFailure, cmd |-> FALSE, ran |-> FALSE]
    /\ pc' = "record"
    /\ UNCHANGED <<input, ctx, step, transcript, calls, failures, telemetry,
                   effects, exit>>

ValidArguments == pc = "execute" /\ Head(calls).args = "json"

\* Plan mode: a synthetic result, no side effect.  Only bash describes a command.
PlanTool ==
    /\ ValidArguments
    /\ input.planOnly
    /\ outcome' = [err |-> ExitSuccess, cmd |-> Head(calls).name = "bash",
                   ran |-> FALSE]
    /\ pc' = "record"
    /\ UNCHANGED <<input, ctx, step, transcript, calls, failures, telemetry,
                   effects, exit>>

\* Whether the tool acts.  The shell is not started under a finished context, nor
\* if its directory is missing or its own timeout has already passed; the file
\* tools ignore the context; web_search is a stub.
MayAct(name) ==
    CASE name = "web_search" -> {FALSE}
      [] name = "bash"       -> IF ctx = "live" THEN BOOLEAN ELSE {FALSE}
      [] OTHER               -> {TRUE}

StartTool ==
    /\ ValidArguments
    /\ ~input.planOnly
    /\ \E ran \in MayAct(Head(calls).name) :
          /\ outcome' = [err |-> ExitSuccess, cmd |-> Head(calls).name = "bash", ran |-> ran]
          /\ effects' = IF ran
                        THEN Append(effects, [call |-> Head(calls), step |-> step, ctx |-> ctx])
                        ELSE effects
    /\ pc' = "running"
    /\ UNCHANGED <<input, ctx, step, transcript, calls, failures, telemetry, exit>>

\* The errors Execute may return now.
ExecuteErrors(name) ==
    CASE name = "bash" ->
            IF Expired THEN {ExitTimeout}
            ELSE {ExitShellFailure, ExitTimeout}
                 \cup (IF outcome.ran THEN {ExitSuccess} ELSE {})
      [] name = "web_search" -> {ExitSuccess}
      [] OTHER               -> {ExitSuccess, ExitToolFailure}

ToolReturns ==
    /\ pc = "running"
    /\ \E e \in ExecuteErrors(Head(calls).name) :
          outcome' = [outcome EXCEPT !.err = e]
    /\ pc' = "record"
    /\ UNCHANGED <<input, ctx, step, transcript, calls, failures, telemetry,
                   effects, exit>>

\* The result goes to OnToolResult first: if that fails it is not appended.
ToolResultHookFails ==
    /\ pc = "record"
    /\ Fail(ExitSessionFailure)
    /\ UNCHANGED <<input, ctx, step, transcript, calls, outcome, failures,
                   telemetry, effects>>

\* The deadline is not read after a successful tool.
Judge_NoDeadline(err) ==
    \/ /\ err = ExitSuccess
       /\ failures' = 0
       /\ pc' = "call"
       /\ UNCHANGED exit
    \/ /\ err # ExitSuccess
       /\ failures' = failures + 1
       /\ IF err = ExitTimeout \/ input.failFast \/ BudgetExceeded(failures', input.budget)
          THEN Fail(err)
          ELSE pc' = "call" /\ UNCHANGED exit

\* What a recorded result means for the run: go on with the next call, or stop.
\* A success resets the failure count and reads the deadline again; a timeout is
\* final; any other failure is absorbed while the budget lasts.
Judge(err) ==
    \/ /\ err = ExitSuccess
       /\ failures' = 0
       /\ \/ Expired /\ Fail(ExitTimeout)
          \/ ~Expired /\ pc' = "call" /\ UNCHANGED exit
    \/ /\ err = ExitTimeout
       /\ Fail(ExitTimeout)
       /\ UNCHANGED failures
    \/ /\ err \notin {ExitSuccess, ExitTimeout}
       /\ failures' = failures + 1
       /\ IF input.failFast \/ BudgetExceeded(failures', input.budget)
          THEN Fail(err)
          ELSE pc' = "call" /\ UNCHANGED exit

\* Only tools that succeeded are reported as used.
RecordResult_FailuresUnreported ==
    /\ pc = "record"
    /\ LET c   == Head(calls)
           msg == ResultMessage(c, outcome.err # ExitSuccess)
       IN  /\ messages' = Append(messages, msg)
           /\ newMessages' = Append(newMessages, msg)
           /\ toolsUsed' = IF outcome.err = ExitSuccess THEN toolsUsed \cup {c.name}
                           ELSE toolsUsed
           /\ Judge(NormalizeContextError(outcome.err, FALSE))
    /\ calls' = Tail(calls)
    /\ outcome' = NoOutcome
    /\ UNCHANGED <<input, ctx, step, usage, commands, effects>>

\* No tool's error wraps a timeout: the shell codes its own, and the file tools
\* have none.
RecordResult ==
    /\ pc = "record"
    /\ LET c   == Head(calls)
           err == NormalizeContextError(outcome.err, FALSE)
           msg == ResultMessage(c, outcome.err # ExitSuccess)
       IN  /\ messages' = Append(messages, msg)
           /\ newMessages' = Append(newMessages, msg)
           /\ toolsUsed' = toolsUsed \cup {c.name}
           /\ commands' = IF outcome.cmd /\ input.capture
                          THEN Append(commands, c) ELSE commands
           /\ Judge(err)
    /\ calls' = Tail(calls)
    /\ outcome' = NoOutcome
    /\ UNCHANGED <<input, ctx, step, usage, effects>>

\* The step cap is compared one step late.
EndBatch_CapOffByOne ==
    /\ pc = "call"
    /\ calls = <<>>
    /\ IF step > input.maxSteps
       THEN Fail(ExitRuntime) /\ UNCHANGED step
       ELSE pc' = "step" /\ step' = step + 1 /\ UNCHANGED exit
    /\ UNCHANGED <<input, ctx, transcript, calls, outcome, failures, telemetry,
                   effects>>

\* Every call of the response is answered: next step, unless the cap is reached.
EndBatch ==
    /\ pc = "call"
    /\ calls = <<>>
    /\ IF step >= input.maxSteps
       THEN Fail(ExitRuntime) /\ UNCHANGED step
       ELSE pc' = "step" /\ step' = step + 1 /\ UNCHANGED exit
    /\ UNCHANGED <<input, ctx, transcript, calls, outcome, failures, telemetry,
                   effects>>

-----------------------------------------------------------------------------
(***************************************************************************)
(* The environment: the armed deadline fires, the user interrupts.  The    *)
(* first of the two decides what ctx.Err() reports from then on.           *)
(***************************************************************************)
\* The deadline is looked at between steps but does not reach the request.
Expire_BetweenSteps ==
    /\ ctx = "live"
    /\ input.timeout
    /\ pc = "step"
    /\ ctx' = "deadline"
    /\ UNCHANGED <<input, pc, step, transcript, calls, outcome, failures,
                   telemetry, effects, exit>>

Expire ==
    /\ ctx = "live"
    /\ input.timeout
    /\ ctx' = "deadline"
    /\ UNCHANGED <<input, pc, step, transcript, calls, outcome, failures,
                   telemetry, effects, exit>>

Interrupt ==
    /\ ctx = "live"
    /\ ctx' = "canceled"
    /\ UNCHANGED <<input, pc, step, transcript, calls, outcome, failures,
                   telemetry, effects, exit>>

\* Completions of outside work: the provider's answer and the tool's return.
ProviderReturns ==
    \/ ResponseTooLate
    \/ ProviderFails
    \/ StepCompleteFails
    \/ ProviderRefuses
    \/ ProviderAsksTools
    \/ \E hookErr \in BOOLEAN : ProviderAnswers(hookErr)

\* Steps the loop takes on its own.
LoopStep ==
    \/ \E hookErr \in BOOLEAN :
          LoopStart(hookErr) \/ StepStart(hookErr) \/ AdmitCall(hookErr)
    \/ SendRequest
    \/ RejectCall
    \/ InvalidArguments
    \/ PlanTool
    \/ StartTool
    \/ ToolResultHookFails
    \/ RecordResult
    \/ EndBatch

Next == LoopStep \/ ProviderReturns \/ ToolReturns \/ Expire \/ Interrupt

Spec == Init /\ [][Next]_vars

(***************************************************************************)
(* Fairness.  The loop keeps going; an armed timer fires; an HTTP request  *)
(* returns once its context is done (a live one may take for ever).  A     *)
(* tool that was started may never return: the file tools take no context, *)
(* and the shell waits for its pipes.                                      *)
(***************************************************************************)
FairSpec == /\ Spec
            /\ WF_vars(LoopStep)
            /\ WF_vars(Expire)
            /\ WF_vars(ctx # "live" /\ ProviderReturns)

-----------------------------------------------------------------------------
(***************************************************************************)
(* Properties.                                                             *)
(***************************************************************************)
Phase == {"start", "step", "request", "waiting", "call", "execute", "running",
          "record", "done", "failed"}

Outcome == [err : ExitCode, cmd : BOOLEAN, ran : BOOLEAN]

\* Type invariant of Runner.Run's local state.
TypeOK ==
    /\ input \in Inputs
    /\ ctx \in {"live", "deadline", "canceled"}
    /\ pc \in Phase
    /\ step \in Nat
    /\ messages \in Seq(Message)
    /\ newMessages \in Seq(Message)
    /\ calls \in Seq(Calls)
    /\ pc \in {"execute", "running", "record"} => calls # <<>>
    /\ outcome \in Outcome
    /\ failures \in Nat
    /\ usage \in Nat
    /\ toolsUsed \subseteq STRING
    /\ commands \in Seq(Calls)
    /\ effects \in Seq([call : Calls, step : Nat, ctx : {"live", "deadline", "canceled"}])
    /\ exit \in ExitCode

AssistantAt(s, i) == s[i].role = "assistant"

\* Transcript s, with the calls in rest still to be answered.  Every call of an
\* assistant message is answered by its own result message, in the order of the
\* calls and right behind the message, or is owed in rest at the same place ...
CallsAnswered(s, rest) ==
    \A i \in 1..Len(s) : AssistantAt(s, i) =>
        \A k \in 1..Len(s[i].calls) :
            IF i + k <= Len(s)
            THEN s[i + k].role = "tool" /\ s[i + k].calls = <<s[i].calls[k]>>
            ELSE i + k - Len(s) <= Len(rest) /\ rest[i + k - Len(s)] = s[i].calls[k]

\* ... there is no result message that no call asked for ...
ResultsAsked(s) ==
    \A j \in 1..Len(s) : s[j].role = "tool" =>
        \E i \in 1..(j - 1) : AssistantAt(s, i) /\ j - i <= Len(s[i].calls)

\* ... and rest is what the last assistant message still owes.
RestOwed(s, rest) ==
    rest # <<>> =>
        \E i \in 1..Len(s) : AssistantAt(s, i) /\ i + Len(s[i].calls) = Len(s) + Len(rest)

Answers(s, rest) == CallsAnswered(s, rest) /\ ResultsAsked(s) /\ RestOwed(s, rest)

\* A loaded history is made of finished turns: it owes nothing.
ASSUME SessionsAssumption == \A in \in Inputs : Answers(in.session, <<>>)

\* Providers refuse a transcript in which a tool call has no result or a result
\* no call.  Whatever fails while a response's calls are run, the transcript and
\* the calls still to run account for each other, and what is sent to the
\* provider (and what a finished run leaves to be saved) owes nothing.
TranscriptAnswered ==
    /\ Answers(messages, calls)
    /\ pc \in {"start", "step", "request", "waiting", "done"} => calls = <<>>

\* The turn a session saves is exactly what the provider was sent after the
\* prompt stack and the loaded history, and a finished turn closes with an
\* answer.  agent.go appends to the two lists side by side.
TurnIsTranscriptSuffix ==
    step > 0 =>
        /\ messages = SystemStack(input) \o input.session \o newMessages
        /\ pc = "done" => /\ newMessages # <<>>
                          /\ newMessages[Len(newMessages)] = Assistant(<<>>)

AssistantTurns == {i \in DOMAIN newMessages : newMessages[i].role = "assistant"}

\* The step cap bounds the provider's answers, whatever mixture of tool calls,
\* failures and retries the run went through.  A cap below 1 acts as 1.
RequestsBounded ==
    Cardinality(AssistantTurns) <= (IF input.maxSteps < 1 THEN 1 ELSE input.maxSteps)

\* The results at the end of the transcript that report a failure, back to the
\* last result that does not: they may lie in several responses.
FailedStreak(s) ==
    {j \in DOMAIN s : /\ s[j].role = "tool"
                      /\ \A k \in j..Len(s) : s[k].role = "tool" => s[k].failed}

\* A run that goes on has absorbed fewer consecutive tool failures than its
\* budget, counted across responses, and none at all under --fail-on-tool-error.
BudgetHonoured ==
    pc # "failed" =>
        LET n == Cardinality(FailedStreak(newMessages))
        IN  \/ n = 0
            \/ ~input.failFast /\ (input.budget < 0 \/ n < input.budget)

\* The context is looked at between tools, not inside the file tools, so a tool
\* may still act after the deadline or an interrupt: at most one after the
\* deadline, and after an interrupt only the rest of the response in hand.
LateEffectsBounded ==
    /\ \A i, j \in DOMAIN effects :
          /\ effects[i].ctx = "deadline" /\ effects[j].ctx = "deadline" => i = j
          /\ effects[i].ctx # "live" /\ effects[j].ctx # "live"
                => effects[i].step = effects[j].step

\* Only tools the mode admits and the registry has ever act, and never on garbled
\* arguments; in plan mode none does, although the provider is offered the same
\* tools.
EffectsAuthorised ==
    /\ input.planOnly => effects = <<>>
    /\ \A i \in DOMAIN effects : /\ effects[i].call.name \in Allowed \cap Registered
                               /\ effects[i].call.args = "json"

\* The summary of a run names exactly the tools whose results are in its turn.
ToolsUsedMatchTranscript ==
    toolsUsed = {newMessages[i].calls[1].name :
                    i \in {j \in DOMAIN newMessages : newMessages[j].role = "tool"}}

\* No tool holds the loop for ever.
ToolsReturn == []<>(pc # "running")

\* A run with an armed deadline ends, whatever the provider answers or leaves
\* unanswered and however often it asks for tools, if each tool it starts returns.
TimeoutEndsRun == ToolsReturn => (input.timeout ~> pc \in {"done", "failed"})

=============================================================================
