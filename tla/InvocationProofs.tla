--------------------------- MODULE InvocationProofs ---------------------------
(***************************************************************************)
(* Theorems about Invocation, for every set of calls, tools, inputs and    *)
(* settings and every length of a response.                                *)
(*                                                                         *)
(* An invocation takes the steps of AgentLoop, so what AgentLoopProofs     *)
(* shows of every step of the loop holds here; Run is the instance its     *)
(* theorems come from.  StepKinds sorts the steps by what they do to the   *)
(* run log and the transcript, and the proofs about the two split on it.   *)
(***************************************************************************)
EXTENDS Invocation, FiniteSetTheorems, TLAPS

Run == INSTANCE AgentLoopBoundsProofs

USE DEF ExitSuccess, ExitRuntime, ExitTimeout, ExitRefusal, ExitSchemaValidation,
        ExitToolFailure, ExitShellFailure, ExitSessionFailure, ExitCLIUsage, ExitCode,
        Loop!ExitSuccess, Loop!ExitRuntime, Loop!ExitTimeout, Loop!ExitRefusal,
        Loop!ExitSchemaValidation, Loop!ExitToolFailure, Loop!ExitShellFailure,
        Loop!ExitSessionFailure, Loop!ExitCode, Tracker!ExitSuccess, Tracker!ExitCode

-----------------------------------------------------------------------------
(* The steps of an invocation are steps of the loop. *)

LEMMA RunAssumptions == /\ Run!CallsAssumption /\ Run!MaxCallsAssumption
                        /\ Run!InputsAssumption /\ Run!SessionsAssumption
BY CallsAssumption, MaxCallsAssumption, InputsAssumption, SessionsAssumption
   DEF Run!RunInput, Loop!RunInput, Run!Message, Loop!Message, Run!Answers, Loop!Answers,
       Run!CallsAnswered, Loop!CallsAnswered, Run!ResultsAsked, Loop!ResultsAsked,
       Run!RestOwed, Loop!RestOwed, Run!AssistantAt, Loop!AssistantAt

\* The two instances of AgentLoop say the same, name by name.
LEMMA SameNext == Loop!Next <=> Run!Next
BY DEF Loop!Next, Run!Next, Loop!LoopStep, Run!LoopStep, Loop!LoopStart,
       Run!LoopStart, Loop!StepStart, Run!StepStart, Loop!AdmitCall, Run!AdmitCall,
       Loop!SendRequest, Run!SendRequest, Loop!RejectCall, Run!RejectCall,
       Loop!InvalidArguments, Run!InvalidArguments, Loop!PlanTool, Run!PlanTool,
       Loop!ValidArguments, Run!ValidArguments, Loop!StartTool, Run!StartTool,
       Loop!MayAct, Run!MayAct, Loop!ToolResultHookFails, Run!ToolResultHookFails,
       Loop!RecordResult, Run!RecordResult, Loop!Judge, Run!Judge,
       Loop!BudgetExceeded, Run!BudgetExceeded, Loop!NormalizeContextError,
       Run!NormalizeContextError, Loop!EndBatch, Run!EndBatch, Loop!ProviderReturns,
       Run!ProviderReturns, Loop!ResponseTooLate, Run!ResponseTooLate,
       Loop!ProviderFails, Run!ProviderFails, Loop!ProviderErrors,
       Run!ProviderErrors, Loop!StepCompleteFails, Run!StepCompleteFails,
       Loop!Responded, Run!Responded, Loop!ProviderRefuses, Run!ProviderRefuses,
       Loop!ProviderAsksTools, Run!ProviderAsksTools, Loop!Responses, Run!Responses,
       Loop!ProviderAnswers, Run!ProviderAnswers, Loop!ToolReturns, Run!ToolReturns,
       Loop!ExecuteErrors, Run!ExecuteErrors, Loop!Expire, Run!Expire,
       Loop!Interrupt, Run!Interrupt, Loop!SendErrors, Run!SendErrors, Loop!Expired,
       Run!Expired, Loop!Fail, Run!Fail, Loop!SystemStack, Run!SystemStack,
       Loop!UserTurn, Run!UserTurn, Loop!When, Run!When, Loop!Text, Run!Text,
       Loop!Assistant, Run!Assistant, Loop!ResultMessage, Run!ResultMessage,
       Loop!NoOutcome, Run!NoOutcome, Loop!ToolAllowed, Run!ToolAllowed,
       Loop!transcript, Run!transcript, Loop!telemetry, Run!telemetry,
       Loop!ExitSuccess, Run!ExitSuccess, Loop!ExitRuntime, Run!ExitRuntime,
       Loop!ExitTimeout, Run!ExitTimeout, Loop!ExitRefusal, Run!ExitRefusal,
       Loop!ExitSchemaValidation, Run!ExitSchemaValidation, Loop!ExitToolFailure,
       Run!ExitToolFailure, Loop!ExitShellFailure, Run!ExitShellFailure,
       Loop!ExitSessionFailure, Run!ExitSessionFailure

LEMMA SameInit == Loop!Init <=> Run!Init
BY DEF Loop!Init, Run!Init, Loop!NoOutcome, Run!NoOutcome, Loop!ExitSuccess,
       Run!ExitSuccess

LEMMA SameTypes == (Loop!TypeOK <=> Run!TypeOK) /\ (Loop!TypeOK <=> Run!TypeOK)'
BY DEF Loop!TypeOK, Run!TypeOK, Loop!Phase, Run!Phase, Loop!Message, Run!Message,
       Loop!Outcome, Run!Outcome, Loop!ExitCode, Run!ExitCode

LEMMA SameAnswers == \A s, rest : Loop!Answers(s, rest) <=> Run!Answers(s, rest)
BY DEF Loop!Answers, Run!Answers,
       Loop!CallsAnswered, Run!CallsAnswered, Loop!ResultsAsked, Run!ResultsAsked,
       Loop!RestOwed, Run!RestOwed, Loop!AssistantAt, Run!AssistantAt

\* Every step of the process is a step of the loop or leaves it alone.
LEMMA LoopSteps == [Next]_vars => [Run!Next]_loopVars
<1> SUFFICES ASSUME [Next]_vars PROVE [Loop!Next]_loopVars
  BY SameNext
<1> USE DEF Unlogged, Loop!Next, Loop!LoopStep, Loop!ProviderReturns
<1>1. CASE ReadStdin \/ Load \/ Preflight \/ LoopReturns \/ Validate \/ Save \/ CheckDeadline
           \/ FinalizeSuccess \/ Render \/ FinishError \/ CloseRun
  BY <1>1 DEF ReadStdin, Load, Setup, Preflight, LoopReturns, Validate, Save, CheckDeadline,
              FinalizeSuccess, Render, FinishError, CloseRun
<1>2. CASE LoopStart \/ StepStart \/ AdmitCall
  BY <1>2 DEF LoopStart, StepStart, AdmitCall
<1>3. CASE SendRequest \/ RejectCall \/ InvalidArguments \/ PlanTool \/ StartTool
           \/ RecordResult \/ EndBatch
  BY <1>3 DEF SendRequest, RejectCall, InvalidArguments, PlanTool, StartTool,
              RecordResult, EndBatch
<1>4. CASE ResultLogged \/ CommandLogged
  BY <1>4 DEF ResultLogged, CommandLogged
<1>5. CASE ProviderReturns
  BY <1>5 DEF ProviderReturns, ResponseTooLate, ProviderFails, ProviderResponds
<1>6. CASE ToolReturns \/ Expire \/ Interrupt
  BY <1>6 DEF ToolReturns, Expire, Interrupt
<1>7. CASE UNCHANGED vars
  BY <1>7 DEF vars
<1> QED BY <1>1, <1>2, <1>3, <1>4, <1>5, <1>6, <1>7 DEF Next, OwnStep

-----------------------------------------------------------------------------
(* Type correctness. *)

LEMMA StartRunType == ASSUME Tracker!TypeOK, NEW ok \in BOOLEAN, Tracker!StartRun(ok)
                      PROVE  Tracker!TypeOK'
<1>1. CASE ~ok
  BY <1>1 DEF Tracker!TypeOK, Tracker!StartRun, Tracker!WriteFails
<1>2. CASE ok
  <2>1. runRow' = [Tracker!NoRun EXCEPT !.status = "running"] /\ runID' = 1 /\ tracked' = 0
        /\ UNCHANGED <<callRow, toolRows, shellRows, lost>>
    BY <1>2 DEF Tracker!StartRun
  <2>2. runRow' \in Tracker!RunRow
    BY <2>1 DEF Tracker!RunRow, Tracker!NoRun
  <2> QED BY <2>1, <2>2 DEF Tracker!TypeOK
<1> QED BY <1>1, <1>2

LEMMA CountUsageType == ASSUME Tracker!TypeOK, Tracker!CountUsage PROVE Tracker!TypeOK'
BY DEF Tracker!TypeOK, Tracker!CountUsage

LEMMA LogToolCallType ==
    ASSUME Tracker!TypeOK, NEW c \in Calls, NEW n \in Nat, NEW ok \in BOOLEAN,
           Tracker!LogToolCall(c, n, ok)
    PROVE  Tracker!TypeOK'
<1>1. CASE ~ok
  BY <1>1 DEF Tracker!TypeOK, Tracker!LogToolCall, Tracker!WriteFails
<1>2. CASE ok
  <2> DEFINE row == [call |-> c, step |-> n, status |-> "running"]
  <2>1. /\ toolRows' = Append(toolRows, row)
        /\ callRow' = [callRow EXCEPT ![c.id] = Len(toolRows')]
        /\ UNCHANGED <<runRow, runID, shellRows, tracked, lost>>
    BY <1>2 DEF Tracker!LogToolCall
  <2>2. row \in Tracker!ToolRow /\ toolRows \in Seq(Tracker!ToolRow)
    BY DEF Tracker!ToolRow, Tracker!TypeOK
  <2> HIDE DEF row
  <2>3. toolRows' \in Seq(Tracker!ToolRow) /\ Len(toolRows') = Len(toolRows) + 1 /\ Len(toolRows) \in Nat
    BY <2>1, <2>2
  <2>4. callRow' \in [Tracker!CallIds -> 0..Len(toolRows')]
    BY <2>1, <2>3 DEF Tracker!TypeOK, Tracker!CallIds
  <2>5. shellRows' \in Seq(1..Len(toolRows'))
    BY <2>1, <2>3 DEF Tracker!TypeOK
  <2> QED BY <2>1, <2>3, <2>4, <2>5 DEF Tracker!TypeOK
<1> QED BY <1>1, <1>2

\* An update changes at most the status of the row that the call id stands for.
LEMMA Updated ==
    ASSUME Tracker!TypeOK, NEW c \in Calls, NEW status \in {"ok", "failed"},
           Tracker!UpdateToolCall(c, status, TRUE)
    PROVE  /\ UNCHANGED <<runRow, runID, callRow, shellRows, tracked, lost>>
           /\ toolRows' \in Seq(Tracker!ToolRow) /\ Len(toolRows') = Len(toolRows)
           /\ \A i \in 1..Len(toolRows) :
                 toolRows'[i] = IF i = callRow[c.id]
                                THEN [call |-> toolRows[i].call, step |-> toolRows[i].step,
                                      status |-> status]
                                ELSE toolRows[i]
<1>1. /\ UNCHANGED <<runRow, runID, callRow, shellRows, tracked, lost>>
      /\ toolRows' = [i \in DOMAIN toolRows |->
                         IF i = callRow[c.id] THEN [toolRows[i] EXCEPT !.status = status]
                         ELSE toolRows[i]]
  BY DEF Tracker!UpdateToolCall
<1>2. toolRows \in Seq(Tracker!ToolRow) /\ DOMAIN toolRows = 1..Len(toolRows) /\ Len(toolRows) \in Nat
  BY DEF Tracker!TypeOK
<1>3. \A r \in Tracker!ToolRow :
         /\ [r EXCEPT !.status = status] = [call |-> r.call, step |-> r.step, status |-> status]
         /\ [r EXCEPT !.status = status] \in Tracker!ToolRow
  BY DEF Tracker!ToolRow
<1>4. \A i \in 1..Len(toolRows) : toolRows'[i] \in Tracker!ToolRow
  <2>1. \A i \in 1..Len(toolRows) : toolRows[i] \in Tracker!ToolRow
    BY <1>2
  <2> QED BY <1>1, <1>2, <1>3, <2>1, Zenon
<1>5. DOMAIN toolRows' = 1..Len(toolRows) /\ toolRows' = [i \in 1..Len(toolRows) |-> toolRows'[i]]
  BY <1>1, <1>2
<1>6. toolRows' \in Seq(Tracker!ToolRow) /\ Len(toolRows') = Len(toolRows)
  BY <1>2, <1>4, <1>5
<1> QED BY <1>1, <1>2, <1>3, <1>6

LEMMA UpdateToolCallType ==
    ASSUME Tracker!TypeOK, NEW c \in Calls, NEW status \in {"ok", "failed"},
           NEW ok \in BOOLEAN, Tracker!UpdateToolCall(c, status, ok)
    PROVE  Tracker!TypeOK'
<1>1. CASE ~ok
  BY <1>1 DEF Tracker!TypeOK, Tracker!UpdateToolCall, Tracker!WriteFails
<1>2. CASE ok = TRUE
  BY <1>2, Updated DEF Tracker!TypeOK
<1> QED BY <1>1, <1>2

LEMMA LogShellCommandType ==
    ASSUME Tracker!TypeOK, NEW c \in Calls, callRow[c.id] # 0, NEW ok \in BOOLEAN,
           Tracker!LogShellCommand(c, ok)
    PROVE  Tracker!TypeOK'
<1>1. callRow[c.id] \in 1..Len(toolRows)
  BY DEF Tracker!TypeOK, Tracker!CallIds
<1>2. CASE ~ok
  BY <1>2 DEF Tracker!TypeOK, Tracker!LogShellCommand, Tracker!WriteFails
<1>3. CASE ok
  <2>1. /\ shellRows' = Append(shellRows, callRow[c.id])
        /\ UNCHANGED <<runRow, runID, callRow, toolRows, tracked, lost>>
    BY <1>3 DEF Tracker!LogShellCommand
  <2>2. shellRows' \in Seq(1..Len(toolRows))
    BY <1>1, <2>1 DEF Tracker!TypeOK
  <2> QED BY <2>1, <2>2 DEF Tracker!TypeOK
<1> QED BY <1>2, <1>3

LEMMA FinishType ==
    ASSUME Tracker!TypeOK, NEW status \in {"success", "error"}, NEW c \in 0..8,
           NEW n \in Nat, NEW ok \in BOOLEAN, Tracker!Finish(status, c, n, ok)
    PROVE  Tracker!TypeOK'
<1> USE DEF Tracker!TypeOK
<1>1. CASE runID = 0 /\ ok /\ UNCHANGED Tracker!trackerVars
  BY <1>1 DEF Tracker!trackerVars
<1>2. CASE runID # 0 /\ ok
  <2>1. /\ runRow' = [status |-> status, exit |-> c, tokens |-> IF n = 0 THEN tracked ELSE n]
        /\ UNCHANGED <<runID, callRow, toolRows, shellRows, tracked, lost>>
    BY <1>2 DEF Tracker!Finish
  <2>2. runRow' \in Tracker!RunRow
    BY <2>1 DEF Tracker!RunRow
  <2> QED BY <2>1, <2>2
<1>3. CASE Tracker!WriteFails
  BY <1>3 DEF Tracker!WriteFails
<1> QED BY <1>1, <1>2, <1>3 DEF Tracker!Finish

\* What is left of a result after its redaction is captured, unless the command was
\* only planned; and it is always a part of a command.
LEMMA Redacted ==
    ASSUME NEW captured, captured \subseteq Parts,
           NEW result \in {NoCommand, Planned, TimedOut, Finished}
    PROVE  /\ Discloses(RedactToolResult(captured, result)) \subseteq Parts
           /\ result # Planned => Discloses(RedactToolResult(captured, result)) \subseteq captured
BY DEF Discloses, RedactToolResult, Result, NoCommand, Planned, TimedOut, Finished, Parts, Output

LEMMA CapturedParts == TypeOK => Captured \subseteq Parts
BY OptionsAssumption DEF TypeOK, Captured, RunOptions, Parts

LEMMA ResultKinds ==
    /\ ShellResult \in {NoCommand, Planned, TimedOut, Finished}
    /\ ~input.planOnly => ShellResult # Planned
    /\ \A m : MessageResult(m) \in {NoCommand, Planned, Finished}
    /\ \A m : ~input.planOnly => MessageResult(m) # Planned
BY DEF ShellResult, MessageResult, NoCommand, Planned, TimedOut, Finished, Result, Parts, Output

LEMMA StoredType == ASSUME NEW s \in Seq(Loop!Message)
                    PROVE  Stored(s) \in Seq(Loop!Message) /\ Len(Stored(s)) = Len(s)
<1>1. \A m \in Loop!Message : StoredMessage(m) \in Loop!Message
  <2>1. \A m \in Loop!Message : [m EXCEPT !.calls = <<>>] \in Loop!Message
    <3>1. <<>> \in Seq(Calls)
      OBVIOUS
    <3> QED BY <3>1 DEF Loop!Message
  <2> QED BY <2>1 DEF StoredMessage
<1>2. \A k \in 1..Len(s) : StoredMessage(s[k]) \in Loop!Message
  BY <1>1
<1>3. Stored(s) = [k \in 1..Len(s) |-> StoredMessage(s[k])]
  BY DEF Stored
<1> QED BY <1>2, <1>3

SetupNames == {"stdin", "skill", "schema", "db", "session"}

LEMMA SetupNamed == /\ DOMAIN SetupPhases = 1..5
                    /\ \A i \in 1..5 : SetupPhases[i] \in SetupNames
                    /\ \A x \in SetupNames : \E i \in 1..5 : SetupPhases[i] = x
                    /\ Before = SetupNames
<1>1. /\ DOMAIN SetupPhases = 1..5
      /\ \A i \in 1..5 : SetupPhases[i] \in SetupNames
      /\ \A x \in SetupNames : \E i \in 1..5 : SetupPhases[i] = x
  BY DEF SetupPhases, SetupNames
<1> QED BY <1>1 DEF Before

\* A stage before the loop leads to the next one, or ends the process with an error.
LEMMA SetupSteps ==
    ASSUME NEW i \in 1..5, Setup(i)
    PROVE  /\ phase \in SetupNames
           /\ \/ phase' \in SetupNames \cup {"preflight"} /\ code' = code
              \/ /\ phase' = "exited"
                 /\ code' \in {ExitRuntime, ExitTimeout, ExitSchemaValidation,
                               ExitSessionFailure, ExitCLIUsage}
           /\ Expired => phase' # "preflight"
           /\ UNCHANGED <<loopVars, trackerVars, options, expiry, hook, pending, stored>>
<1>1. phase \in SetupNames
  BY SetupNamed DEF Setup
<1>2. \A e \in SetupErrors(phase) : e \in {ExitRuntime, ExitSchemaValidation,
                                           ExitSessionFailure, ExitCLIUsage}
  BY <1>1 DEF SetupErrors, SetupNames
<1>3. Len(SetupPhases) = 5
  BY DEF SetupPhases
<1>4. i # 5 => SetupPhases[i + 1] \in SetupNames
  BY SetupNamed
<1>5. \/ \E e \in SetupErrors(phase) : Exit(e)
      \/ Exit(ExitTimeout)
      \/ phase' = (IF i = 5 THEN "preflight" ELSE SetupPhases[i + 1]) /\ code' = code
  BY <1>3 DEF Setup
<1>6. UNCHANGED <<loopVars, trackerVars, options, expiry, hook, pending, stored>>
  BY DEF Setup
<1>7. Expired => phase' # "preflight"
  BY <1>3, <1>4 DEF Setup, Exit, SetupNames, SetupPhases
<1> QED BY <1>1, <1>2, <1>4, <1>5, <1>6, <1>7 DEF Exit

Places == SetupNames \cup {"preflight", "loop", "validate", "save", "check", "finalize",
                           "render", "finish", "close", "exited"}

LEMMA PlaceNames == Phases = Places
BY SetupNamed DEF Phases, Places

Where == {"request", "session calls", "tool row", "shell row", "session"}

Errors == [code : ExitCode, typed : BOOLEAN]

LEMMA ErrorType == /\ \A c \in ExitCode : Typed(c) \in Errors
                   /\ Untyped \in Errors /\ NoError \in Errors
                   /\ \A e \in Errors : e.code \in ExitCode
                   /\ \A c : Typed(c).code = c
                   /\ ValidationErrors \subseteq Errors
                   /\ Typed(ExitRuntime) \in Errors /\ Typed(ExitTimeout) \in Errors
                   /\ Typed(ExitSessionFailure) \in Errors
<1>1. /\ \A c \in ExitCode : Typed(c) \in Errors
      /\ Untyped \in Errors /\ NoError \in Errors
      /\ \A e \in Errors : e.code \in ExitCode
      /\ \A c : Typed(c).code = c
  BY DEF Typed, Untyped, NoError, Errors
<1>2. ValidationErrors \subseteq Errors
  <2>1. Typed(ExitSchemaValidation) \in Errors /\ Typed(ExitTimeout) \in Errors
    BY <1>1
  <2> QED BY <1>1, <2>1 DEF ValidationErrors
<1>3. /\ Typed(ExitRuntime) \in Errors /\ Typed(ExitTimeout) \in Errors
      /\ Typed(ExitSessionFailure) \in Errors
  BY <1>1
<1> QED BY <1>1, <1>2, <1>3

\* The part of TypeOK that is about neither the loop nor the log.
RunTypes ==
    /\ options \in Options
    /\ phase \in Places
    /\ hook \in {"none", "updated", "logged"}
    /\ hook # "none" => pc = "record"
    /\ pending \in Errors
    /\ saved \in Seq(Loop!Message)
    /\ kept \subseteq [in : Where, part : Parts]
    /\ code \in ExitCode
    /\ expiry \in [phase : Places \cup {"none"}, answers : Nat]

LEMMA TypeParts == /\ TypeOK <=> Loop!TypeOK /\ Tracker!TypeOK /\ RunTypes
                   /\ TypeOK' <=> Loop!TypeOK' /\ Tracker!TypeOK' /\ RunTypes'
<1>1. CallPlaces \cup ResultPlaces = Where
  BY DEF CallPlaces, ResultPlaces, Where
<1> QED BY <1>1, PlaceNames DEF TypeOK, RunTypes, Errors

Acting == {"execute", "running", "record"}

\* A call that is handled has its row, and only a run with a log has a hook.
HookInv ==
    /\ options.log /\ pc \in Acting => callRow[Head(calls).id] # 0
    /\ hook # "none" => options.log

TypeInv == TypeOK /\ HookInv

LEMMA TypeInit == Init => TypeInv
<1> SUFFICES ASSUME Init PROVE TypeInv
  OBVIOUS
<1>1. Loop!TypeOK
  BY SameInit, SameTypes, Run!TypeInit, RunAssumptions DEF Init
<1>2. Tracker!TypeOK
  <2>1. toolRows = <<>> /\ shellRows = <<>> /\ callRow = [id \in Tracker!CallIds |-> 0]
    BY DEF Init, Tracker!Init
  <2>2. Len(toolRows) = 0
    BY <2>1
  <2>3. runRow \in Tracker!RunRow /\ runID = 0 /\ tracked = 0 /\ lost = FALSE
    BY DEF Init, Tracker!Init, Tracker!RunRow, Tracker!NoRun
  <2>4. \A S : <<>> \in Seq(S)
    OBVIOUS
  <2>5. callRow \in [Tracker!CallIds -> 0..Len(toolRows)]
    BY <2>1, <2>2
  <2> QED BY <2>1, <2>3, <2>4, <2>5 DEF Tracker!TypeOK
<1>3. pc = "start" /\ hook = "none"
  BY DEF Init, Loop!Init
<1>4. RunTypes
  BY <1>3, SetupNamed, ErrorType DEF Init, RunTypes, Places, NotExpired
<1> QED BY <1>1, <1>2, <1>3, <1>4, TypeParts DEF TypeInv, HookInv, Acting

\* The loop's variables keep their types, because its steps are the loop's.
LEMMA LoopTypeStep == ASSUME TypeOK, [Next]_vars PROVE Loop!TypeOK'
<1>1. Run!TypeOK /\ [Run!Next]_(Run!vars)
  BY LoopSteps, SameTypes DEF TypeOK, loopVars, Run!vars
<1>2. Run!TypeOK'
  BY <1>1, Run!TypeStep, RunAssumptions
<1> QED BY <1>2, SameTypes

\* What the database keeps of a command is a part of it.
LEMMA KeepType ==
    ASSUME NEW place \in Where, NEW parts \in SUBSET Parts
    PROVE  Keep(place, parts) \subseteq [in : Where, part : Parts]
BY DEF Keep

\* A call names the command it is for, if it is one.
LEMMA CommandParts ==
    /\ \A c : CommandText(c) \subseteq Parts
    /\ \A m : MessageCommands(m) \subseteq Parts
<1>1. \A c : CommandText(c) \subseteq Parts
  BY DEF CommandText, Parts
<1> QED BY <1>1 DEF MessageCommands

LEMMA MessagePartsType ==
    ASSUME TypeOK, NEW m
    PROVE  MessageParts(m) \subseteq [in : Where, part : Parts]
<1> DEFINE results == Discloses(RedactToolResult(Captured, MessageResult(m)))
           named   == MessageCommands(StoredMessage(m))
           All     == [in : Where, part : Parts]
<1>1. results \subseteq Parts /\ named \subseteq Parts
  BY Redacted, CapturedParts, ResultKinds, CommandParts
<1>2. MessageParts(m) = Keep("session", results) \cup Keep("session calls", named)
  BY DEF MessageParts
<1> HIDE DEF results, named
<1>3. Keep("session", results) \subseteq All /\ Keep("session calls", named) \subseteq All
  BY <1>1, KeepType DEF Where
<1> HIDE DEF All
<1>4. MessageParts(m) \subseteq All
  BY <1>2, <1>3
<1> QED BY <1>4 DEF All

LEMMA TypeStep == TypeInv /\ [Next]_vars => TypeInv'
<1> SUFFICES ASSUME TypeInv, [Next]_vars PROVE TypeInv'
  OBVIOUS
<1>t. TypeOK /\ HookInv /\ Tracker!TypeOK /\ RunTypes
  BY TypeParts DEF TypeInv
<1>l. Loop!TypeOK /\ Loop!TypeOK'
  BY <1>t, LoopTypeStep, TypeParts
<1>c. /\ pc \in Acting => calls # <<>> /\ Head(calls) \in Calls
      /\ step \in Nat /\ usage \in Nat /\ exit \in ExitCode
  BY <1>l DEF Loop!TypeOK, Acting
\* Outside of the loop, the loop and the hook's progress stay as they are.
<1>a. ASSUME UNCHANGED <<loopVars, options, hook, callRow>>, Tracker!TypeOK', RunTypes'
      PROVE  TypeInv'
  BY <1>t, <1>l, <1>a, TypeParts DEF TypeInv, HookInv, loopVars
<1>b. UNCHANGED trackerVars => Tracker!TypeOK'
  BY <1>t DEF trackerVars, Tracker!TypeOK
<1>1. ASSUME NEW i \in 1..5, Setup(i) PROVE TypeInv'
  <2>1. UNCHANGED <<loopVars, trackerVars, options, expiry, hook, pending, stored>>
    BY <1>1, SetupSteps
  <2>2. phase' \in Places /\ code' \in ExitCode
    <3>1. code \in ExitCode
      BY <1>t DEF RunTypes
    <3> QED BY <1>1, <3>1, SetupSteps DEF Places
  <2> QED BY <1>t, <1>a, <1>b, <2>1, <2>2 DEF RunTypes, loopVars, trackerVars, stored
<1>2. CASE Preflight \/ LoopReturns \/ Validate \/ CheckDeadline
  <2>3. pending' \in Errors
    <3>1. pending \in Errors /\ Typed(exit) \in Errors
      BY <1>t, <1>c, ErrorType DEF RunTypes
    <3>2. \/ pending' = pending \/ pending' = Typed(exit)
          \/ pending' \in {Typed(ExitRuntime), Typed(ExitTimeout)}
          \/ pending' \in ValidationErrors
      BY <1>2 DEF Preflight, LoopReturns, Validate, CheckDeadline, Fails
    <3> QED BY <3>1, <3>2, ErrorType
  <2>4. phase' \in Places
    BY <1>2 DEF Places, Preflight, LoopReturns, Validate, CheckDeadline, Fails
  <2>5. UNCHANGED <<loopVars, trackerVars, options, expiry, hook, stored, code>>
    BY <1>2 DEF Preflight, LoopReturns, Validate, CheckDeadline
  <2> QED BY <1>t, <1>a, <1>b, <2>3, <2>4, <2>5 DEF RunTypes, loopVars, trackerVars, stored
<1>3. CASE Save
  <2>1. UNCHANGED <<loopVars, trackerVars, options, expiry, hook, code>>
    BY <1>3 DEF Save
  <2>2. phase' \in Places /\ pending' \in Errors
    <3>1. /\ phase' \in {"check", "finish"}
          /\ pending' = pending \/ pending' = Typed(ExitSessionFailure)
      BY <1>3 DEF Save, Fails
    <3> QED BY <1>t, <3>1, ErrorType DEF Places, RunTypes
  <2>3. saved' = saved \/ saved' = Stored(newMessages)
    BY <1>3 DEF Save, stored
  <2>4. saved' \in Seq(Loop!Message)
    BY <1>t, <1>l, <2>3, StoredType DEF RunTypes, Loop!TypeOK
  <2>5. kept' = kept \/ KeepMessages(newMessages)
    BY <1>3 DEF Save, stored
  <2>6. kept' \subseteq [in : Where, part : Parts]
    <3> DEFINE All == [in : Where, part : Parts]
    <3>1. \A m : MessageParts(m) \subseteq All
      BY <1>t, MessagePartsType
    <3>2. kept \subseteq All
      BY <1>t DEF RunTypes
    <3> HIDE DEF All
    <3>3. kept' \subseteq All
      BY <2>5, <3>1, <3>2 DEF KeepMessages
    <3> QED BY <3>3 DEF All
  <2> QED BY <1>t, <1>a, <1>b, <2>1, <2>2, <2>4, <2>6 DEF RunTypes, loopVars, trackerVars
<1>4. CASE FinalizeSuccess
  <2>1. UNCHANGED <<loopVars, options, expiry, hook, stored, code>>
    BY <1>4 DEF FinalizeSuccess
  <2>2. /\ phase' \in {"render", "finish"}
        /\ pending' = pending \/ pending' = Typed(ExitSessionFailure)
    BY <1>4 DEF FinalizeSuccess, Fails
  <2>3. Tracker!TypeOK' /\ callRow' = callRow
    <3>1. CASE UNCHANGED trackerVars
      BY <3>1, <1>b DEF trackerVars
    <3>2. ASSUME NEW ok \in BOOLEAN, Tracker!Finish("success", ExitSuccess, usage, ok)
          PROVE  Tracker!TypeOK' /\ callRow' = callRow
      <4>1. ExitSuccess \in 0..8
        OBVIOUS
      <4>2. Tracker!TypeOK'
        BY <3>2, <4>1, <1>t, <1>c, FinishType
      <4>3. callRow' = callRow
        BY <3>2 DEF Tracker!Finish, Tracker!WriteFails, Tracker!trackerVars
      <4> QED BY <4>2, <4>3
    <3> QED BY <1>4, <3>1, <3>2 DEF FinalizeSuccess
  <2> QED BY <1>t, <1>a, <2>1, <2>2, <2>3, ErrorType DEF RunTypes, Places, loopVars, stored
<1>f. CASE FinishError
  <2>1. UNCHANGED <<loopVars, trackerVars, options, expiry, hook, stored, code>> /\ phase' = "close"
    BY <1>f DEF FinishError
  <2>2. pending' \in Errors
    BY <1>t, <1>f, ErrorType DEF FinishError, NormalizeInvocationError, RunTypes
  <2> QED BY <1>t, <1>a, <1>b, <2>1, <2>2 DEF RunTypes, Places, loopVars, trackerVars, stored
<1>5. CASE CloseRun
  <2>1. UNCHANGED <<loopVars, options, expiry, hook, pending, stored>>
    BY <1>5 DEF CloseRun
  <2>2. pending \in Errors /\ pending.code \in ExitCode
    BY <1>t, ErrorType DEF RunTypes
  <2>3. \/ \E ok \in BOOLEAN :
              /\ Tracker!Finish("error", pending.code, 0, ok)
              /\ Exit(IF ok \/ pending.typed THEN pending.code ELSE ExitSessionFailure)
        \/ Exit(pending.code) /\ UNCHANGED trackerVars
    BY <1>5 DEF CloseRun
  <2>4. phase' = "exited" /\ code' \in ExitCode
    BY <2>2, <2>3 DEF Exit
  <2>5. Tracker!TypeOK' /\ callRow' = callRow
    <3>1. CASE UNCHANGED trackerVars
      BY <3>1, <1>b DEF trackerVars
    <3>2. ASSUME NEW ok \in BOOLEAN, Tracker!Finish("error", pending.code, 0, ok)
          PROVE  Tracker!TypeOK' /\ callRow' = callRow
      BY <3>2, <1>t, <2>2, FinishType
         DEF Tracker!Finish, Tracker!WriteFails, Tracker!trackerVars
    <3> QED BY <2>3, <3>1, <3>2
  <2> QED BY <1>t, <1>a, <2>1, <2>4, <2>5 DEF RunTypes, Places, loopVars, stored
<1>6. CASE Render
  <2>1. /\ UNCHANGED <<loopVars, trackerVars, options, expiry, hook, stored>>
        /\ phase' \in {"exited", "finish"}
        /\ pending' = pending \/ pending' = Untyped
        /\ code' = code \/ code' = ExitSuccess
    BY <1>6 DEF Render, Exit, Fails
  <2>2. phase' \in Places /\ pending' \in Errors /\ code' \in ExitCode
    <3>1. pending \in Errors /\ code \in ExitCode /\ Untyped \in Errors
      BY <1>t, ErrorType DEF RunTypes
    <3> QED BY <2>1, <3>1 DEF Places
  <2> QED BY <1>t, <1>a, <1>b, <2>1, <2>2 DEF RunTypes, loopVars, trackerVars, stored
\* Inside of it.
<1>d. ASSUME phase = "loop", UNCHANGED <<options, expiry, phase, pending, saved, code>>,
             Tracker!TypeOK', HookInv', hook' \in {"none", "updated", "logged"},
             hook' # "none" => pc' = "record",
             kept' \subseteq [in : Where, part : Parts]
      PROVE  TypeInv'
  BY <1>t, <1>l, <1>d, TypeParts DEF RunTypes, TypeInv
<1>k. /\ hook \in {"none", "updated", "logged"} /\ (hook # "none" => pc = "record")
      /\ kept \subseteq [in : Where, part : Parts]
  BY <1>t DEF RunTypes
\* What is kept of a result or a call is a part of a command.
<1>n. ASSUME NEW place \in Where, NEW parts, parts \subseteq Parts,
             kept' = kept \cup Keep(place, parts)
      PROVE  kept' \subseteq [in : Where, part : Parts]
  <2> DEFINE All == [in : Where, part : Parts]
  <2>1. Keep(place, parts) \subseteq All /\ kept \subseteq All
    BY <1>k, <1>n, KeepType
  <2> HIDE DEF All
  <2>2. kept' \subseteq All
    BY <1>n, <2>1
  <2> QED BY <2>2 DEF All
\* A step that touches neither the log nor the call in hand.
<1>e. ASSUME InLoop, UNCHANGED <<trackerVars, hook, kept>>,
             hook = "none" \/ pc' = pc,
             pc' \in Acting => pc \in Acting /\ calls' = calls
      PROVE  TypeInv'
  BY <1>t, <1>b, <1>d, <1>e, <1>k DEF InLoop, HookInv, trackerVars
<1>7. CASE LoopStart
  <2>1. InLoop /\ UNCHANGED <<hook, kept>> /\ pc = "start" /\ pc' \notin Acting
    BY <1>7 DEF LoopStart, Loop!LoopStart, Loop!Fail, Acting
  <2>2. Tracker!TypeOK'
    BY <1>7, <1>t, <1>b, StartRunType DEF LoopStart
  <2> QED BY <1>t, <1>d, <1>k, <2>1, <2>2 DEF InLoop, HookInv
<1>8. CASE StepStart \/ SendRequest \/ ResponseTooLate \/ ProviderFails \/ RejectCall \/ EndBatch
  <2>1. /\ InLoop /\ UNCHANGED <<trackerVars, hook, kept>>
        /\ pc \in {"step", "request", "waiting", "call"} /\ pc' \notin Acting
    BY <1>8 DEF StepStart, SendRequest, ResponseTooLate, ProviderFails, RejectCall, EndBatch,
       Unlogged, Loop!StepStart, Loop!SendRequest, Loop!ResponseTooLate, Loop!ProviderFails,
       Loop!RejectCall, Loop!EndBatch, Loop!Fail, Acting
  <2> QED BY <1>e, <1>k, <2>1
<1>9. CASE InvalidArguments \/ PlanTool \/ StartTool \/ ToolReturns
  <2>1. /\ InLoop /\ UNCHANGED <<trackerVars, hook, kept, calls>>
        /\ pc \in {"execute", "running"}
    BY <1>9 DEF InvalidArguments, PlanTool, StartTool, ToolReturns, Unlogged, Loop!ValidArguments,
       Loop!InvalidArguments, Loop!PlanTool, Loop!StartTool, Loop!ToolReturns
  <2> QED BY <1>e, <1>k, <2>1 DEF Acting
<1>10. CASE ProviderResponds
  <2>1. InLoop /\ UNCHANGED <<hook, kept>> /\ pc = "waiting" /\ pc' \notin Acting
    BY <1>10 DEF ProviderResponds, Loop!ProviderRefuses, Loop!ProviderAsksTools,
       Loop!ProviderAnswers, Loop!Responded, Loop!Fail, Acting
  <2>2. Tracker!TypeOK'
    BY <1>10, <1>t, <1>b, CountUsageType DEF ProviderResponds
  <2> QED BY <1>t, <1>d, <1>k, <2>1, <2>2 DEF InLoop, HookInv
<1>11. CASE AdmitCall
  <2>1. InLoop /\ UNCHANGED <<hook, calls, step>> /\ pc = "call" /\ calls # <<>>
        /\ pc' \in {"execute", "failed"}
    BY <1>11 DEF AdmitCall, Loop!AdmitCall, Loop!Fail
  <2>2. Head(calls) \in Calls
    BY <1>l, <2>1 DEF Loop!TypeOK
  <2>3. CASE ~options.log
    <3>1. UNCHANGED <<trackerVars, kept>>
      BY <1>11, <2>3 DEF AdmitCall
    <3> QED BY <1>t, <1>b, <1>d, <1>k, <2>1, <2>3, <3>1 DEF InLoop, HookInv
  <2>4. ASSUME options.log, NEW ok \in BOOLEAN, Loop!AdmitCall(~ok),
               Tracker!LogToolCall(Head(calls), step, ok),
               kept' = IF ok THEN kept \cup Keep("request", CommandText(Head(calls))) ELSE kept
        PROVE  TypeInv'
    <3>1. Tracker!TypeOK'
      BY <1>t, <1>c, <2>2, <2>4, LogToolCallType
    <3>4. kept' \subseteq [in : Where, part : Parts]
      <4>1. CASE ok
        BY <1>n, <2>4, <4>1, CommandParts DEF Where
      <4>2. CASE ~ok
        BY <1>k, <2>4, <4>2
      <4> QED BY <4>1, <4>2
    <3>2. CASE ~ok
      <4>1. pc' = "failed"
        BY <2>4, <3>2 DEF Loop!AdmitCall, Loop!Fail
      <4> QED BY <1>t, <1>d, <1>k, <2>1, <3>1, <3>4, <4>1 DEF InLoop, HookInv, Acting
    <3>3. CASE ok
      <4>1. /\ toolRows' = Append(toolRows, [call |-> Head(calls), step |-> step, status |-> "running"])
            /\ callRow' = [callRow EXCEPT ![Head(calls).id] = Len(toolRows')]
        BY <2>4, <3>3 DEF Tracker!LogToolCall
      <4>2. Len(toolRows') = Len(toolRows) + 1 /\ Len(toolRows) \in Nat
        BY <1>t, <4>1 DEF Tracker!TypeOK
      <4>3. callRow'[Head(calls).id] # 0
        BY <1>t, <2>2, <4>1, <4>2 DEF Tracker!TypeOK, Tracker!CallIds
      <4> QED BY <1>t, <1>d, <1>k, <2>1, <2>4, <3>1, <3>4, <4>3 DEF InLoop, HookInv
    <3> QED BY <3>2, <3>3
  <2> QED BY <1>11, <2>3, <2>4 DEF AdmitCall
<1>12. CASE ResultLogged
  <2>1. InLoop /\ options.log /\ pc = "record" /\ hook = "none" /\ Head(calls) \in Calls
    BY <1>12, <1>c DEF ResultLogged, Acting
  <2>2. ResultStatus \in {"ok", "failed"}
    BY DEF ResultStatus
  <2>3. ASSUME NEW ok \in BOOLEAN, Tracker!UpdateToolCall(Head(calls), ResultStatus, ok),
               \/ /\ ok
                  /\ hook' = "updated"
                  /\ kept' = kept \cup Keep("tool row",
                                           Discloses(RedactToolResult(Captured, ShellResult)))
                  /\ UNCHANGED loopVars
               \/ ~ok /\ Loop!ToolResultHookFails /\ UNCHANGED <<hook, kept>>
        PROVE  TypeInv'
    <3>1. Tracker!TypeOK'
      BY <1>t, <2>1, <2>2, <2>3, UpdateToolCallType
    <3>2. callRow' = callRow
      BY <2>3 DEF Tracker!UpdateToolCall, Tracker!WriteFails
    <3>3. CASE ok
      <4>1. /\ hook' = "updated" /\ UNCHANGED loopVars
            /\ kept' = kept \cup Keep("tool row",
                                     Discloses(RedactToolResult(Captured, ShellResult)))
        BY <2>3, <3>3
      <4>2. Discloses(RedactToolResult(Captured, ShellResult)) \subseteq Parts
        BY <1>t, Redacted, CapturedParts, ResultKinds
      <4>3. kept' \subseteq [in : Where, part : Parts]
        BY <1>n, <4>1, <4>2 DEF Where
      <4>4. HookInv' /\ pc' = "record"
        BY <1>t, <2>1, <3>2, <4>1 DEF HookInv, InLoop, loopVars
      <4> QED BY <1>d, <2>1, <3>1, <4>1, <4>3, <4>4 DEF InLoop
    <3>4. CASE ~ok
      <4>1. pc' = "failed" /\ UNCHANGED <<hook, kept>>
        BY <2>3, <3>4 DEF Loop!ToolResultHookFails, Loop!Fail
      <4> QED BY <1>t, <1>d, <1>k, <2>1, <3>1, <4>1 DEF InLoop, HookInv, Acting
    <3> QED BY <3>3, <3>4
  <2> QED BY <1>12, <2>3 DEF ResultLogged
<1>13. CASE CommandLogged
  <2>1. InLoop /\ hook = "updated"
    BY <1>13 DEF CommandLogged
  <2>2. options.log /\ pc = "record" /\ Head(calls) \in Calls /\ callRow[Head(calls).id] # 0
    BY <1>t, <1>c, <1>k, <2>1 DEF HookInv, Acting
  <2>3. ASSUME NEW ok \in BOOLEAN, Tracker!LogShellCommand(Head(calls), ok),
               \/ /\ ok
                  /\ hook' = "logged"
                  /\ kept' = kept \cup Keep("shell row", ShellResult.command \cap Captured)
                  /\ UNCHANGED loopVars
               \/ ~ok /\ Loop!ToolResultHookFails /\ hook' = "none" /\ UNCHANGED kept
        PROVE  TypeInv'
    <3>1. Tracker!TypeOK'
      BY <1>t, <2>2, <2>3, LogShellCommandType
    <3>2. callRow' = callRow
      BY <2>3 DEF Tracker!LogShellCommand, Tracker!WriteFails
    <3>3. CASE ok
      <4>1. /\ hook' = "logged" /\ UNCHANGED loopVars
            /\ kept' = kept \cup Keep("shell row", ShellResult.command \cap Captured)
        BY <2>3, <3>3
      <4>2. ShellResult.command \cap Captured \subseteq Parts
        BY <1>t, CapturedParts
      <4>3. kept' \subseteq [in : Where, part : Parts]
        BY <1>n, <4>1, <4>2 DEF Where
      <4>4. HookInv' /\ pc' = "record"
        BY <1>t, <2>1, <2>2, <3>2, <4>1 DEF HookInv, InLoop, loopVars
      <4> QED BY <1>d, <2>1, <3>1, <4>1, <4>3, <4>4 DEF InLoop
    <3>4. CASE ~ok
      <4>1. pc' = "failed" /\ hook' = "none" /\ UNCHANGED kept
        BY <2>3, <3>4 DEF Loop!ToolResultHookFails, Loop!Fail
      <4> QED BY <1>t, <1>d, <1>k, <2>1, <3>1, <4>1 DEF InLoop, HookInv, Acting
    <3> QED BY <3>3, <3>4
  <2> QED BY <1>13, <2>3 DEF CommandLogged
<1>14. CASE RecordResult
  <2>1. InLoop /\ hook' = "none" /\ UNCHANGED <<trackerVars, kept>> /\ pc' \in {"call", "failed"}
    BY <1>14 DEF RecordResult, Loop!RecordResult, Loop!Judge, Loop!Fail
  <2> QED BY <1>t, <1>b, <1>d, <1>k, <2>1 DEF InLoop, HookInv, Acting
<1>15. CASE Expire \/ Interrupt \/ UNCHANGED vars
  <2>1. /\ UNCHANGED <<trackerVars, runVars>>
        /\ UNCHANGED <<pc, calls>>
    BY <1>15 DEF Expire, Interrupt, Loop!Expire, Loop!Interrupt, vars, loopVars
  <2>3. expiry' = expiry \/ expiry' = [phase |-> phase, answers |-> usage]
    BY <1>15 DEF Expire, Interrupt, vars
  <2>4. expiry' \in [phase : Places \cup {"none"}, answers : Nat]
    BY <1>t, <1>c, <2>3 DEF RunTypes
  <2>2. RunTypes' /\ HookInv'
    BY <1>t, <2>1, <2>4 DEF RunTypes, HookInv, runVars, stored, trackerVars
  <2> QED BY <1>b, <1>l, <2>1, <2>2, TypeParts DEF TypeInv
<1> Len(SetupPhases) = 5
  BY DEF SetupPhases
<1>16. CASE ReadStdin \/ Load
  BY <1>1, <1>16 DEF ReadStdin, Load
<1> QED BY <1>2, <1>3, <1>4, <1>5, <1>f, <1>6, <1>7, <1>8, <1>9, <1>10, <1>11, <1>12, <1>13,
           <1>14, <1>15, <1>16 DEF Next, OwnStep, ProviderReturns

\* Every variable of an invocation keeps its type, the rows of the log included: in
\* particular a command is only ever logged under a tool call that has a row, and the
\* deferred status always finds a code (cmd_run.go:201-290, store.go:236-330).
THEOREM TypeCorrect == Spec => []TypeOK
<1>1. TypeInv /\ [Next]_vars => TypeInv'
  BY TypeStep
<1>2. TypeInv => TypeOK
  BY DEF TypeInv
<1> QED BY <1>1, <1>2, TypeInit, PTL DEF Spec

-----------------------------------------------------------------------------
(* Where the run is, in the loop and around it. *)

Early == SetupNames \cup {"preflight"}
After  == {"validate", "save", "check", "finalize", "render"}

\* The loop has not begun before its phase, has answered after it, and is over when
\* the run ends; a loop that failed says why.
PlaceInv ==
    /\ phase \in Early => pc = "start"
    /\ phase \in After => pc = "done"
    /\ phase \in {"finish", "close", "exited"} => pc \in {"start", "done", "failed"}
    /\ pc = "failed" <=> exit # ExitSuccess

\* The steps outside of the loop, as far as they concern it and the log's rows.
Elsewhere ==
    /\ UNCHANGED <<input, pc, step, messages, newMessages, calls, outcome, usage, effects, exit>>
    /\ UNCHANGED <<options, hook, runID, callRow, toolRows, shellRows, tracked>>
    /\ lost => lost'

\* A step of the loop that asks the provider or ends the handling of a response.
Asks ==
    /\ Unlogged
    /\ pc \in {"step", "request", "waiting", "call"}
    /\ pc' \in {"step", "request", "waiting", "failed"}
    /\ UNCHANGED <<input, ctx, newMessages, usage, effects>>

\* A step of the call in hand, up to its result.
Acts ==
    /\ Unlogged
    /\ pc \in {"execute", "running"} /\ pc' \in {"running", "record"}
    /\ UNCHANGED <<input, ctx, step, newMessages, calls, usage, exit>>
    /\ \/ effects' = effects
       \/ /\ pc = "execute"
          /\ effects' = Append(effects, [call |-> Head(calls), step |-> step, ctx |-> ctx])

\* A step that fails gives the loop a code, and no other step does.
Coded == \/ pc' = "failed" /\ exit' # ExitSuccess
         \/ pc # "failed" /\ pc' # "failed" /\ exit' \in {exit, ExitSuccess}
         \/ UNCHANGED <<pc, exit>>

Outside ==
    \/ \E i \in 1..5 : Setup(i)
    \/ Preflight \/ LoopReturns \/ Validate \/ Save \/ CheckDeadline
    \/ FinalizeSuccess \/ Render \/ FinishError \/ CloseRun
    \/ Expire \/ Interrupt \/ UNCHANGED vars

LEMMA OutsideSteps == Outside => Elsewhere
<1> USE DEF Elsewhere, loopVars, trackerVars
<1>1. ASSUME NEW i \in 1..5, Setup(i) PROVE Elsewhere
  BY <1>1 DEF Setup
<1>2. CASE Preflight \/ LoopReturns \/ Validate \/ CheckDeadline \/ Render \/ Save \/ FinishError
  BY <1>2 DEF Preflight, LoopReturns, Validate, CheckDeadline, Render, Save, FinishError
<1>3. ASSUME NEW status, NEW c, NEW n, NEW ok \in BOOLEAN, Tracker!Finish(status, c, n, ok)
      PROVE  UNCHANGED <<runID, callRow, toolRows, shellRows, tracked>> /\ (lost => lost')
  BY <1>3 DEF Tracker!Finish, Tracker!WriteFails, Tracker!trackerVars
<1>4. CASE FinalizeSuccess
  <2>1. UNCHANGED <<runID, callRow, toolRows, shellRows, tracked>> /\ (lost => lost')
    BY <1>3, <1>4 DEF FinalizeSuccess
  <2> QED BY <1>4, <2>1 DEF FinalizeSuccess
<1>5. CASE CloseRun
  <2>1. UNCHANGED <<runID, callRow, toolRows, shellRows, tracked>> /\ (lost => lost')
    BY <1>3, <1>5 DEF CloseRun
  <2> QED BY <1>5, <2>1 DEF CloseRun
<1>6. CASE Expire \/ Interrupt \/ UNCHANGED vars
  BY <1>6 DEF Expire, Interrupt, Loop!Expire, Loop!Interrupt, vars, runVars, Loop!transcript, Loop!telemetry
<1> QED BY <1>1, <1>2, <1>4, <1>5, <1>6 DEF Outside

\* Every step is one of these.
LEMMA StepKinds ==
    ASSUME [Next]_vars
    PROVE  \/ Outside
           \/ Asks /\ Coded
           \/ Acts
           \/ (LoopStart \/ ProviderResponds \/ AdmitCall
               \/ ResultLogged \/ CommandLogged \/ RecordResult) /\ Coded
<1> USE DEF Coded, Loop!Fail, Loop!transcript, Loop!telemetry
<1>1. CASE ReadStdin \/ Load \/ Preflight \/ LoopReturns \/ Validate \/ Save \/ CheckDeadline
           \/ FinalizeSuccess \/ Render \/ FinishError \/ CloseRun
           \/ Expire \/ Interrupt \/ UNCHANGED vars
  <2> Len(SetupPhases) = 5
    BY DEF SetupPhases
  <2> QED BY <1>1 DEF Outside, ReadStdin, Load
<1>2. CASE StepStart
  BY <1>2 DEF StepStart, Loop!StepStart, Asks, Unlogged
<1>3. CASE SendRequest
  <2>1. \A e \in Loop!SendErrors : Loop!NormalizeContextError(e, FALSE) # ExitSuccess
    BY DEF Loop!SendErrors, Loop!NormalizeContextError
  <2> QED BY <1>3, <2>1 DEF SendRequest, Loop!SendRequest, Asks, Unlogged
<1>4. CASE ResponseTooLate \/ ProviderFails
  <2>1. \A e \in Loop!ProviderErrors, t \in BOOLEAN : Loop!NormalizeContextError(e, t) # ExitSuccess
    BY DEF Loop!ProviderErrors, Loop!NormalizeContextError
  <2>2. CASE ResponseTooLate
    BY <2>2 DEF ResponseTooLate, Loop!ResponseTooLate, Asks, Unlogged
  <2>3. CASE ProviderFails
    <3>1. PICK e \in Loop!ProviderErrors, t \in BOOLEAN : Loop!Fail(Loop!NormalizeContextError(e, t))
      BY <2>3 DEF ProviderFails, Loop!ProviderFails
    <3>2. pc' = "failed" /\ exit' # ExitSuccess
      BY <2>1, <3>1
    <3> QED BY <2>3, <3>2 DEF ProviderFails, Loop!ProviderFails, Asks, Unlogged
  <2> QED BY <1>4, <2>2, <2>3
<1>5. CASE RejectCall \/ EndBatch
  BY <1>5 DEF RejectCall, EndBatch, Loop!RejectCall, Loop!EndBatch, Asks, Unlogged
<1>6. CASE InvalidArguments \/ PlanTool \/ StartTool \/ ToolReturns
  BY <1>6 DEF InvalidArguments, PlanTool, StartTool, ToolReturns, Loop!InvalidArguments,
              Loop!PlanTool, Loop!StartTool, Loop!ToolReturns, Loop!ValidArguments, Acts, Unlogged
<1>7. CASE LoopStart \/ AdmitCall
  BY <1>7 DEF LoopStart, AdmitCall, Loop!LoopStart, Loop!AdmitCall
<1>8. CASE ProviderResponds
  BY <1>8 DEF ProviderResponds, Loop!ProviderRefuses, Loop!ProviderAsksTools, Loop!ProviderAnswers,
              Loop!Responded
<1>9. CASE ResultLogged \/ CommandLogged
  <2>1. Loop!ToolResultHookFails => Coded
    BY DEF Loop!ToolResultHookFails
  <2>2. UNCHANGED loopVars => Coded
    BY DEF loopVars
  <2>3. Loop!ToolResultHookFails \/ UNCHANGED loopVars
    BY <1>9 DEF ResultLogged, CommandLogged
  <2> QED BY <1>9, <2>1, <2>2, <2>3
<1>10. CASE RecordResult
  BY <1>10 DEF RecordResult, Loop!RecordResult, Loop!Judge, Loop!NormalizeContextError
<1> QED BY <1>1, <1>2, <1>3, <1>4, <1>5, <1>6, <1>7, <1>8, <1>9, <1>10
           DEF Next, OwnStep, ProviderReturns

\* Where the run goes from where it is.
LEMMA PlaceStep == PlaceInv /\ [Next]_vars => PlaceInv'
<1> SUFFICES ASSUME PlaceInv, [Next]_vars PROVE PlaceInv'
  OBVIOUS
<1> USE DEF PlaceInv, Early, After, SetupNames
<1>1. CASE Outside
  <2>1. UNCHANGED <<pc, exit>>
    BY <1>1, OutsideSteps DEF Elsewhere
  <2>2. ASSUME NEW i \in 1..5, Setup(i) PROVE PlaceInv'
    <3>1. phase \in SetupNames /\ phase' \in SetupNames \cup {"preflight", "exited"}
      BY <2>2, SetupSteps
    <3> QED BY <2>1, <3>1
  <2>3. CASE Preflight \/ LoopReturns \/ Validate \/ Save \/ CheckDeadline
    BY <2>1, <2>3 DEF Preflight, LoopReturns, Validate, Save, CheckDeadline, Fails
  <2>4. CASE FinalizeSuccess \/ Render \/ FinishError \/ CloseRun
    BY <2>1, <2>4 DEF FinalizeSuccess, Render, FinishError, CloseRun, Fails, Exit
  <2>5. CASE Expire \/ Interrupt \/ UNCHANGED vars
    BY <2>1, <2>5 DEF Expire, Interrupt, vars, runVars
  <2> QED BY <1>1, <2>2, <2>3, <2>4, <2>5 DEF Outside
<1>2. CASE Asks /\ Coded
  BY <1>2 DEF Asks, Coded, Unlogged, InLoop
<1>3. CASE Acts
  BY <1>3 DEF Acts, Unlogged, InLoop
<1>4. CASE (LoopStart \/ ProviderResponds \/ AdmitCall
            \/ ResultLogged \/ CommandLogged \/ RecordResult) /\ Coded
  <2>1. phase = "loop" /\ phase' = "loop"
    BY <1>4 DEF LoopStart, ProviderResponds, AdmitCall, ResultLogged, CommandLogged,
                RecordResult, InLoop
  <2> QED BY <1>4, <2>1 DEF Coded
<1> QED BY <1>1, <1>2, <1>3, <1>4, StepKinds

-----------------------------------------------------------------------------
(* The run's row, and the tracker's own copy of what goes into it. *)

\* A run without a log writes nothing.  With one, the row is there from the first
\* step of the loop to the end, its tokens are counted twice with one result, and a
\* statement that is lost has failed the loop or the run.
RunInv ==
    /\ ~options.log => runRow = Tracker!NoRun /\ runID = 0 /\ toolRows = <<>> /\ ~lost
    /\ runID = 0 <=> runRow.status = "absent"
    /\ options.log => tracked = usage
    /\ pc = "start" => runID = 0 /\ toolRows = <<>> /\ ~lost /\ usage = 0
    /\ options.log /\ pc \notin {"start", "failed"} => runID = 1
    /\ phase \in {"loop", "validate", "save", "check", "finalize"} =>
          runRow.status \in {"absent", "running"}
    /\ phase = "render" /\ options.log =>
          runRow = [status |-> "success", exit |-> ExitSuccess, tokens |-> usage]
    /\ lost => pc = "failed" \/ phase \in {"finish", "close", "exited"}
    /\ phase # "exited" => runRow.status # "error"

LEMMA RunInvStep == TypeInv /\ PlaceInv /\ RunInv /\ [Next]_vars => RunInv'
<1> SUFFICES ASSUME TypeInv, PlaceInv, RunInv, [Next]_vars PROVE RunInv'
  OBVIOUS
<1>t. /\ phase \in Places /\ hook \in {"none", "updated", "logged"} /\ (hook # "none" => pc = "record")
      /\ options.log \in BOOLEAN /\ lost \in BOOLEAN /\ tracked \in Nat /\ usage \in Nat
      /\ runID \in {0, 1} /\ pc \in Loop!Phase
  BY TypeParts, OptionsAssumption
     DEF TypeInv, RunTypes, RunOptions, Tracker!TypeOK, Loop!TypeOK
<1>h. hook # "none" => options.log
  BY DEF TypeInv, HookInv
<1>p. phase \in Early => runRow.status = "absent"
  BY DEF PlaceInv, RunInv
\* A step outside of the loop that leaves the log alone.
<1>s. ASSUME UNCHANGED <<options, trackerVars, usage, pc>>,
             \/ phase' = phase
             \/ phase # "exited" /\ phase' \in {"finish", "close", "exited"}
             \/ /\ phase \in Early \cup {"loop", "validate", "save", "check"}
                /\ phase' \notin {"render", "finish", "close", "exited"}
      PROVE  RunInv'
  <2>1. phase' \in {"loop", "validate", "save", "check", "finalize"} =>
           runRow.status \in {"absent", "running"}
    BY <1>s, <1>p DEF RunInv
  <2>2. phase' = "render" => phase = "render"
    BY <1>s
  <2>3. lost => pc = "failed" \/ phase' \in {"finish", "close", "exited"}
    BY <1>s DEF RunInv, Early, SetupNames
  <2>4. phase' # "exited" => phase # "exited"
    BY <1>s DEF Early, SetupNames
  <2> QED BY <1>s, <2>1, <2>2, <2>3, <2>4 DEF RunInv, trackerVars, Tracker!NoRun
\* A step of the loop that leaves the run's row alone.
<1>l. ASSUME phase = "loop", phase' = "loop", pc # "start", pc # "failed", pc' # "start",
             UNCHANGED <<options, runRow, runID>>,
             options.log => tracked' = usage',
             lost' => pc' = "failed",
             ~options.log => UNCHANGED <<toolRows, lost>>
      PROVE  RunInv'
  BY <1>l DEF RunInv, Tracker!NoRun
<1>1. CASE Outside
  <2>1. UNCHANGED <<options, usage, pc, runID, toolRows, tracked>>
    BY <1>1, OutsideSteps DEF Elsewhere
  <2>2. ASSUME NEW i \in 1..5, Setup(i) PROVE RunInv'
    <3>1. phase \in SetupNames /\ phase' \in SetupNames \cup {"preflight", "exited"} /\ UNCHANGED trackerVars
      BY <2>2, SetupSteps
    <3> QED BY <1>s, <2>1, <3>1 DEF Early, SetupNames
  <2>3. CASE Preflight \/ LoopReturns \/ Validate \/ Save \/ CheckDeadline \/ Render \/ FinishError
    <3>1. UNCHANGED trackerVars
      BY <2>3 DEF Preflight, LoopReturns, Validate, Save, CheckDeadline, Render, FinishError
    <3>2. \/ phase # "exited" /\ phase' \in {"finish", "close", "exited"}
          \/ /\ phase \in {"preflight", "loop", "validate", "save", "check"}
             /\ phase' \in {"loop", "validate", "save", "check", "finalize"}
      BY <2>3 DEF Preflight, LoopReturns, Validate, Save, CheckDeadline, Render, FinishError, Fails, Exit
    <3> QED BY <1>s, <2>1, <3>1, <3>2 DEF Early
  <2>4. CASE FinalizeSuccess
    <3>1. phase = "finalize" /\ phase' \in {"render", "finish"}
      BY <2>4 DEF FinalizeSuccess, Fails
    <3>2. CASE ~options.log
      <4>1. UNCHANGED trackerVars
        BY <2>4, <3>2 DEF FinalizeSuccess
      <4> QED BY <2>1, <3>1, <3>2, <4>1 DEF RunInv, trackerVars, Tracker!NoRun
    <3>3. CASE options.log
      <4>1. pc = "done" /\ runID = 1
        BY <3>1, <3>3 DEF PlaceInv, RunInv, After
      <4>2. PICK ok \in BOOLEAN :
               /\ Tracker!Finish("success", ExitSuccess, usage, ok)
               /\ \/ ok /\ phase' = "render" /\ UNCHANGED pending
                  \/ ~ok /\ Fails(Typed(ExitSessionFailure))
        BY <2>4, <3>3 DEF FinalizeSuccess
      <4>3. CASE ok
        <5>1. phase' = "render" /\ lost' = lost
              /\ runRow' = [status |-> "success", exit |-> ExitSuccess,
                            tokens |-> IF usage = 0 THEN tracked ELSE usage]
          BY <4>1, <4>2, <4>3 DEF Tracker!Finish, Fails
        <5>2. runRow' = [status |-> "success", exit |-> ExitSuccess, tokens |-> usage]
          BY <3>3, <5>1 DEF RunInv
        <5> HIDE <5>1
        <5>3. runRow'.status = "success" /\ phase' = "render" /\ lost' = lost
          BY <5>1, <5>2
        <5> QED BY <2>1, <3>1, <3>3, <4>1, <5>2, <5>3 DEF RunInv
      <4>4. CASE ~ok
        <5>1. phase' = "finish" /\ runRow' = runRow
          BY <4>1, <4>2, <4>4 DEF Tracker!Finish, Tracker!WriteFails, Fails
        <5> QED BY <2>1, <3>1, <3>3, <4>1, <5>1 DEF RunInv
      <4> QED BY <4>3, <4>4
    <3> QED BY <1>t, <3>2, <3>3
  <2>5. CASE CloseRun
    <3>1. phase = "close" /\ phase' = "exited"
      BY <2>5 DEF CloseRun, Exit
    <3>2. CASE ~options.log
      <4>1. UNCHANGED trackerVars
        BY <2>5, <3>2 DEF CloseRun
      <4> QED BY <1>s, <2>1, <3>1, <4>1
    <3>3. CASE options.log
      <4>1. PICK ok \in BOOLEAN, c \in {pending.code} : Tracker!Finish("error", c, 0, ok)
        BY <2>5, <3>3 DEF CloseRun
      <4>2. CASE UNCHANGED Tracker!trackerVars
        BY <1>s, <2>1, <3>1, <4>2 DEF Tracker!trackerVars, trackerVars
      <4>3. CASE runID # 0
        <5>1. \/ runRow' = [status |-> "error", exit |-> c, tokens |-> tracked] /\ lost' = lost
              \/ runRow' = runRow
          BY <4>1, <4>3 DEF Tracker!Finish, Tracker!WriteFails
        <5>2. (runRow'.status = "absent" <=> runRow.status = "absent") /\ (pc = "start" => ~lost')
          BY <4>3, <5>1 DEF RunInv
        <5> QED BY <2>1, <3>1, <3>3, <5>2 DEF RunInv
      <4> QED BY <4>1, <4>2, <4>3 DEF Tracker!Finish
    <3> QED BY <1>t, <3>2, <3>3
  <2>6. CASE Expire \/ Interrupt \/ UNCHANGED vars
    <3>1. UNCHANGED <<trackerVars, phase>>
      BY <2>6 DEF Expire, Interrupt, vars, runVars
    <3> QED BY <1>s, <2>1, <3>1
  <2> QED BY <1>1, <2>2, <2>3, <2>4, <2>5, <2>6 DEF Outside
<1>2. CASE Asks \/ Acts
  <2>1. /\ phase = "loop" /\ phase' = "loop" /\ pc \notin {"start", "failed"} /\ pc' # "start"
        /\ UNCHANGED <<options, trackerVars, usage>>
    BY <1>2 DEF Asks, Acts, Unlogged, InLoop
  <2> QED BY <1>l, <2>1 DEF RunInv, trackerVars
<1>3. CASE LoopStart
  <2>1. /\ phase = "loop" /\ phase' = "loop" /\ pc = "start" /\ pc' \in {"step", "failed"}
        /\ UNCHANGED <<options, usage>>
    BY <1>3 DEF LoopStart, InLoop, Loop!LoopStart, Loop!Fail, Loop!telemetry
  <2>2. CASE ~options.log
    <3>1. UNCHANGED trackerVars
      BY <1>3, <2>2 DEF LoopStart
    <3> QED BY <2>1, <2>2, <3>1 DEF RunInv, trackerVars, Tracker!NoRun
  <2>3. CASE options.log
    <3>1. PICK ok \in BOOLEAN : Tracker!StartRun(ok) /\ Loop!LoopStart(~ok)
      BY <1>3, <2>3 DEF LoopStart
    <3>2. CASE ok
      <4>1. runRow'.status = "running" /\ runID' = 1 /\ tracked' = 0 /\ UNCHANGED lost
        BY <3>1, <3>2 DEF Tracker!StartRun, Tracker!NoRun
      <4> QED BY <2>1, <2>3, <4>1 DEF RunInv
    <3>3. CASE ~ok
      <4>1. UNCHANGED <<runRow, runID, tracked>> /\ pc' = "failed"
        BY <3>1, <3>3 DEF Tracker!StartRun, Tracker!WriteFails, Loop!LoopStart, Loop!Fail
      <4> QED BY <2>1, <2>3, <4>1 DEF RunInv
    <3> QED BY <3>2, <3>3
  <2> QED BY <1>t, <2>2, <2>3
<1>4. CASE ProviderResponds
  <2>1. /\ phase = "loop" /\ phase' = "loop" /\ pc = "waiting" /\ pc' # "start"
        /\ usage' = usage + 1 /\ UNCHANGED options
    BY <1>4 DEF ProviderResponds, InLoop, Loop!ProviderRefuses, Loop!ProviderAsksTools,
                Loop!ProviderAnswers, Loop!Responded, Loop!Fail
  <2>2. /\ UNCHANGED <<runRow, runID, toolRows, lost>>
        /\ options.log => tracked' = tracked + 1
    BY <1>4 DEF ProviderResponds, Tracker!CountUsage, trackerVars
  <2> QED BY <1>l, <2>1, <2>2 DEF RunInv
<1>5. CASE AdmitCall
  <2>1. /\ phase = "loop" /\ phase' = "loop" /\ pc = "call" /\ pc' # "start"
        /\ UNCHANGED <<options, usage>>
    BY <1>5 DEF AdmitCall, InLoop, Loop!AdmitCall, Loop!Fail, Loop!telemetry
  <2>2. CASE ~options.log
    <3>1. UNCHANGED trackerVars
      BY <1>5, <2>2 DEF AdmitCall
    <3> QED BY <1>l, <2>1, <2>2, <3>1 DEF RunInv, trackerVars
  <2>3. CASE options.log
    <3>1. UNCHANGED <<runRow, runID, tracked>> /\ (lost' => lost \/ pc' = "failed")
      BY <1>5, <2>3 DEF AdmitCall, Tracker!LogToolCall, Tracker!WriteFails, Loop!AdmitCall, Loop!Fail
    <3> QED BY <1>l, <2>1, <2>3, <3>1 DEF RunInv
  <2> QED BY <1>t, <2>2, <2>3
<1>6. CASE ResultLogged \/ CommandLogged
  <2>1. phase = "loop" /\ phase' = "loop" /\ UNCHANGED options
    BY <1>6 DEF ResultLogged, CommandLogged, InLoop
  <2>2. options.log /\ pc = "record"
    BY <1>6, <1>t, <1>h DEF ResultLogged, CommandLogged
  <2>3. /\ pc' # "start" /\ usage' = usage
        /\ UNCHANGED <<runRow, runID, tracked>>
        /\ lost' => lost \/ pc' = "failed"
    <3>1. ASSUME Loop!ToolResultHookFails PROVE pc' = "failed" /\ usage' = usage
      BY <3>1 DEF Loop!ToolResultHookFails, Loop!Fail, Loop!telemetry
    <3>2. ASSUME UNCHANGED loopVars PROVE pc' = pc /\ usage' = usage
      BY <3>2 DEF loopVars
    <3>3. ASSUME NEW ok \in BOOLEAN, NEW status,
                 Tracker!UpdateToolCall(Head(calls), status, ok) \/ Tracker!LogShellCommand(Head(calls), ok)
          PROVE  UNCHANGED <<runRow, runID, tracked>> /\ (lost' => lost \/ ~ok)
      BY <3>3 DEF Tracker!UpdateToolCall, Tracker!LogShellCommand, Tracker!WriteFails
    <3>4. PICK ok \in BOOLEAN :
             /\ \/ Tracker!UpdateToolCall(Head(calls), ResultStatus, ok)
                \/ Tracker!LogShellCommand(Head(calls), ok)
             /\ \/ ok /\ UNCHANGED loopVars
                \/ ~ok /\ Loop!ToolResultHookFails
      <4>1. CASE ResultLogged
        BY <4>1 DEF ResultLogged
      <4>2. CASE CommandLogged
        BY <4>2 DEF CommandLogged
      <4> QED BY <1>6, <4>1, <4>2
    <3> QED BY <2>2, <3>1, <3>2, <3>3, <3>4
  <2> QED BY <1>l, <2>1, <2>2, <2>3 DEF RunInv
<1>7. CASE RecordResult
  <2>1. /\ phase = "loop" /\ phase' = "loop" /\ pc = "record" /\ pc' # "start"
        /\ UNCHANGED <<options, trackerVars, usage>>
    BY <1>7 DEF RecordResult, InLoop, Loop!RecordResult, Loop!Judge, Loop!Fail
  <2> QED BY <1>l, <2>1 DEF RunInv, trackerVars
<1> QED BY <1>1, <1>2, <1>3, <1>4, <1>5, <1>6, <1>7, StepKinds

-----------------------------------------------------------------------------
(* The rows of the tool calls, beside the transcript. *)

Results(s)  == {j \in DOMAIN s : s[j].role = "tool"}
NthOf(s, j) == Cardinality({k \in Results(s) : k <= j})

LEMMA ResultsFinite ==
    ASSUME NEW s \in Seq(Loop!Message)
    PROVE  /\ IsFiniteSet(Results(s)) /\ Cardinality(Results(s)) \in Nat
           /\ \A j \in Results(s) : NthOf(s, j) \in 1..Cardinality(Results(s))
<1>1. IsFiniteSet(Results(s))
  <2>1. Len(s) \in Nat /\ DOMAIN s = 1..Len(s)
    OBVIOUS
  <2>2. IsFiniteSet(1..Len(s)) /\ Results(s) \subseteq 1..Len(s)
    BY <2>1, FS_Interval DEF Results
  <2> QED BY <2>2, FS_Subset
<1>2. ASSUME NEW j \in Results(s) PROVE NthOf(s, j) \in 1..Cardinality(Results(s))
  <2> DEFINE T == {k \in Results(s) : k <= j}
  <2>1. T \subseteq Results(s) /\ j \in T
    BY DEF Results
  <2>2. IsFiniteSet(T) /\ Cardinality(T) <= Cardinality(Results(s)) /\ Cardinality(T) \in Nat
    BY <1>1, <2>1, FS_Subset, FS_CardinalityType
  <2>3. Cardinality(T) # 0
    BY <2>1, <2>2, FS_EmptySet
  <2> QED BY <1>1, <2>2, <2>3, FS_CardinalityType DEF NthOf
<1> QED BY <1>1, <1>2, FS_CardinalityType

\* A message at the end leaves the results before it in their places; if it is a
\* result it is the next one.
LEMMA ResultsGrow ==
    ASSUME NEW s \in Seq(Loop!Message), NEW m \in Loop!Message
    PROVE  LET t == Append(s, m)
               n == Cardinality(Results(s))
           IN  /\ \A j \in Results(s) : t[j] = s[j] /\ NthOf(t, j) = NthOf(s, j)
               /\ m.role # "tool" => Results(t) = Results(s)
               /\ m.role = "tool" => /\ Results(t) = Results(s) \cup {Len(s) + 1}
                                     /\ Cardinality(Results(t)) = n + 1
                                     /\ t[Len(s) + 1] = m /\ NthOf(t, Len(s) + 1) = n + 1
<1> DEFINE t == Append(s, m)
           n == Cardinality(Results(s))
<1>1. t \in Seq(Loop!Message) /\ Len(t) = Len(s) + 1 /\ Len(s) \in Nat /\ t[Len(s) + 1] = m
      /\ \A j \in 1..Len(s) : t[j] = s[j]
  OBVIOUS
<1>2. DOMAIN s = 1..Len(s) /\ DOMAIN t = 1..Len(s) + 1
  BY <1>1
<1> HIDE DEF t
<1>3. /\ m.role # "tool" => Results(t) = Results(s)
      /\ m.role = "tool" => Results(t) = Results(s) \cup {Len(s) + 1}
  BY <1>1, <1>2 DEF Results
<1>4. \A j \in Results(s) : t[j] = s[j] /\ NthOf(t, j) = NthOf(s, j)
  <2> SUFFICES ASSUME NEW j \in Results(s) PROVE t[j] = s[j] /\ NthOf(t, j) = NthOf(s, j)
    OBVIOUS
  <2>1. j \in 1..Len(s)
    BY <1>2 DEF Results
  <2>2. {k \in Results(t) : k <= j} = {k \in Results(s) : k <= j}
    BY <1>1, <1>3, <2>1
  <2> QED BY <1>1, <2>1, <2>2 DEF NthOf
<1>5. ASSUME m.role = "tool"
      PROVE  Cardinality(Results(t)) = n + 1 /\ NthOf(t, Len(s) + 1) = n + 1
  <2>1. Len(s) + 1 \notin Results(s)
    BY <1>1, <1>2 DEF Results
  <2>2. Cardinality(Results(t)) = n + 1
    BY <1>3, <1>5, <2>1, ResultsFinite, FS_AddElement
  <2>3. {k \in Results(t) : k <= Len(s) + 1} = Results(t)
    BY <1>1, <1>2 DEF Results
  <2> QED BY <2>2, <2>3 DEF NthOf
<1> QED BY <1>1, <1>3, <1>4, <1>5 DEF t

LEMMA NoResults ==
    ASSUME NEW s \in Seq(Loop!Message), Run!Plain(s)
    PROVE  Results(s) = {} /\ Cardinality(Results(s)) = 0
<1>1. Results(s) = {}
  BY DEF Results, Run!Plain
<1> QED BY <1>1, FS_EmptySet

\* What the log says of the calls whose results are in transcript s.
RowsOf(s, rows) ==
    /\ \A j \in Results(s) :
          /\ rows[NthOf(s, j)].call = s[j].calls[1]
          /\ rows[NthOf(s, j)].status = IF s[j].failed THEN "failed" ELSE "ok"
    /\ \A i \in 1..Cardinality(Results(s)) : rows[i].status # "running"

\* The row of the call in hand is the last one, the call's id stands for it, and its
\* status is the result's once the hook has written it.  Without a call in hand
\* the results have all the rows there are, unless a statement was lost.
RowsInv ==
    options.log =>
        LET n == Cardinality(Results(newMessages))
        IN  /\ RowsOf(newMessages, toolRows)
            /\ Len(toolRows) \in {n, n + 1}
            /\ pc \notin Acting /\ ~lost => Len(toolRows) = n
            /\ pc \in Acting =>
                  /\ Len(toolRows) = n + 1
                  /\ callRow[Head(calls).id] = n + 1
                  /\ toolRows[n + 1] = [call |-> Head(calls), step |-> step,
                                        status |-> IF hook = "none" THEN "running" ELSE ResultStatus]

\* A message that is no result leaves the log right about the transcript ...
LEMMA RowsOfSpeech ==
    ASSUME NEW s \in Seq(Loop!Message), NEW m \in Loop!Message, m.role # "tool",
           NEW rows, RowsOf(s, rows)
    PROVE  RowsOf(Append(s, m), rows)
<1> DEFINE t == Append(s, m)
<1>1. Results(t) = Results(s) /\ \A j \in Results(s) : t[j] = s[j] /\ NthOf(t, j) = NthOf(s, j)
  BY ResultsGrow
<1> HIDE DEF t
<1>2. RowsOf(t, rows)
  BY <1>1 DEF RowsOf
<1> QED BY <1>2 DEF t

\* ... and so does a change of the rows behind those of the results.
LEMMA RowsOfPrefix ==
    ASSUME NEW s \in Seq(Loop!Message), NEW rows, NEW later, RowsOf(s, rows),
           \A i \in 1..Cardinality(Results(s)) : later[i] = rows[i]
    PROVE  RowsOf(s, later)
BY ResultsFinite DEF RowsOf

LEMMA ResultMessageType ==
    ASSUME NEW c \in Calls, NEW f \in BOOLEAN
    PROVE  LET m == Loop!ResultMessage(c, f)
           IN  m \in Loop!Message /\ m.role = "tool" /\ m.calls[1] = c /\ m.failed = f
<1>1. <<c>> \in Seq(Calls) /\ <<c>>[1] = c
  OBVIOUS
<1> QED BY <1>1 DEF Loop!ResultMessage, Loop!Message

LEMMA RowsStep == TypeInv /\ RunInv /\ RowsInv /\ [Next]_vars => RowsInv'
<1> SUFFICES ASSUME TypeInv, RunInv, RowsInv, [Next]_vars PROVE RowsInv'
  OBVIOUS
<1> DEFINE n == Cardinality(Results(newMessages))
<1>l. TypeOK' /\ TypeOK
  BY TypeStep DEF TypeInv
<1>h. /\ hook \in {"none", "updated", "logged"} /\ (hook # "none" => pc = "record" /\ options.log)
      /\ options.log \in BOOLEAN
  BY <1>l, TypeParts, OptionsAssumption DEF TypeInv, HookInv, RunTypes, RunOptions
<1>m. /\ newMessages \in Seq(Loop!Message) /\ newMessages' \in Seq(Loop!Message)
      /\ pc \in Acting => Head(calls) \in Calls
  BY <1>l, TypeParts DEF Loop!TypeOK, Acting
<1>t. /\ lost \in BOOLEAN /\ toolRows \in Seq(Tracker!ToolRow) /\ Len(toolRows) \in Nat
      /\ DOMAIN toolRows = 1..Len(toolRows)
      /\ callRow \in [Tracker!CallIds -> 0..Len(toolRows)]
  BY <1>l, TypeParts DEF Tracker!TypeOK
<1>n. n \in Nat
  BY <1>m, ResultsFinite
<1>1. CASE Outside
  BY <1>1, OutsideSteps, <1>t DEF Elsewhere, RowsInv, ResultStatus
<1>2. CASE Asks
  BY <1>2 DEF Asks, Unlogged, InLoop, RowsInv, Acting, trackerVars
<1>3. CASE Acts
  <2>1. hook = "none" /\ hook' = "none" /\ pc \in Acting /\ pc' \in Acting
    BY <1>3, <1>h DEF Acts, Unlogged, Acting
  <2>2. UNCHANGED <<options, toolRows, callRow, newMessages, calls, step>>
    BY <1>3 DEF Acts, Unlogged, InLoop, trackerVars
  <2> QED BY <2>1, <2>2 DEF RowsInv
<1>4. CASE LoopStart
  <2>1. UNCHANGED <<options, toolRows>> /\ pc = "start" /\ pc' \notin Acting
        /\ toolRows = <<>> /\ ~lost
    BY <1>4 DEF LoopStart, InLoop, Loop!LoopStart, Loop!Fail, Tracker!StartRun, Tracker!WriteFails,
                trackerVars, Acting, RunInv
  <2>2. options.log => n = 0
    BY <2>1, <1>n DEF RowsInv, Acting
  <2>3. newMessages' = newMessages \/ newMessages' = Loop!UserTurn(input)
    BY <1>4 DEF LoopStart, Loop!LoopStart, Loop!transcript
  <2>4. Run!Plain(Loop!UserTurn(input))
    <3>1. Loop!UserTurn(input) = Run!UserTurn(input)
      BY DEF Loop!UserTurn, Run!UserTurn, Loop!When, Run!When, Loop!Text, Run!Text
    <3>2. input \in Inputs
      BY <1>l, TypeParts DEF Loop!TypeOK
    <3> QED BY <3>1, <3>2, Run!PlainPrompt, RunAssumptions
  <2>5. options.log => Cardinality(Results(newMessages')) = 0
    BY <1>m, <2>2, <2>3, <2>4, NoResults
  <2>6. options.log => Results(newMessages') = {}
    BY <1>m, <2>5, ResultsFinite, FS_EmptySet
  <2>7. options.log => RowsOf(newMessages', toolRows)
    BY <2>5, <2>6 DEF RowsOf
  <2> QED BY <2>1, <2>5, <2>7 DEF RowsInv
<1>5. CASE ProviderResponds
  <2>1. UNCHANGED <<options, toolRows, lost>> /\ pc = "waiting" /\ pc' \notin Acting
    BY <1>5 DEF ProviderResponds, InLoop, Loop!ProviderRefuses, Loop!ProviderAsksTools,
                Loop!ProviderAnswers, Loop!Responded, Loop!Fail, Tracker!CountUsage, trackerVars, Acting
  <2>2. CASE newMessages' = newMessages
    BY <2>1, <2>2 DEF RowsInv, Acting
  <2>3. ASSUME NEW cs \in Seq(Calls), newMessages' = Append(newMessages, Loop!Assistant(cs))
        PROVE  RowsInv'
    <3>1. Loop!Assistant(cs) \in Loop!Message /\ Loop!Assistant(cs).role # "tool"
      BY DEF Loop!Assistant, Loop!Message
    <3>2. Results(newMessages') = Results(newMessages)
      BY <1>m, <2>3, <3>1, ResultsGrow
    <3>3. RowsOf(newMessages, toolRows) => RowsOf(newMessages', toolRows)
      BY <1>m, <2>3, <3>1, RowsOfSpeech
    <3> QED BY <2>1, <3>2, <3>3 DEF RowsInv, Acting
  <2>4. \/ newMessages' = newMessages
        \/ \E cs \in Seq(Calls) : newMessages' = Append(newMessages, Loop!Assistant(cs))
    <3>1. <<>> \in Seq(Calls) /\ Loop!Responses \subseteq Seq(Calls)
      BY MaxCallsAssumption DEF Loop!Responses
    <3> QED BY <1>5, <3>1 DEF ProviderResponds, Loop!ProviderRefuses, Loop!ProviderAsksTools,
                              Loop!ProviderAnswers, Loop!transcript
  <2> QED BY <2>2, <2>3, <2>4
<1>6. CASE AdmitCall
  <2>1. /\ pc = "call" /\ pc' \in {"execute", "failed"} /\ phase = "loop" /\ calls # <<>>
        /\ UNCHANGED <<options, hook, newMessages, calls, step>>
    BY <1>6 DEF AdmitCall, InLoop, Loop!AdmitCall, Loop!Fail, Loop!transcript
  <2>2. hook' = "none" /\ ~lost
    BY <1>h, <2>1 DEF RunInv
  <2>3. ASSUME options.log, NEW ok \in BOOLEAN, Loop!AdmitCall(~ok),
               Tracker!LogToolCall(Head(calls), step, ok)
        PROVE  RowsInv'
    <3>1. RowsOf(newMessages, toolRows) /\ Len(toolRows) = n
      BY <2>1, <2>2, <2>3 DEF RowsInv, Acting
    <3>2. CASE ~ok
      <4>1. pc' = "failed" /\ lost' /\ UNCHANGED toolRows
        BY <2>3, <3>2 DEF Loop!AdmitCall, Loop!Fail, Tracker!LogToolCall, Tracker!WriteFails
      <4> QED BY <2>1, <2>3, <3>1, <4>1 DEF RowsInv, Acting
    <3>3. CASE ok
      <4> DEFINE row == [call |-> Head(calls), step |-> step, status |-> "running"]
      <4>1. pc' = "execute" /\ toolRows' = Append(toolRows, row)
            /\ callRow' = [callRow EXCEPT ![Head(calls).id] = Len(toolRows')]
        BY <2>3, <3>3 DEF Loop!AdmitCall, Tracker!LogToolCall
      <4>2. Head(calls) \in Calls
        BY <1>l, <2>1, TypeParts DEF Loop!TypeOK
      <4> HIDE DEF row
      <4>3. /\ Len(toolRows') = n + 1 /\ toolRows'[n + 1] = row
            /\ \A i \in 1..n : toolRows'[i] = toolRows[i]
        BY <1>t, <3>1, <4>1
      <4>4. callRow'[Head(calls).id] = n + 1
        BY <1>t, <4>1, <4>2, <4>3 DEF Tracker!CallIds
      <4>5. RowsOf(newMessages, toolRows')
        BY <1>m, <3>1, <4>3, RowsOfPrefix
      <4> QED BY <2>1, <2>2, <4>1, <4>3, <4>4, <4>5 DEF RowsInv, Acting, row
    <3> QED BY <3>2, <3>3
  <2> QED BY <1>6, <2>1, <2>3 DEF AdmitCall, RowsInv
<1>7. CASE ResultLogged
  <2>1. /\ pc = "record" /\ options.log /\ hook = "none" /\ options' = options
        /\ Head(calls) \in Calls
    BY <1>7, <1>m DEF ResultLogged, InLoop, Acting
  <2>2. /\ RowsOf(newMessages, toolRows) /\ Len(toolRows) = n + 1
        /\ callRow[Head(calls).id] = n + 1
        /\ toolRows[n + 1] = [call |-> Head(calls), step |-> step, status |-> "running"]
    BY <2>1 DEF RowsInv, Acting
  <2>3. CASE Loop!ToolResultHookFails /\ Tracker!UpdateToolCall(Head(calls), ResultStatus, FALSE)
    <3>1. pc' = "failed" /\ lost' /\ UNCHANGED <<toolRows, newMessages>>
      BY <2>3 DEF Loop!ToolResultHookFails, Loop!Fail, Loop!transcript,
                  Tracker!UpdateToolCall, Tracker!WriteFails
    <3> QED BY <2>1, <2>2, <3>1 DEF RowsInv, Acting
  <2>4. CASE /\ hook' = "updated" /\ UNCHANGED loopVars
             /\ Tracker!UpdateToolCall(Head(calls), ResultStatus, TRUE)
    <3>1. ResultStatus \in {"ok", "failed"}
      BY DEF ResultStatus
    <3>2. /\ callRow' = callRow /\ Len(toolRows') = n + 1
          /\ \A i \in 1..n : toolRows'[i] = toolRows[i]
          /\ toolRows'[n + 1] = [call |-> Head(calls), step |-> step, status |-> ResultStatus]
      <4>1. /\ callRow' = callRow /\ Len(toolRows') = Len(toolRows)
            /\ \A i \in 1..Len(toolRows) :
                  toolRows'[i] = IF i = callRow[Head(calls).id]
                                 THEN [call |-> toolRows[i].call, step |-> toolRows[i].step,
                                       status |-> ResultStatus]
                                 ELSE toolRows[i]
        BY <1>l, <2>1, <2>4, <3>1, TypeParts, Updated
      <4> QED BY <1>n, <2>2, <4>1
    <3>3. RowsOf(newMessages, toolRows')
      BY <1>m, <2>2, <3>2, RowsOfPrefix
    <3>4. UNCHANGED <<pc, step, newMessages, calls, ResultStatus>>
      BY <2>4 DEF loopVars, ResultStatus
    <3> QED BY <2>1, <2>4, <3>2, <3>3, <3>4 DEF RowsInv, Acting
  <2> QED BY <1>7, <2>3, <2>4 DEF ResultLogged
<1>8. CASE CommandLogged
  <2>1. /\ pc = "record" /\ options.log /\ hook = "updated" /\ options' = options
    BY <1>8, <1>h DEF CommandLogged, InLoop
  <2>2. /\ RowsOf(newMessages, toolRows) /\ Len(toolRows) = n + 1
        /\ callRow[Head(calls).id] = n + 1
        /\ toolRows[n + 1] = [call |-> Head(calls), step |-> step, status |-> ResultStatus]
    BY <2>1 DEF RowsInv, Acting
  <2>3. CASE Loop!ToolResultHookFails /\ Tracker!LogShellCommand(Head(calls), FALSE)
    <3>1. pc' = "failed" /\ lost' /\ UNCHANGED <<toolRows, newMessages>>
      BY <2>3 DEF Loop!ToolResultHookFails, Loop!Fail, Loop!transcript,
                  Tracker!LogShellCommand, Tracker!WriteFails
    <3> QED BY <2>1, <2>2, <3>1 DEF RowsInv, Acting
  <2>4. CASE /\ hook' = "logged" /\ UNCHANGED loopVars
             /\ Tracker!LogShellCommand(Head(calls), TRUE)
    <3>1. UNCHANGED <<pc, step, newMessages, calls, ResultStatus, toolRows, callRow>>
      BY <2>4 DEF loopVars, ResultStatus, Tracker!LogShellCommand
    <3> QED BY <2>1, <2>2, <2>4, <3>1 DEF RowsInv, Acting
  <2> QED BY <1>8, <2>3, <2>4 DEF CommandLogged
<1>9. CASE RecordResult
  <2> DEFINE m == Loop!ResultMessage(Head(calls), outcome.err # ExitSuccess)
  <2>1. /\ pc = "record" /\ pc' \in {"call", "failed"} /\ UNCHANGED <<options, toolRows>>
        /\ newMessages' = Append(newMessages, m) /\ ResultHookDone
    BY <1>9 DEF RecordResult, InLoop, Loop!RecordResult, Loop!Judge, Loop!Fail, trackerVars
  <2> SUFFICES ASSUME options.log PROVE RowsInv'
    BY <2>1 DEF RowsInv
  <2>2. hook # "none"
    BY <2>1 DEF ResultHookDone
  <2>3. /\ RowsOf(newMessages, toolRows) /\ Len(toolRows) = n + 1
        /\ toolRows[n + 1] = [call |-> Head(calls), step |-> step, status |-> ResultStatus]
    BY <2>1, <2>2 DEF RowsInv, Acting
  <2>4. /\ m \in Loop!Message /\ m.role = "tool" /\ m.calls[1] = Head(calls)
        /\ ResultStatus = IF m.failed THEN "failed" ELSE "ok"
    <3>1. Head(calls) \in Calls
      BY <1>m, <2>1 DEF Acting
    <3>2. PICK f \in BOOLEAN : f = (outcome.err # ExitSuccess)
      OBVIOUS
    <3>3. m = Loop!ResultMessage(Head(calls), f)
      BY <3>2
    <3>4. m \in Loop!Message /\ m.role = "tool" /\ m.calls[1] = Head(calls) /\ m.failed = f
      BY <3>1, <3>3, ResultMessageType
    <3> QED BY <3>2, <3>4 DEF ResultStatus
  <2> HIDE DEF m
  <2> DEFINE L == Len(newMessages) + 1
             t == Append(newMessages, m)
  <2>5. /\ Results(t) = Results(newMessages) \cup {L} /\ Cardinality(Results(t)) = n + 1
        /\ t[L] = m /\ NthOf(t, L) = n + 1
        /\ \A j \in Results(newMessages) : t[j] = newMessages[j] /\ NthOf(t, j) = NthOf(newMessages, j)
    BY <1>m, <2>4, ResultsGrow
  <2> HIDE DEF t, L
  <2>6. \A j \in Results(t) : /\ toolRows[NthOf(t, j)].call = t[j].calls[1]
                              /\ toolRows[NthOf(t, j)].status = IF t[j].failed THEN "failed" ELSE "ok"
    <3>1. /\ toolRows[NthOf(t, L)].call = t[L].calls[1]
          /\ toolRows[NthOf(t, L)].status = IF t[L].failed THEN "failed" ELSE "ok"
      BY <2>3, <2>4, <2>5
    <3> QED BY <2>3, <2>5, <3>1 DEF RowsOf
  <2>7. \A i \in 1..Cardinality(Results(t)) : toolRows[i].status # "running"
    <3>1. toolRows[n + 1].status # "running"
      BY <2>3 DEF ResultStatus
    <3> QED BY <1>n, <2>3, <2>5, <3>1 DEF RowsOf
  <2>8. RowsOf(newMessages', toolRows')
    BY <2>1, <2>6, <2>7 DEF RowsOf, t
  <2>9. Len(toolRows') = Cardinality(Results(newMessages'))
    BY <2>1, <2>3, <2>5 DEF t
  <2> QED BY <2>1, <2>8, <2>9 DEF RowsInv, Acting
<1> QED BY <1>1, <1>2, <1>3, <1>4, <1>5, <1>6, <1>7, <1>8, <1>9, StepKinds

LEMMA RowsMatch == TypeInv /\ RunInv /\ RowsInv => LogMatchesTranscript
<1> SUFFICES ASSUME TypeInv, RunInv, RowsInv, options.log PROVE LogMatchesTranscript
  BY OptionsAssumption DEF LogMatchesTranscript
<1> DEFINE n == Cardinality(Results(newMessages))
<1>1. ToolResults = Results(newMessages) /\ \A j : Nth(j) = NthOf(newMessages, j)
  BY DEF ToolResults, Results, Nth, NthOf
<1>2. newMessages \in Seq(Loop!Message)
  BY TypeParts DEF TypeInv, Loop!TypeOK
<1>3. n \in Nat /\ \A j \in Results(newMessages) : NthOf(newMessages, j) \in 1..n
  BY <1>2, ResultsFinite
<1>4. RowsOf(newMessages, toolRows) /\ Len(toolRows) \in {n, n + 1}
  BY DEF RowsInv
<1>5. ASSUME Len(toolRows) > n, toolRows[n + 1].status # "running" PROVE hook # "none" \/ lost
  <2>1. CASE pc \in Acting
    <3>1. toolRows[n + 1].status = IF hook = "none" THEN "running" ELSE ResultStatus
      BY <2>1 DEF RowsInv
    <3> QED BY <1>5, <3>1
  <2>2. CASE pc \notin Acting
    BY <1>3, <1>5, <2>2 DEF RowsInv
  <2> QED BY <2>1, <2>2
<1> QED BY <1>1, <1>3, <1>4, <1>5 DEF LogMatchesTranscript, RowsOf

-----------------------------------------------------------------------------
(* The tools that ran, beside their rows. *)

LEMMA TimesAppend ==
    ASSUME NEW S, NEW list \in Seq(S), NEW e \in S, NEW c, NEW k
    PROVE  /\ Times(list, c, k) \in Nat
           /\ Times(Append(list, e), c, k) =
                 Times(list, c, k) + (IF e.call = c /\ e.step = k THEN 1 ELSE 0)
<1> DEFINE At(s) == {i \in DOMAIN s : s[i].call = c /\ s[i].step = k}
           t == Append(list, e)
<1>1. /\ t \in Seq(S) /\ Len(t) = Len(list) + 1 /\ Len(list) \in Nat /\ t[Len(list) + 1] = e
      /\ DOMAIN list = 1..Len(list) /\ DOMAIN t = 1..Len(list) + 1
      /\ \A i \in 1..Len(list) : t[i] = list[i]
  OBVIOUS
<1>2. IsFiniteSet(At(list)) /\ Cardinality(At(list)) \in Nat
  <2>1. IsFiniteSet(1..Len(list)) /\ At(list) \subseteq 1..Len(list)
    BY <1>1, FS_Interval
  <2> QED BY <2>1, FS_Subset, FS_CardinalityType
<1> HIDE DEF t
<1>3. At(t) = IF e.call = c /\ e.step = k THEN At(list) \cup {Len(list) + 1} ELSE At(list)
  BY <1>1
<1>4. Len(list) + 1 \notin At(list)
  BY <1>1
<1> HIDE DEF At
<1>5. Cardinality(At(t)) = Cardinality(At(list)) + (IF e.call = c /\ e.step = k THEN 1 ELSE 0)
  <2>1. Cardinality(At(list) \cup {Len(list) + 1}) = Cardinality(At(list)) + 1
    BY <1>2, <1>4, FS_AddElement
  <2>2. CASE e.call = c /\ e.step = k
    BY <1>3, <2>1, <2>2
  <2>3. CASE ~(e.call = c /\ e.step = k)
    <3>1. At(t) = At(list)
      BY <1>3, <2>3
    <3> QED BY <1>2, <2>3, <3>1
  <2> QED BY <2>2, <2>3
<1> QED BY <1>2, <1>5 DEF Times, At, t

\* Every tool that ran, and the one that may run next, has a row of its own.
EffInv ==
    options.log =>
        \A c \in Calls, k \in Nat :
            Times(effects, c, k) + (IF pc = "execute" /\ c = Head(calls) /\ k = step THEN 1 ELSE 0)
                <= Times(toolRows, c, k)

LEMMA EffStep == TypeInv /\ EffInv /\ [Next]_vars => EffInv'
<1> SUFFICES ASSUME TypeInv, EffInv, [Next]_vars, options'.log PROVE EffInv'
  BY DEF EffInv
<1> DEFINE Effect == [call : Calls, step : Nat, ctx : {"live", "deadline", "canceled"}]
<1>t. /\ effects \in Seq(Effect) /\ step \in Nat /\ ctx \in {"live", "deadline", "canceled"}
      /\ pc \in Acting => calls # <<>>
      /\ calls # <<>> => Head(calls) \in Calls
  BY TypeParts DEF TypeInv, Loop!TypeOK, Acting
<1>r. toolRows \in Seq(Tracker!ToolRow)
  BY TypeParts DEF TypeInv, Tracker!TypeOK
<1> HIDE DEF Effect
<1>n. \A c, k : Times(effects, c, k) \in Nat /\ Times(toolRows, c, k) \in Nat
  <2>1. ASSUME NEW c, NEW k PROVE Times(effects, c, k) \in Nat /\ Times(toolRows, c, k) \in Nat
    <3>1. \A S, s, e : s \in Seq(S) /\ e \in S => Times(s, c, k) \in Nat
      BY TimesAppend
    <3>2. \A s : s = <<>> => Times(s, c, k) \in Nat
      <4>1. \A s : s = <<>> => {i \in DOMAIN s : s[i].call = c /\ s[i].step = k} = {}
        OBVIOUS
      <4> QED BY <4>1, FS_EmptySet DEF Times
    <3>3. effects = <<>> \/ \E e : e \in Effect
      BY <1>t
    <3>4. toolRows = <<>> \/ \E e : e \in Tracker!ToolRow
      BY <1>r
    <3> QED BY <1>t, <1>r, <3>1, <3>2, <3>3, <3>4
  <2> QED BY <2>1
\* A step that neither runs a tool nor lets one run.
<1>s. ASSUME UNCHANGED <<options, effects>>, pc' = "execute" => UNCHANGED <<pc, calls, step>>,
             \A c, k : Times(toolRows', c, k) = Times(toolRows, c, k)
      PROVE  EffInv'
  <2> SUFFICES ASSUME NEW c \in Calls, NEW k \in Nat
               PROVE  Times(effects', c, k)
                         + (IF pc' = "execute" /\ c = Head(calls') /\ k = step' THEN 1 ELSE 0)
                      <= Times(toolRows', c, k)
    BY DEF EffInv
  <2>1. Times(effects, c, k) + (IF pc = "execute" /\ c = Head(calls) /\ k = step THEN 1 ELSE 0)
           <= Times(toolRows, c, k)
    BY <1>s DEF EffInv
  <2>2. Times(effects', c, k) = Times(effects, c, k) /\ Times(toolRows', c, k) = Times(toolRows, c, k)
    BY <1>s
  <2> QED BY <1>s, <1>n, <2>1, <2>2
<1>1. CASE Outside
  BY <1>1, <1>s, OutsideSteps DEF Elsewhere
<1>2. CASE Asks
  BY <1>2, <1>s DEF Asks, Unlogged, InLoop, trackerVars
<1>3. CASE Acts
  <2>1. UNCHANGED <<options, toolRows>> /\ pc' # "execute"
    BY <1>3 DEF Acts, Unlogged, InLoop, trackerVars
  <2>2. CASE effects' = effects
    BY <1>s, <2>1, <2>2
  <2>3. CASE /\ pc = "execute"
             /\ effects' = Append(effects, [call |-> Head(calls), step |-> step, ctx |-> ctx])
    <3> DEFINE e == [call |-> Head(calls), step |-> step, ctx |-> ctx]
    <3>1. e \in Effect
      BY <1>t, <2>3 DEF Effect, Acting
    <3>2. e.call = Head(calls) /\ e.step = step
      OBVIOUS
    <3> HIDE DEF e
    <3>3. \A c, k : Times(effects', c, k) =
                       Times(effects, c, k) + (IF Head(calls) = c /\ step = k THEN 1 ELSE 0)
      BY <1>t, <2>3, <3>1, <3>2, TimesAppend DEF e
    <3> SUFFICES ASSUME NEW c \in Calls, NEW k \in Nat
                 PROVE  Times(effects', c, k) <= Times(toolRows, c, k)
      BY <1>n, <2>1, <3>3 DEF EffInv
    <3> QED BY <1>n, <2>1, <2>3, <3>3 DEF EffInv
  <2> QED BY <1>3, <2>2, <2>3 DEF Acts
<1>4. CASE LoopStart \/ ProviderResponds
  BY <1>4, <1>s DEF LoopStart, ProviderResponds, InLoop, Loop!LoopStart, Loop!ProviderRefuses,
       Loop!ProviderAsksTools, Loop!ProviderAnswers, Loop!Fail, Tracker!StartRun,
       Tracker!WriteFails, Tracker!CountUsage, trackerVars
<1>5. CASE AdmitCall
  <2>1. /\ options.log /\ pc = "call" /\ calls # <<>>
        /\ UNCHANGED <<options, effects, calls, step>>
    BY <1>5 DEF AdmitCall, InLoop, Loop!AdmitCall
  <2>2. PICK ok \in BOOLEAN : Loop!AdmitCall(~ok) /\ Tracker!LogToolCall(Head(calls), step, ok)
    BY <1>5, <2>1 DEF AdmitCall
  <2>3. CASE ~ok
    <3>1. pc' = "failed" /\ UNCHANGED toolRows
      BY <2>2, <2>3 DEF Loop!AdmitCall, Loop!Fail, Tracker!LogToolCall, Tracker!WriteFails
    <3> QED BY <1>s, <2>1, <3>1
  <2>4. CASE ok
    <3> DEFINE row == [call |-> Head(calls), step |-> step, status |-> "running"]
    <3>1. toolRows' = Append(toolRows, row)
      BY <2>2, <2>4 DEF Tracker!LogToolCall
    <3>2. row \in Tracker!ToolRow /\ row.call = Head(calls) /\ row.step = step
      BY <1>t, <2>1 DEF Tracker!ToolRow
    <3> HIDE DEF row
    <3>3. \A c, k : Times(toolRows', c, k) =
                       Times(toolRows, c, k) + (IF Head(calls) = c /\ step = k THEN 1 ELSE 0)
      BY <1>r, <3>1, <3>2, TimesAppend
    <3> SUFFICES ASSUME NEW c \in Calls, NEW k \in Nat
                 PROVE  Times(effects', c, k)
                           + (IF pc' = "execute" /\ c = Head(calls') /\ k = step' THEN 1 ELSE 0)
                        <= Times(toolRows', c, k)
      BY DEF EffInv
    <3>4. Times(effects, c, k) <= Times(toolRows, c, k)
      <4>1. Times(effects, c, k) + (IF pc = "execute" /\ c = Head(calls) /\ k = step THEN 1 ELSE 0)
               <= Times(toolRows, c, k)
        BY <2>1 DEF EffInv
      <4> QED BY <1>n, <2>1, <4>1
    <3>5. Times(effects', c, k) = Times(effects, c, k)
      BY <2>1
    <3> QED BY <1>n, <2>1, <3>3, <3>4, <3>5
  <2> QED BY <2>3, <2>4
<1>6. CASE ResultLogged
  <2>1. options' = options /\ effects' = effects /\ (pc' = "execute" => UNCHANGED <<pc, calls, step>>)
    BY <1>6 DEF ResultLogged, InLoop, Loop!ToolResultHookFails, Loop!Fail, loopVars
  <2>2. \A i \in DOMAIN toolRows : toolRows'[i].call = toolRows[i].call
                                   /\ toolRows'[i].step = toolRows[i].step
    <3>1. PICK ok \in BOOLEAN : Tracker!UpdateToolCall(Head(calls), ResultStatus, ok)
      BY <1>6 DEF ResultLogged
    <3>2. CASE ~ok
      BY <3>1, <3>2 DEF Tracker!UpdateToolCall, Tracker!WriteFails
    <3>3. CASE ok
      <4>1. Head(calls) \in Calls /\ Tracker!TypeOK
        BY <1>6, <1>t, TypeParts DEF ResultLogged, Acting, TypeInv
      <4>3. ResultStatus \in {"ok", "failed"}
        BY DEF ResultStatus
      <4>2. Tracker!UpdateToolCall(Head(calls), ResultStatus, TRUE)
        BY <3>1, <3>3
      <4>4. \A i \in 1..Len(toolRows) :
               toolRows'[i] = IF i = callRow[Head(calls).id]
                              THEN [call |-> toolRows[i].call, step |-> toolRows[i].step,
                                    status |-> ResultStatus]
                              ELSE toolRows[i]
        BY <4>1, <4>2, <4>3, Updated
      <4>5. DOMAIN toolRows = 1..Len(toolRows)
        BY <1>r
      <4> DEFINE new(r) == [call |-> r.call, step |-> r.step, status |-> ResultStatus]
      <4>6. \A r : new(r).call = r.call /\ new(r).step = r.step
        OBVIOUS
      <4> HIDE DEF new
      <4>7. \A i \in DOMAIN toolRows : toolRows'[i] \in {toolRows[i], new(toolRows[i])}
        BY <4>4, <4>5 DEF new
      <4> QED BY <4>6, <4>7
    <3> QED BY <3>2, <3>3
  <2>3. DOMAIN toolRows' = DOMAIN toolRows
    BY <1>6 DEF ResultLogged, Tracker!UpdateToolCall, Tracker!WriteFails
  <2>4. \A c, k : Times(toolRows', c, k) = Times(toolRows, c, k)
    <3> SUFFICES ASSUME NEW c, NEW k PROVE Times(toolRows', c, k) = Times(toolRows, c, k)
      OBVIOUS
    <3>1. {i \in DOMAIN toolRows' : toolRows'[i].call = c /\ toolRows'[i].step = k}
             = {i \in DOMAIN toolRows : toolRows[i].call = c /\ toolRows[i].step = k}
      BY <2>2, <2>3
    <3> QED BY <3>1 DEF Times
  <2> QED BY <1>s, <2>1, <2>4
<1>7. CASE CommandLogged
  <2>1. options' = options /\ effects' = effects /\ (pc' = "execute" => UNCHANGED <<pc, calls, step>>)
    BY <1>7 DEF CommandLogged, InLoop, Loop!ToolResultHookFails, Loop!Fail, loopVars
  <2>2. toolRows' = toolRows
    BY <1>7 DEF CommandLogged, Tracker!LogShellCommand, Tracker!WriteFails
  <2> QED BY <1>s, <2>1, <2>2
<1>8. CASE RecordResult
  <2>1. UNCHANGED <<options, effects, toolRows>> /\ pc' # "execute"
    BY <1>8 DEF RecordResult, InLoop, Loop!RecordResult, Loop!Judge, Loop!Fail, trackerVars
  <2> QED BY <1>s, <2>1
<1> QED BY <1>1, <1>2, <1>3, <1>4, <1>5, <1>6, <1>7, <1>8, StepKinds

LEMMA EffectsLogged == TypeInv /\ EffInv => EffectsAreLogged
<1> SUFFICES ASSUME TypeInv, EffInv, options.log, NEW i \in DOMAIN effects
             PROVE  Times(effects, effects[i].call, effects[i].step)
                       <= Times(toolRows, effects[i].call, effects[i].step)
  BY DEF EffectsAreLogged
<1> DEFINE c == effects[i].call
           k == effects[i].step
<1> DEFINE Effect == [call : Calls, step : Nat, ctx : {"live", "deadline", "canceled"}]
<1>0. effects \in Seq(Effect)
  BY TypeParts DEF TypeInv, Loop!TypeOK
<1>1. effects[i] \in Effect
  <2> HIDE DEF Effect
  <2> QED BY <1>0
<1>2. toolRows \in Seq(Tracker!ToolRow)
  BY TypeParts DEF TypeInv, Tracker!TypeOK
<1>3. c \in Calls /\ k \in Nat
  BY <1>1
<1>4. [call |-> c, step |-> k, status |-> "ok"] \in Tracker!ToolRow
  BY <1>3 DEF Tracker!ToolRow
<1>5. Times(effects, c, k) \in Nat /\ Times(toolRows, c, k) \in Nat
  BY <1>0, <1>1, <1>2, <1>4, TimesAppend
<1> HIDE DEF c, k
<1>6. Times(effects, c, k) <= Times(toolRows, c, k)
  BY <1>3, <1>5 DEF EffInv
<1> QED BY <1>6 DEF c, k

-----------------------------------------------------------------------------
(* What an invocation leaves behind. *)

\* The errors that can come after the turn is saved.
LateCodes == {ExitTimeout, ExitSessionFailure, ExitRuntime}

\* An error is pending once the run is being finished, and the turn is in the session
\* from the saving on; what fails after that fails with one of the late codes.
OutInv ==
    /\ phase \notin {"finish", "close", "exited"} => pending = NoError
    /\ phase \in {"finish", "close"} => pending.code # ExitSuccess
    /\ phase \notin {"check", "finalize", "render", "finish", "close", "exited"} => saved = <<>>
    /\ phase \in {"check", "finalize", "render"} =>
          saved = IF SaveAsked THEN Stored(newMessages) ELSE <<>>
    /\ saved # <<>> => pc = "done" /\ saved = Stored(newMessages)
    /\ saved # <<>> /\ phase \in {"finish", "close"} => pending.code \in LateCodes

LEMMA OutStep == PlaceInv /\ OutInv /\ [Next]_vars => OutInv'
<1> SUFFICES ASSUME PlaceInv, OutInv, [Next]_vars PROVE OutInv'
  OBVIOUS
<1>c. /\ \A c : Typed(c).code = c
      /\ Untyped.code = ExitRuntime
      /\ \A e \in ValidationErrors : e.code # ExitSuccess
  <2>1. (\A c : Typed(c).code = c) /\ Untyped.code = ExitRuntime
    BY DEF Typed, Untyped
  <2>2. ValidationErrors \subseteq {Typed(ExitSchemaValidation), Typed(ExitTimeout), Untyped}
    BY DEF ValidationErrors
  <2> QED BY <2>1, <2>2
\* Early the turn is saved, and after.
<1>s. ASSUME phase \notin {"check", "finalize", "render", "finish", "close", "exited"}, saved' = saved,
             \/ phase' = "finish" /\ pending'.code # ExitSuccess
             \/ /\ phase' \notin {"check", "finalize", "render", "finish", "close"}
                /\ pending' = pending
      PROVE  OutInv'
  BY <1>s DEF OutInv
<1>e. ASSUME phase \in {"check", "finalize", "render"}, UNCHANGED <<saved, newMessages, pc, options>>,
             \/ phase' = "finish" /\ pending'.code \in LateCodes
             \/ phase' \in {"finalize", "render"} /\ pending' = pending
             \/ phase' = "exited"
      PROVE  OutInv'
  BY <1>e DEF OutInv, LateCodes, SaveAsked, Stored
<1>1. CASE Outside
  <2>1. UNCHANGED <<pc, newMessages, options, exit>>
    BY <1>1, OutsideSteps DEF Elsewhere
  <2>2. ASSUME NEW i \in 1..5, Setup(i) PROVE OutInv'
    <3>1. /\ phase \in SetupNames /\ phase' \in SetupNames \cup {"preflight", "exited"}
          /\ UNCHANGED <<pending, saved>>
      BY <2>2, SetupSteps DEF stored
    <3> QED BY <1>s, <3>1 DEF SetupNames
  <2>3. CASE Preflight
    BY <1>c, <1>s, <2>3 DEF Preflight, Fails, stored
  <2>4. CASE LoopReturns
    <3>1. phase = "loop" /\ saved' = saved
      BY <2>4 DEF LoopReturns, stored
    <3>2. CASE pc = "failed" /\ Fails(Typed(exit))
      BY <1>c, <1>s, <3>1, <3>2 DEF Fails, PlaceInv
    <3>3. CASE Fails(Typed(ExitTimeout))
      BY <1>c, <1>s, <3>1, <3>3 DEF Fails
    <3>4. CASE phase' = "validate" /\ UNCHANGED pending
      BY <1>s, <3>1, <3>4
    <3> QED BY <2>4, <3>2, <3>3, <3>4 DEF LoopReturns
  <2>5. CASE Validate
    BY <1>c, <1>s, <2>5 DEF Validate, Fails, stored
  <2>6. CASE Save
    <3>1. phase = "save" /\ pc = "done" /\ saved = <<>> /\ pending = NoError
      BY <2>6 DEF Save, PlaceInv, After, OutInv
    <3>2. CASE phase' = "check" /\ UNCHANGED pending
               /\ saved' = IF SaveAsked THEN Stored(newMessages) ELSE <<>>
      BY <2>1, <3>1, <3>2 DEF OutInv, SaveAsked, Stored
    <3>3. CASE Fails(Typed(ExitSessionFailure)) /\ UNCHANGED stored
      BY <1>c, <1>s, <3>1, <3>3 DEF Fails, stored
    <3> QED BY <2>6, <3>1, <3>2, <3>3 DEF Save, stored
  <2>7. CASE CheckDeadline
    BY <1>c, <1>e, <2>1, <2>7 DEF CheckDeadline, Fails, stored, LateCodes
  <2>8. CASE FinalizeSuccess
    <3>1. /\ phase = "finalize" /\ saved' = saved
          /\ \/ phase' = "render" /\ UNCHANGED pending
             \/ Fails(Typed(ExitSessionFailure))
      BY <2>8 DEF FinalizeSuccess, stored
    <3> QED BY <1>c, <1>e, <2>1, <3>1 DEF Fails, LateCodes
  <2>9. CASE Render
    BY <1>c, <1>e, <2>1, <2>9 DEF Render, Fails, Exit, stored, LateCodes
  <2>10. CASE FinishError
    <3>1. phase = "finish" /\ phase' = "close" /\ saved' = saved
      BY <2>10 DEF FinishError, stored
    <3>2. pending' = pending \/ pending' = Typed(ExitTimeout)
      BY <2>10 DEF FinishError, NormalizeInvocationError
    <3>3. Stored(newMessages)' = Stored(newMessages)
      BY <2>1 DEF Stored
    <3>4. pending'.code = pending.code \/ pending'.code = ExitTimeout
      BY <1>c, <3>2
    <3> QED BY <2>1, <3>1, <3>3, <3>4 DEF OutInv, LateCodes
  <2>12. CASE CloseRun
    <3>1. phase = "close" /\ phase' = "exited" /\ saved' = saved
      BY <2>12 DEF CloseRun, Exit, stored
    <3>2. Stored(newMessages)' = Stored(newMessages)
      BY <2>1 DEF Stored
    <3> QED BY <2>1, <3>1, <3>2 DEF OutInv
  <2>11. CASE Expire \/ Interrupt \/ UNCHANGED vars
    <3>1. UNCHANGED <<phase, pending, saved>>
      BY <2>11 DEF Expire, Interrupt, vars, runVars, stored
    <3>2. Stored(newMessages)' = Stored(newMessages) /\ SaveAsked' = SaveAsked
      BY <2>1 DEF Stored, SaveAsked
    <3> QED BY <2>1, <3>1, <3>2 DEF OutInv
  <2> QED BY <1>1, <2>2, <2>3, <2>4, <2>5, <2>6, <2>7, <2>8, <2>9, <2>10, <2>11, <2>12 DEF Outside
<1>2. CASE Asks \/ Acts \/ LoopStart \/ ProviderResponds \/ AdmitCall
           \/ ResultLogged \/ CommandLogged \/ RecordResult
  <2>1. InLoop
    BY <1>2 DEF Asks, Acts, Unlogged, LoopStart, ProviderResponds, AdmitCall, ResultLogged,
                CommandLogged, RecordResult
  <2> QED BY <1>s, <2>1 DEF InLoop
<1> QED BY <1>1, <1>2, StepKinds

\* The steps the process ends with, and what it stays with.
LEMMA ExitSteps ==
    ASSUME [Next]_vars, phase' = "exited"
    PROVE  \/ \E i \in 1..5 : Setup(i)
           \/ Render /\ code' = ExitSuccess
           \/ CloseRun
           \/ UNCHANGED vars
<1>1. CASE Outside
  <2>1. ~(Preflight \/ LoopReturns \/ Validate \/ Save \/ CheckDeadline \/ FinalizeSuccess
          \/ FinishError)
    BY DEF Preflight, LoopReturns, Validate, Save, CheckDeadline, FinalizeSuccess, Fails, FinishError
  <2>2. ~(Expire \/ Interrupt)
    BY DEF Expire, Interrupt, runVars
  <2>3. Render => code' = ExitSuccess
    BY DEF Render, Exit, Fails
  <2> QED BY <1>1, <2>1, <2>2, <2>3 DEF Outside
<1>2. CASE Asks \/ Acts \/ LoopStart \/ ProviderResponds \/ AdmitCall
           \/ ResultLogged \/ CommandLogged \/ RecordResult
  <2>1. InLoop
    BY <1>2 DEF Asks, Acts, Unlogged, LoopStart, ProviderResponds, AdmitCall, ResultLogged,
                CommandLogged, RecordResult
  <2> QED BY <2>1 DEF InLoop
<1> QED BY <1>1, <1>2, StepKinds

\* The end of finishError: the process ends with the code of the error, unless the row
\* could not be written; what is written has that code.
LEMMA CloseRunEnds ==
    ASSUME TypeInv, OutInv, RunInv, CloseRun
    PROVE  /\ phase = "close" /\ UNCHANGED <<loopVars, options, expiry, pending, saved, runID>>
           /\ code' \in {ExitSessionFailure, pending.code} /\ code' # ExitSuccess
           /\ pending.typed => code' = pending.code
           /\ ~lost' => runID = 0 \/ runRow' = [status |-> "error", exit |-> code', tokens |-> usage]
           /\ runRow' = runRow \/ (runRow'.status = "error" /\ runRow'.exit = code')
           /\ runID = 0 => runRow' = runRow
<1>1. phase = "close" /\ UNCHANGED <<loopVars, options, expiry, pending, saved>>
  BY DEF CloseRun, stored
<1>2. pending.code # ExitSuccess
  BY <1>1 DEF OutInv
<1>3. \/ /\ options.log
         /\ \E ok \in BOOLEAN :
               /\ Tracker!Finish("error", pending.code, 0, ok)
               /\ Exit(IF ok \/ pending.typed THEN pending.code ELSE ExitSessionFailure)
      \/ ~options.log /\ Exit(pending.code) /\ UNCHANGED trackerVars
  BY DEF CloseRun
<1>4. ~options.log => runID = 0
  BY DEF RunInv
<1>5. CASE ~options.log
  BY <1>1, <1>2, <1>3, <1>4, <1>5 DEF Exit, trackerVars
<1>6. CASE options.log
  <2>1. PICK ok \in BOOLEAN :
           /\ Tracker!Finish("error", pending.code, 0, ok)
           /\ Exit(IF ok \/ pending.typed THEN pending.code ELSE ExitSessionFailure)
    BY <1>3, <1>6
  <2>2. code' = IF ok \/ pending.typed THEN pending.code ELSE ExitSessionFailure
    BY <2>1 DEF Exit
  <2>3. /\ runID' = runID
        /\ runID = 0 => runRow' = runRow /\ ok
        /\ \/ runRow' = runRow
           \/ ok /\ runRow' = [status |-> "error", exit |-> pending.code, tokens |-> tracked]
        /\ ~lost' /\ runID # 0 =>
              ok /\ runRow' = [status |-> "error", exit |-> pending.code, tokens |-> tracked]
    BY <2>1 DEF Tracker!Finish, Tracker!WriteFails, Tracker!trackerVars
  <2>4. tracked = usage
    BY <1>6 DEF RunInv
  <2> QED BY <1>1, <1>2, <1>6, <2>2, <2>3, <2>4
<1> QED BY <1>5, <1>6

\* What is true of the exit code when the process ends by itself.
ExitInv ==
    phase = "exited" =>
        /\ code = ExitSuccess =>
              /\ pc = "done" /\ ~lost
              /\ saved = IF SaveAsked THEN Stored(newMessages) ELSE <<>>
              /\ runRow.status = IF options.log THEN "success" ELSE "absent"
        /\ ~lost /\ runRow.status # "absent" =>
              /\ runRow.exit = code /\ runRow.tokens = usage
              /\ runRow.status = IF code = ExitSuccess THEN "success" ELSE "error"
        /\ runRow.status = "error" => runRow.exit = code /\ code # ExitSuccess
        /\ code \in UnsavedCodes => saved = <<>>

LEMMA ExitStep ==
    TypeInv /\ PlaceInv /\ RunInv /\ OutInv /\ ExitInv /\ [Next]_vars => ExitInv'
<1> SUFFICES ASSUME TypeInv, PlaceInv, RunInv, OutInv, ExitInv, [Next]_vars, phase' = "exited"
             PROVE  ExitInv'
  BY DEF ExitInv
<1>b. options.log \in BOOLEAN
  BY TypeParts, OptionsAssumption DEF TypeInv, RunTypes, RunOptions
<1>1. ASSUME NEW i \in 1..5, Setup(i) PROVE ExitInv'
  <2>1. phase \in SetupNames /\ UNCHANGED <<loopVars, trackerVars, options, saved>>
        /\ code' \in {ExitRuntime, ExitTimeout, ExitSchemaValidation, ExitSessionFailure, ExitCLIUsage}
    BY <1>1, SetupSteps DEF SetupNames, stored
  <2>2. runRow.status = "absent" /\ saved = <<>>
    BY <2>1 DEF PlaceInv, RunInv, OutInv, Early, SetupNames
  <2>3. code' # ExitSuccess
    BY <2>1
  <2> QED BY <2>1, <2>2, <2>3 DEF ExitInv, trackerVars
<1>2. CASE Render /\ code' = ExitSuccess
  <2>1. phase = "render" /\ UNCHANGED <<loopVars, trackerVars, options, saved>>
    BY <1>2 DEF Render, stored
  <2>2. /\ pc = "done" /\ ~lost
        /\ saved = IF SaveAsked THEN Stored(newMessages) ELSE <<>>
        /\ runRow.status = IF options.log THEN "success" ELSE "absent"
        /\ options.log => runRow = [status |-> "success", exit |-> ExitSuccess, tokens |-> usage]
    BY <1>b, <2>1 DEF PlaceInv, RunInv, OutInv, After, Tracker!NoRun
  <2>3. SaveAsked' = SaveAsked /\ Stored(newMessages)' = Stored(newMessages)
    BY <2>1 DEF loopVars, SaveAsked, Stored
  <2>4. code' \notin UnsavedCodes
    BY <1>2 DEF UnsavedCodes
  <2> QED BY <1>b, <1>2, <2>1, <2>2, <2>3, <2>4 DEF ExitInv, loopVars, trackerVars
<1>3. CASE CloseRun
  <2>1. /\ phase = "close" /\ UNCHANGED <<loopVars, options, saved, runID>>
        /\ code' \in {ExitSessionFailure, pending.code} /\ code' # ExitSuccess
        /\ ~lost' => runID = 0 \/ runRow' = [status |-> "error", exit |-> code', tokens |-> usage]
        /\ runRow' = runRow \/ (runRow'.status = "error" /\ runRow'.exit = code')
        /\ runID = 0 => runRow' = runRow
    BY <1>3, CloseRunEnds
  <2>2. ~lost' /\ runRow'.status # "absent" =>
           runRow'.exit = code' /\ runRow'.tokens = usage' /\ runRow'.status = "error"
    BY <2>1 DEF RunInv, loopVars
  <2>3. code' \in UnsavedCodes => saved' = <<>>
    BY <2>1 DEF OutInv, LateCodes, UnsavedCodes
  <2>4. runRow'.status = "error" => runRow'.exit = code'
    BY <2>1 DEF RunInv
  <2> QED BY <2>1, <2>2, <2>3, <2>4 DEF ExitInv
<1>4. CASE UNCHANGED vars
  <2>1. UNCHANGED <<phase, code, pc, lost, saved, runRow, options, usage, newMessages>>
    BY <1>4 DEF vars, loopVars, trackerVars, runVars, stored
  <2>2. SaveAsked' = SaveAsked /\ Stored(newMessages)' = Stored(newMessages)
    BY <2>1 DEF SaveAsked, Stored
  <2> QED BY <2>1, <2>2 DEF ExitInv
<1> QED BY <1>1, <1>2, <1>3, <1>4, ExitSteps

-----------------------------------------------------------------------------
(* What a deadline leaves behind. *)

\* How far the run can come once the deadline has passed, by the place it passed at,
\* and what it is about to end with.
ExpiryInv ==
    Expired =>
        /\ usage = expiry.answers
        /\ expiry.phase \in SetupNames =>
              /\ phase \in SetupNames \cup {"exited"} /\ pc = "start" /\ saved = <<>>
              /\ phase = "exited" => code # ExitSuccess
        /\ expiry.phase \in {"preflight", "loop", "validate"} =>
              /\ phase \in {"preflight", "loop", "validate", "finish", "close", "exited"}
              /\ saved = <<>>
        /\ expiry.phase \in {"save", "check"} =>
              phase \in {"save", "check", "finish", "close", "exited"}
        /\ expiry.phase \in {"finalize", "render", "finish"} =>
              phase \in {"finalize", "render", "finish", "close", "exited"}
        /\ expiry.phase \in {"preflight", "loop", "validate", "save", "check"} =>
              /\ phase = "close" => pending = Typed(ExitTimeout)
              /\ phase = "exited" => code = ExitTimeout
        /\ expiry.phase \in {"finalize", "render", "finish"} =>
              /\ phase = "close" => pending = Typed(ExitTimeout)
              /\ phase = "exited" /\ pending # NoError => code = ExitTimeout

\* The deadline passes once, and nothing else changes what is noted of it.
LEMMA ExpirySteps ==
    ASSUME [Next]_vars, Expired'
    PROVE  \/ Expired /\ UNCHANGED <<ctx, expiry>>
           \/ Expire
<1> USE DEF Expired
<1>1. CASE Outside
  <2>1. ASSUME NEW i \in 1..5, Setup(i) PROVE UNCHANGED <<ctx, expiry>>
    BY <2>1, SetupSteps DEF loopVars
  <2>2. CASE Preflight \/ LoopReturns \/ Validate \/ Save \/ CheckDeadline \/ FinalizeSuccess
             \/ Render \/ FinishError \/ CloseRun
    BY <2>2 DEF Preflight, LoopReturns, Validate, Save, CheckDeadline, FinalizeSuccess, Render,
                FinishError, CloseRun, loopVars
  <2>3. ~Interrupt
    BY DEF Interrupt, Loop!Interrupt
  <2>4. CASE UNCHANGED vars
    BY <2>4 DEF vars, loopVars
  <2> QED BY <1>1, <2>1, <2>2, <2>3, <2>4 DEF Outside
<1>2. CASE Asks \/ Acts
  BY <1>2 DEF Asks, Acts, Unlogged, InLoop
<1>3. CASE LoopStart \/ ProviderResponds \/ AdmitCall
  BY <1>3 DEF LoopStart, ProviderResponds, AdmitCall, InLoop, Loop!LoopStart, Loop!ProviderRefuses,
              Loop!ProviderAsksTools, Loop!ProviderAnswers, Loop!Responded, Loop!AdmitCall
<1>4. CASE ResultLogged \/ CommandLogged \/ RecordResult
  <2>1. Loop!ToolResultHookFails \/ UNCHANGED loopVars \/ Loop!RecordResult
    BY <1>4 DEF ResultLogged, CommandLogged, RecordResult
  <2>2. ctx' = ctx
    BY <2>1 DEF Loop!ToolResultHookFails, loopVars, Loop!RecordResult
  <2> QED BY <1>4, <2>2 DEF ResultLogged, CommandLogged, RecordResult, InLoop
<1> QED BY <1>1, <1>2, <1>3, <1>4, StepKinds

LEMMA ExpiryStep ==
    TypeInv /\ PlaceInv /\ RunInv /\ OutInv /\ ExpiryInv /\ [Next]_vars => ExpiryInv'
<1> SUFFICES ASSUME TypeInv, PlaceInv, RunInv, OutInv, ExpiryInv, [Next]_vars, Expired'
             PROVE  ExpiryInv'
  BY DEF ExpiryInv
<1>p. phase \in Places
  BY TypeParts DEF TypeInv, RunTypes
<1>c. (\A c : Typed(c).code = c /\ Typed(c).typed) /\ \A e \in ValidationErrors : e.code # ExitSuccess
  BY DEF Typed, Untyped, ValidationErrors
<1>1. CASE Expire
  <2>1. /\ UNCHANGED <<phase, pending, saved, code, pc, usage>> /\ phase # "exited"
        /\ expiry'.phase = phase /\ expiry'.answers = usage
    BY <1>1 DEF Expire, Loop!Expire, Loop!transcript, Loop!telemetry, runVars, stored
  <2>2. phase \in SetupNames => pc = "start" /\ saved = <<>>
    BY DEF PlaceInv, OutInv, Early, SetupNames
  <2>3. phase \in {"preflight", "loop", "validate"} => saved = <<>>
    BY DEF OutInv
  <2> QED BY <1>p, <2>1, <2>2, <2>3 DEF ExpiryInv, SetupNames
<1>2. ASSUME Expired, UNCHANGED <<ctx, expiry>> PROVE ExpiryInv'
  <2>1. CASE Outside
    <3>1. UNCHANGED <<pc, usage>>
      BY <2>1, OutsideSteps DEF Elsewhere
    <3>2. ASSUME NEW i \in 1..5, Setup(i) PROVE ExpiryInv'
      <4>1. /\ phase \in SetupNames
            /\ phase' \in SetupNames \/ (phase' = "exited" /\ code' # ExitSuccess)
            /\ saved' = saved
        BY <1>2, <3>2, SetupSteps DEF stored
      <4> QED BY <1>2, <3>1, <4>1 DEF ExpiryInv, SetupNames
    <3>3. CASE Preflight \/ LoopReturns \/ Validate \/ CheckDeadline \/ FinalizeSuccess
      <4>1. /\ phase' = "finish" \/ <<phase, phase'>> \in {<<"preflight", "loop">>, <<"finalize", "render">>}
            /\ phase \in {"preflight", "loop", "validate", "check", "finalize"}
            /\ saved' = saved
        BY <1>2, <3>3 DEF Preflight, LoopReturns, Validate, CheckDeadline, FinalizeSuccess, Fails, stored
      <4> QED BY <1>2, <3>1, <4>1 DEF ExpiryInv, SetupNames
    <3>4. CASE Save
      <4>1. phase = "save" /\ phase' \in {"check", "finish"}
        BY <3>4 DEF Save, Fails
      <4> QED BY <1>2, <3>1, <4>1 DEF ExpiryInv, SetupNames
    <3>5. CASE Render
      <4>1. /\ phase = "render" /\ saved' = saved
            /\ phase' = "finish" \/ (phase' = "exited" /\ pending' = pending)
        BY <3>5 DEF Render, Fails, Exit, stored
      <4>2. pending = NoError
        BY <4>1 DEF OutInv
      <4> QED BY <1>2, <3>1, <4>1, <4>2 DEF ExpiryInv, SetupNames, NoError
    <3>6. CASE FinishError
      <4>1. /\ phase = "finish" /\ phase' = "close" /\ saved' = saved
            /\ pending' = Typed(ExitTimeout)
        BY <1>2, <3>6 DEF FinishError, NormalizeInvocationError, stored
      <4>2. Typed(ExitTimeout)' = Typed(ExitTimeout)
        BY DEF Typed
      <4> QED BY <1>2, <3>1, <4>1, <4>2 DEF ExpiryInv, SetupNames
    <3>7. CASE CloseRun
      <4>1. /\ phase = "close" /\ phase' = "exited" /\ UNCHANGED <<saved, pending>>
            /\ pending = Typed(ExitTimeout) => code' = ExitTimeout
        BY <1>c, <3>7, CloseRunEnds DEF CloseRun, Exit
      <4> QED BY <1>2, <3>1, <4>1 DEF ExpiryInv, SetupNames
    <3>8. CASE Interrupt \/ UNCHANGED vars
      <4>1. UNCHANGED <<phase, saved, pending, code>>
        BY <3>8 DEF Interrupt, vars, runVars, stored
      <4>2. Typed(ExitTimeout)' = Typed(ExitTimeout)
        BY DEF Typed
      <4>3. NoError' = NoError
        BY DEF NoError
      <4> QED BY <1>2, <3>1, <4>1, <4>2, <4>3 DEF ExpiryInv
    <3>9. CASE Expire
      BY <1>1, <3>9
    <3> QED BY <2>1, <3>2, <3>3, <3>4, <3>5, <3>6, <3>7, <3>8, <3>9 DEF Outside
  <2>2. CASE Asks \/ Acts \/ LoopStart \/ ProviderResponds \/ AdmitCall
             \/ ResultLogged \/ CommandLogged \/ RecordResult
    <3>1. phase = "loop" /\ phase' = "loop" /\ saved' = saved
      BY <2>2 DEF Asks, Acts, Unlogged, LoopStart, ProviderResponds, AdmitCall, ResultLogged,
                  CommandLogged, RecordResult, InLoop
    <3>2. usage' = usage
      <4>1. CASE Asks \/ Acts
        BY <4>1 DEF Asks, Acts
      <4>2. ~ProviderResponds
        BY <1>2 DEF ProviderResponds, Loop!ProviderRefuses, Loop!ProviderAsksTools,
                    Loop!ProviderAnswers, Loop!Responded, Loop!Expired, Expired
      <4>3. CASE LoopStart \/ AdmitCall
        BY <4>3 DEF LoopStart, AdmitCall, Loop!LoopStart, Loop!AdmitCall, Loop!telemetry
      <4>4. CASE ResultLogged \/ CommandLogged \/ RecordResult
        <5>1. Loop!ToolResultHookFails \/ UNCHANGED loopVars \/ Loop!RecordResult
          BY <4>4 DEF ResultLogged, CommandLogged, RecordResult
        <5> QED BY <5>1 DEF Loop!ToolResultHookFails, loopVars, Loop!RecordResult, Loop!telemetry
      <4> QED BY <2>2, <4>1, <4>2, <4>3, <4>4
    <3> QED BY <1>2, <3>1, <3>2 DEF ExpiryInv, SetupNames
  <2> QED BY <2>1, <2>2, StepKinds
<1> QED BY <1>1, <1>2, ExpirySteps

\* What is kept of a turn's messages is captured, or part of a call.
LEMMA MessagesCaptured ==
    ASSUME TypeInv, ~input.planOnly, NEW m, NEW k \in MessageParts(m)
    PROVE  k.part \in Captured \/ k.in \in CallPlaces
<1> DEFINE results == Discloses(RedactToolResult(Captured, MessageResult(m)))
           named   == MessageCommands(StoredMessage(m))
<1>1. results \subseteq Captured
  BY Redacted, CapturedParts, ResultKinds DEF TypeInv
<1>2. MessageParts(m) = Keep("session", results) \cup Keep("session calls", named)
  BY DEF MessageParts
<1> HIDE DEF results, named
<1> QED BY <1>1, <1>2 DEF Keep, CallPlaces

\* Every place a command's result is kept in asks the mode first.
LEMMA CaptureStep == TypeInv /\ RunsCaptureHonoured /\ [Next]_vars => RunsCaptureHonoured'
<1> SUFFICES ASSUME TypeInv, RunsCaptureHonoured, [Next]_vars PROVE RunsCaptureHonoured'
  OBVIOUS
<1>t. Captured \subseteq Parts
  BY CapturedParts DEF TypeInv
<1>k. ASSUME UNCHANGED <<options, input>>,
             ~input.planOnly => \A k \in kept' : k \in kept \/ k.part \in Captured \/ k.in \in CallPlaces
      PROVE  RunsCaptureHonoured'
  BY <1>k DEF RunsCaptureHonoured, Captured, CallPlaces
<1>s. ASSUME UNCHANGED <<options, input, kept>> PROVE RunsCaptureHonoured'
  BY <1>s DEF RunsCaptureHonoured, Captured, CallPlaces
<1>1. CASE Outside
  <2>1. UNCHANGED <<options, input>>
    BY <1>1, OutsideSteps DEF Elsewhere
  <2>2. CASE Save
    <3>1. kept' = kept \/ KeepMessages(newMessages)
      BY <2>2 DEF Save, stored
    <3>2. ASSUME ~input.planOnly, NEW k \in kept', k \notin kept
          PROVE  k.part \in Captured \/ k.in \in CallPlaces
      <4>1. PICK i \in DOMAIN newMessages : k \in MessageParts(newMessages[i])
        BY <3>1, <3>2 DEF KeepMessages
      <4> QED BY <3>2, <4>1, MessagesCaptured
    <3> QED BY <1>k, <2>1, <3>2
  <2>3. Save \/ kept' = kept
    <3>1. ASSUME NEW i \in 1..5, Setup(i) PROVE kept' = kept
      BY <3>1, SetupSteps DEF stored
    <3>2. CASE Preflight \/ LoopReturns \/ Validate \/ CheckDeadline \/ FinalizeSuccess \/ Render
               \/ FinishError \/ CloseRun
      BY <3>2 DEF Preflight, LoopReturns, Validate, CheckDeadline, FinalizeSuccess, Render,
                  FinishError, CloseRun, stored
    <3>3. CASE Expire \/ Interrupt \/ UNCHANGED vars
      BY <3>3 DEF Expire, Interrupt, vars, runVars, stored
    <3> QED BY <1>1, <3>1, <3>2, <3>3 DEF Outside
  <2> QED BY <1>s, <2>1, <2>2, <2>3
<1>2. CASE Asks \/ Acts
  BY <1>2, <1>s DEF Asks, Acts, Unlogged, InLoop
<1>3. CASE LoopStart \/ ProviderResponds
  BY <1>3, <1>s DEF LoopStart, ProviderResponds, InLoop, Loop!LoopStart,
                    Loop!ProviderRefuses, Loop!ProviderAsksTools, Loop!ProviderAnswers
\* What a step keeps besides.
<1>n. ASSUME UNCHANGED <<options, input>>, NEW place, NEW parts,
             kept' = kept \/ kept' = kept \cup Keep(place, parts),
             place \in CallPlaces \/ (~input.planOnly => parts \subseteq Captured)
      PROVE  RunsCaptureHonoured'
  <2>1. ASSUME NEW k \in kept', ~input.planOnly PROVE k.part \in Captured \/ k.in \in CallPlaces
    <3>1. CASE k \in kept
      BY <2>1, <3>1 DEF RunsCaptureHonoured
    <3>2. ASSUME NEW x \in parts, k = [in |-> place, part |-> x]
          PROVE  k.part \in Captured \/ k.in \in CallPlaces
      BY <1>n, <2>1, <3>2
    <3> QED BY <1>n, <2>1, <3>1, <3>2 DEF Keep
  <2> QED BY <1>k, <1>n, <2>1
<1>4. CASE AdmitCall
  <2>1. UNCHANGED <<options, input>>
    BY <1>4 DEF AdmitCall, InLoop, Loop!AdmitCall
  <2>2. kept' = kept \/ kept' = kept \cup Keep("request", CommandText(Head(calls)))
    BY <1>4 DEF AdmitCall
  <2> QED BY <1>n, <2>1, <2>2 DEF CallPlaces
<1>5. CASE ResultLogged \/ CommandLogged
  <2>1. UNCHANGED <<options, input>>
    <3>1. Loop!ToolResultHookFails \/ UNCHANGED loopVars
      BY <1>5 DEF ResultLogged, CommandLogged
    <3> QED BY <1>5, <3>1 DEF ResultLogged, CommandLogged, InLoop, Loop!ToolResultHookFails, loopVars
  <2> DEFINE a == Discloses(RedactToolResult(Captured, ShellResult))
             b == ShellResult.command \cap Captured
  <2>2. (~input.planOnly => a \subseteq Captured) /\ (~input.planOnly => b \subseteq Captured)
    BY <1>t, Redacted, ResultKinds
  <2>3. kept' = kept \/ kept' = kept \cup Keep("tool row", a) \/ kept' = kept \cup Keep("shell row", b)
    BY <1>5 DEF ResultLogged, CommandLogged
  <2> HIDE DEF a, b
  <2> QED BY <1>n, <2>1, <2>2, <2>3
<1>6. CASE RecordResult
  BY <1>6, <1>s DEF RecordResult, InLoop, Loop!RecordResult
<1> QED BY <1>1, <1>2, <1>3, <1>4, <1>5, <1>6, StepKinds

-----------------------------------------------------------------------------
(* What is saved can be sent again. *)

LEMMA LoopInvStep ==
    TypeInv /\ Run!TranscriptAnswered /\ Run!TurnInv /\ [Next]_vars =>
        Run!TranscriptAnswered' /\ Run!TurnInv'
<1> SUFFICES ASSUME TypeInv, Run!TranscriptAnswered, Run!TurnInv, [Next]_vars
             PROVE  Run!TranscriptAnswered' /\ Run!TurnInv'
  OBVIOUS
<1>1. Run!TypeOK /\ [Run!Next]_(Run!vars)
  BY LoopSteps, SameTypes, TypeParts DEF TypeInv, loopVars, Run!vars
<1>2. Run!TranscriptAnswered'
  BY <1>1, Run!TranscriptStep, RunAssumptions
<1>3. Run!TurnInv'
  BY <1>1, Run!TurnStep, RunAssumptions
<1> QED BY <1>2, <1>3

\* Without the plain messages before it, a transcript answers as much as with them.
LEMMA AnswersWithoutPrefix ==
    ASSUME NEW p \in Seq(Loop!Message), NEW s \in Seq(Loop!Message), Run!Plain(p),
           Run!Answers(p \o s, <<>>)
    PROVE  Run!Answers(s, <<>>)
<1> DEFINE t == p \o s
           n == Len(p)
<1>1. /\ n \in Nat /\ Len(s) \in Nat /\ Len(t) = n + Len(s)
      /\ \A i \in 1..Len(s) : t[n + i] = s[i]
      /\ \A i \in 1..n : t[i] = p[i]
  OBVIOUS
<1>2. \A i \in 1..Len(s) : Len(s[i].calls) \in Nat /\ s[i] \in Loop!Message
  <2>1. \A m \in Loop!Message : Len(m.calls) \in Nat
    BY DEF Loop!Message
  <2> QED BY <2>1
<1> HIDE DEF t
<1>3. Run!Answers(t, <<>>)
  BY DEF t
<1>4. Run!CallsAnswered(s, <<>>)
  <2> SUFFICES ASSUME NEW i \in 1..Len(s), s[i].role = "assistant", NEW k \in 1..Len(s[i].calls)
               PROVE  IF i + k <= Len(s)
                      THEN s[i + k].role = "tool" /\ s[i + k].calls = <<s[i].calls[k]>>
                      ELSE i + k - Len(s) <= Len(<<>>) /\ <<>>[i + k - Len(s)] = s[i].calls[k]
    BY DEF Run!CallsAnswered, Run!AssistantAt
  <2>1. n + i \in 1..Len(t) /\ t[n + i] = s[i] /\ k \in Nat /\ k >= 1
    BY <1>1, <1>2
  <2>2. IF n + i + k <= Len(t)
        THEN t[n + i + k].role = "tool" /\ t[n + i + k].calls = <<s[i].calls[k]>>
        ELSE n + i + k - Len(t) <= 0
    BY <1>3, <2>1 DEF Run!Answers, Run!CallsAnswered, Run!AssistantAt
  <2>3. i + k <= Len(s)
    BY <1>1, <2>1, <2>2
  <2>4. t[n + (i + k)] = s[i + k] /\ n + i + k = n + (i + k) /\ n + i + k <= Len(t)
    BY <1>1, <2>1, <2>3
  <2> QED BY <2>2, <2>3, <2>4
<1>5. Run!ResultsAsked(s)
  <2> SUFFICES ASSUME NEW j \in 1..Len(s), s[j].role = "tool"
               PROVE  \E i \in 1..(j - 1) : s[i].role = "assistant" /\ j - i <= Len(s[i].calls)
    BY DEF Run!ResultsAsked, Run!AssistantAt
  <2>1. n + j \in 1..Len(t) /\ t[n + j].role = "tool"
    BY <1>1
  <2> DEFINE J == n + j
  <2>a. J \in 1..Len(t) /\ t[J].role = "tool"
    BY <2>1
  <2> HIDE DEF J
  <2>b. PICK i \in 1..(J - 1) : t[i].role = "assistant" /\ J - i <= Len(t[i].calls)
    BY <1>3, <2>a DEF Run!Answers, Run!ResultsAsked, Run!AssistantAt
  <2>2. i \in 1..(n + j - 1) /\ t[i].role = "assistant" /\ n + j - i <= Len(t[i].calls)
    BY <2>b DEF J
  <2>3. ~(i <= n)
    <3> SUFFICES ASSUME i <= n PROVE FALSE
      OBVIOUS
    <3>1. i \in 1..n /\ t[i] = p[i]
      BY <1>1
    <3> QED BY <2>2, <3>1 DEF Run!Plain
  <2>4. i - n \in 1..(j - 1) /\ n + (i - n) = i /\ i - n \in 1..Len(s)
    BY <1>1, <2>2, <2>3
  <2>5. t[i] = s[i - n]
    BY <1>1, <2>4
  <2> QED BY <1>1, <2>2, <2>4, <2>5
<1>6. Run!RestOwed(s, <<>>)
  BY DEF Run!RestOwed
<1> QED BY <1>4, <1>5, <1>6 DEF Run!Answers

\* A turn with no garbled arguments is stored as it is.
LEMMA StoredWhole ==
    ASSUME newMessages \in Seq(Loop!Message), ~Garbled
    PROVE  Stored(newMessages) = newMessages
<1>1. \A k \in DOMAIN newMessages : StoredMessage(newMessages[k]) = newMessages[k]
  BY DEF StoredMessage, Garbled
<1> QED BY <1>1 DEF Stored

LEMMA TurnWhole ==
    TypeInv /\ OutInv /\ Run!TranscriptAnswered /\ Run!TurnInv => SavedTurnWhole
<1> SUFFICES ASSUME TypeInv, OutInv, Run!TranscriptAnswered, Run!TurnInv, saved # <<>>, ~Garbled
             PROVE  /\ Loop!Answers(input.session \o saved, <<>>)
                    /\ saved[Len(saved)] = Loop!Assistant(<<>>)
  BY DEF SavedTurnWhole
<1>1. input \in Inputs /\ newMessages \in Seq(Loop!Message) /\ step \in Nat
  BY TypeParts DEF TypeInv, Loop!TypeOK
<1>2. pc = "done" /\ saved = newMessages
  BY <1>1, StoredWhole DEF OutInv
<1>3. /\ Run!Answers(messages, <<>>)
      /\ messages = Run!SystemStack(input) \o input.session \o newMessages
      /\ newMessages[Len(newMessages)] = Run!Assistant(<<>>)
  BY <1>1, <1>2 DEF Run!TranscriptAnswered, Run!TurnInv, Run!TurnIsTranscriptSuffix
<1>4. /\ Run!SystemStack(input) \in Seq(Loop!Message) /\ input.session \in Seq(Loop!Message)
      /\ Run!Plain(Run!SystemStack(input))
  <2>1. Run!Message = Loop!Message
    BY DEF Run!Message, Loop!Message
  <2> QED BY <1>1, <2>1, Run!PromptTypes, Run!PlainPrompt, RunAssumptions
<1> DEFINE P == Run!SystemStack(input)
           S == input.session
<1>5. P \o S \o newMessages = P \o (S \o newMessages) /\ S \o newMessages \in Seq(Loop!Message)
  <2> HIDE DEF P, S
  <2>1. P \in Seq(Loop!Message) /\ S \in Seq(Loop!Message)
    BY <1>4 DEF P, S
  <2> QED BY <1>1, <2>1
<1>6. Run!Answers(S \o newMessages, <<>>)
  BY <1>3, <1>4, <1>5, AnswersWithoutPrefix
<1>7. Loop!Answers(S \o newMessages, <<>>)
  BY <1>6, SameAnswers
<1> QED BY <1>2, <1>3, <1>7 DEF Loop!Assistant, Run!Assistant

-----------------------------------------------------------------------------
(* The inductive invariant, and the theorems that follow from it. *)

IInv == /\ TypeInv /\ PlaceInv /\ RunInv /\ RowsInv /\ EffInv /\ OutInv /\ ExitInv /\ ExpiryInv
        /\ RunsCaptureHonoured
        /\ Run!TranscriptAnswered /\ Run!TurnInv

LEMMA IInvInit == Init => IInv
<1> SUFFICES ASSUME Init PROVE IInv
  OBVIOUS
<1>1. TypeInv /\ Run!Init
  BY TypeInit, SameInit DEF Init
<1>2. /\ pc = "start" /\ exit = ExitSuccess /\ newMessages = <<>> /\ effects = <<>> /\ usage = 0
      /\ step = 0
  BY DEF Init, Loop!Init
<1>3. /\ runRow = Tracker!NoRun /\ runRow.status = "absent" /\ runID = 0 /\ toolRows = <<>>
      /\ tracked = 0 /\ lost = FALSE
  BY DEF Init, Tracker!Init, Tracker!NoRun
<1>4. /\ phase = "stdin" /\ hook = "none" /\ pending = NoError /\ saved = <<>> /\ kept = {}
  BY DEF Init, SetupPhases
<1>9. ~Expired
  BY DEF Init, Loop!Init, Expired
<1>5. PlaceInv /\ RunInv /\ OutInv /\ ExitInv /\ ExpiryInv /\ RunsCaptureHonoured
  BY <1>2, <1>3, <1>4, <1>9
     DEF ExpiryInv, PlaceInv, RunInv, OutInv, ExitInv, RunsCaptureHonoured, Early, After, SetupNames
<1>6. RowsInv
  <2>1. Results(newMessages) = {} /\ Len(toolRows) = 0
    BY <1>2, <1>3 DEF Results
  <2>2. Cardinality(Results(newMessages)) = 0
    BY <2>1, FS_EmptySet
  <2> QED BY <1>2, <2>1, <2>2 DEF RowsInv, RowsOf, Acting
<1>7. EffInv
  <2>1. \A c, k : {i \in DOMAIN effects : effects[i].call = c /\ effects[i].step = k} = {}
                  /\ {i \in DOMAIN toolRows : toolRows[i].call = c /\ toolRows[i].step = k} = {}
    BY <1>2, <1>3
  <2>2. \A c, k : Times(effects, c, k) = 0 /\ Times(toolRows, c, k) = 0
    BY <2>1, FS_EmptySet DEF Times
  <2> QED BY <1>2, <2>2 DEF EffInv
<1>8. Run!TranscriptAnswered /\ Run!TurnInv
  <2>1. Run!TranscriptAnswered
    BY <1>1, Run!TranscriptInit, RunAssumptions
  <2> QED BY <1>2, <2>1 DEF Run!TurnInv, Run!TurnIsTranscriptSuffix
<1> QED BY <1>1, <1>5, <1>6, <1>7, <1>8 DEF IInv

LEMMA IInvStep == IInv /\ [Next]_vars => IInv'
<1> SUFFICES ASSUME IInv, [Next]_vars PROVE IInv'
  OBVIOUS
<1> USE DEF IInv
<1>1. TypeInv'
  BY TypeStep
<1>2. PlaceInv'
  BY PlaceStep
<1>3. RunInv'
  BY RunInvStep
<1>4. RowsInv'
  BY RowsStep
<1>5. EffInv'
  BY EffStep
<1>6. OutInv'
  BY OutStep
<1>7. ExitInv'
  BY ExitStep
<1>10. ExpiryInv'
  BY ExpiryStep
<1>8. RunsCaptureHonoured'
  BY CaptureStep
<1>9. Run!TranscriptAnswered' /\ Run!TurnInv'
  BY LoopInvStep
<1> QED BY <1>1, <1>2, <1>3, <1>4, <1>5, <1>6, <1>7, <1>8, <1>9, <1>10

\* The invariant holds in every state of an invocation.
THEOREM Invariant == Spec => []IInv
BY IInvInit, IInvStep, PTL DEF Spec

\* With run logging on, every tool that has run has a row of its own, written before
\* it ran, wherever the process is killed (agent.go runs OnToolCall first, store.go
\* inserts the row there).
THEOREM EffectsAlwaysLogged == Spec => []EffectsAreLogged
<1>1. IInv => EffectsAreLogged
  BY EffectsLogged DEF IInv
<1> QED BY <1>1, Invariant, PTL

\* The transcript's results are the first rows of the log, in order and with their
\* status, and at most one row is ahead, also when a provider uses a call id twice
\* (store.go, OnToolCall and OnToolResult).
THEOREM LogAlwaysMatchesTranscript == Spec => []LogMatchesTranscript
<1>1. IInv => LogMatchesTranscript
  BY RowsMatch DEF IInv
<1> QED BY <1>1, Invariant, PTL

\* No row of a process that ended by itself is left running, unless a statement was
\* lost (cmd_run.go, finishError and the success path; store.go, finish).
THEOREM NothingEverLeftRunning == Spec => []NothingLeftRunning
<1>1. IInv => NothingLeftRunning
  <2> SUFFICES ASSUME IInv, phase = "exited", ~lost
               PROVE  /\ runRow.status # "running"
                      /\ \A i \in DOMAIN toolRows : toolRows[i].status # "running"
    BY DEF NothingLeftRunning
  <2>1. runRow.status # "running"
    BY DEF IInv, ExitInv
  <2>2. options.log \in BOOLEAN /\ toolRows \in Seq(Tracker!ToolRow) /\ newMessages \in Seq(Loop!Message)
    BY TypeParts, OptionsAssumption
       DEF IInv, TypeInv, RunTypes, RunOptions, Tracker!TypeOK, Loop!TypeOK
  <2>3. CASE ~options.log
    BY <2>1, <2>3 DEF IInv, RunInv
  <2>4. CASE options.log
    <3>1. pc \notin Acting
      BY DEF IInv, PlaceInv, Acting
    <3>2. /\ Len(toolRows) = Cardinality(Results(newMessages))
          /\ \A i \in 1..Cardinality(Results(newMessages)) : toolRows[i].status # "running"
      BY <2>4, <3>1 DEF IInv, RowsInv, RowsOf
    <3>3. DOMAIN toolRows = 1..Len(toolRows)
      BY <2>2
    <3> QED BY <2>1, <3>2, <3>3
  <2> QED BY <2>2, <2>3, <2>4
<1> QED BY <1>1, Invariant, PTL

\* The run row that a process leaves behind has its exit code, a status that agrees
\* with it and all the loop's tokens, whatever was overridden or joined on the way
\* out; an error in it is the process's even when a statement was lost (cmd_run.go,
\* finishError; store.go, FinalizeError without usage).
THEOREM RunRowAlwaysTrue == Spec => []RunRowTrue
<1>1. IInv => RunRowTrue
  BY DEF IInv, ExitInv, RunRowTrue
<1> QED BY <1>1, Invariant, PTL

\* Exit code 0 means that the loop answered, the turn was saved if it was to be, the
\* run row says success and no statement was lost (cmd_run.go's success path).
THEOREM SuccessAlwaysComplete == Spec => []SuccessIsComplete
<1>1. IInv => SuccessIsComplete
  BY DEF IInv, ExitInv, SuccessIsComplete
<1> QED BY <1>1, Invariant, PTL

\* A turn that is saved, with no garbled arguments in it, answers every call it has
\* behind the loaded history and ends with an answer (cmd_run.go's AppendMessages and
\* agent.go's NewMessages).
THEOREM SavedTurnAlwaysWhole == Spec => []SavedTurnWhole
<1>1. IInv => SavedTurnWhole
  BY TurnWhole DEF IInv
<1> QED BY <1>1, Invariant, PTL

\* What a deadline does follows from the place it passes at: no answer is used after
\* it, no turn is saved that it found unsaved, the loop does not start behind it, and
\* up to the moment finishError reads it a run that fails ends with the timeout's code
\* (the reads of the deadline in cmd_run.go; agent.go behind Complete).
THEOREM TimeoutAlwaysReported == Spec => []TimeoutReported
<1>1. IInv => TimeoutReported
  BY SetupNamed DEF IInv, ExpiryInv, TimeoutReported
<1> QED BY <1>1, Invariant, PTL

\* A run that ends with one of these codes has left nothing in its session, so that a
\* script can repeat it (the order of cmd_run.go: validation before saving).
THEOREM AlwaysUnsavedByCode == Spec => []UnsavedByCode
<1>1. IInv => UnsavedByCode
  BY DEF IInv, ExitInv, UnsavedByCode
<1> QED BY <1>1, Invariant, PTL

\* Outside plan mode the database keeps no part of a command's result that the mode
\* does not capture, in the log or in the session; the text of the calls is kept as
\* the provider sent it (store.go's redaction of tool results, cmd_run.go's
\* redactPersistedMessages).
THEOREM RunsCaptureAlwaysHonoured == Spec => []RunsCaptureHonoured
<1>1. IInv => RunsCaptureHonoured
  BY DEF IInv
<1> QED BY <1>1, Invariant, PTL

\* An invocation implements the agent loop: with the run log's statements as its hooks
\* and everything around it, what the loop does is a behaviour of AgentLoop, so what
\* is proved of every such behaviour holds of the loop in every invocation.
THEOREM InvocationImplementsLoop == Spec => Loop!Spec
<1>1. Init => Loop!Init
  BY DEF Init
<1>2. [Next]_vars => [Loop!Next]_(Loop!vars)
  BY LoopSteps, SameNext DEF loopVars, Loop!vars
<1> QED BY <1>1, <1>2, PTL DEF Spec, Loop!Spec

\* What AgentLoop promises is kept inside an invocation, whatever the run log's statements
\* do between its steps: every call is answered (agent.go:94-207), requests, failures and
\* late effects are bounded, nothing acts that the mode does not admit. Run is the loop
\* with this module's variables, as the theorems about it are stated.
THEOREM LoopKeepsPromises ==
  Spec => [](/\ Run!TranscriptAnswered
             /\ Run!RequestsBounded
             /\ Run!BudgetHonoured
             /\ Run!EffectsAuthorised
             /\ Run!LateEffectsBounded)
<1>1. Spec => Run!Spec
  <2>1. Init => Run!Init
    BY SameInit DEF Init
  <2>2. [Next]_vars => [Run!Next]_(Run!vars)
    BY LoopSteps DEF loopVars, Run!vars
  <2> QED BY <2>1, <2>2, PTL DEF Spec, Run!Spec
<1>2. Run!Spec => []Run!TranscriptAnswered
  BY Run!TranscriptAlwaysAnswered, RunAssumptions
<1>3. Run!Spec => []Run!RequestsBounded
  BY Run!RequestsAlwaysBounded, RunAssumptions
<1>4. Run!Spec => []Run!BudgetHonoured
  BY Run!BudgetAlwaysHonoured, RunAssumptions
<1>5. Run!Spec => []Run!EffectsAuthorised
  BY Run!EffectsAlwaysAuthorised, RunAssumptions
<1>6. Run!Spec => []Run!LateEffectsBounded
  BY Run!LateEffectsAlwaysBounded, RunAssumptions
<1> QED BY <1>1, <1>2, <1>3, <1>4, <1>5, <1>6, PTL

=============================================================================
