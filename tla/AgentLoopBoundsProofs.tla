------------------------- MODULE AgentLoopBoundsProofs -------------------------
(***************************************************************************)
(* Theorems about AgentLoop: its step cap and failure budget, the turn it  *)
(* hands over, and what its tools do after the end of the context.         *)
(*                                                                         *)
(* Only four actions touch the transcript or what is counted beside it:    *)
(* LoopStart, ProviderAsksTools, ProviderAnswers and RecordResult.         *)
(* StepKinds says so, and what every other step does; the proofs split on  *)
(* it.                                                                     *)
(***************************************************************************)
EXTENDS AgentLoopProofs, FiniteSetTheorems, SequenceTheorems

USE DEF ExitSuccess, ExitRuntime, ExitTimeout, ExitRefusal, ExitSchemaValidation,
        ExitToolFailure, ExitShellFailure, ExitSessionFailure, ExitCLIUsage

-----------------------------------------------------------------------------
(* The kinds of step. *)

Asking == {"step", "request", "waiting"}
Acting == {"call", "execute", "running", "record"}

\* A step that leaves the transcript alone: it fails the run, or moves within
\* the asking or the acting half of a step, or goes on to the next step.
Quiet ==
    /\ UNCHANGED <<input, messages, newMessages, failures, toolsUsed>>
    /\ \/ /\ step' = step
          /\ \/ pc' = pc
             \/ pc' = "failed"
             \/ pc \in Asking /\ pc' \in Asking
             \/ pc \in Acting /\ pc' \in Acting
       \/ pc = "call" /\ pc' = "step" /\ step' = step + 1 /\ step < input.maxSteps

\* The loop starts with the prompt stack.
Begins ==
    /\ pc = "start" /\ pc' = "step"
    /\ step' = 1
    /\ messages' = SystemStack(input) \o input.session \o UserTurn(input)
    /\ newMessages' = UserTurn(input)
    /\ UNCHANGED <<input, failures, toolsUsed>>

\* The provider's message is appended, with the calls cs it asks for.
Speaks(cs) ==
    /\ pc = "waiting"
    /\ messages' = Append(messages, Assistant(cs))
    /\ newMessages' = Append(newMessages, Assistant(cs))
    /\ pc' \in {"call", "done", "failed"}
    /\ pc' = "done" => cs = <<>>
    /\ UNCHANGED <<input, step, failures, toolsUsed>>

LEMMA StepKinds ==
    ASSUME TypeOK, [Next]_vars
    PROVE  \/ Quiet
           \/ Begins
           \/ \E cs \in Seq(Calls) : Speaks(cs)
           \/ RecordResult
<1> USE DEF Quiet, Asking, Acting, Fail, telemetry, transcript
<1>1. ASSUME NEW hookErr \in BOOLEAN, LoopStart(hookErr) PROVE Quiet \/ Begins
  BY <1>1 DEF LoopStart, Begins
<1>2. ASSUME NEW hookErr \in BOOLEAN, StepStart(hookErr) PROVE Quiet
  BY <1>2 DEF StepStart
<1>3. ASSUME NEW hookErr \in BOOLEAN, AdmitCall(hookErr) PROVE Quiet
  BY <1>3 DEF AdmitCall
<1>4. CASE SendRequest
  BY <1>4 DEF SendRequest
<1>5. CASE RejectCall
  BY <1>5 DEF RejectCall
<1>6. CASE InvalidArguments
  BY <1>6 DEF InvalidArguments
<1>7. CASE PlanTool
  BY <1>7 DEF PlanTool, ValidArguments
<1>8. CASE StartTool
  BY <1>8 DEF StartTool, ValidArguments
<1>9. CASE ToolResultHookFails
  BY <1>9 DEF ToolResultHookFails
<1>11. CASE EndBatch
  <2>1. step \in Nat /\ input.maxSteps \in Int
    BY InputsAssumption DEF TypeOK, RunInput
  <2> QED BY <1>11, <2>1 DEF EndBatch
<1>12. CASE ResponseTooLate
  BY <1>12 DEF ResponseTooLate
<1>13. CASE ProviderFails
  BY <1>13 DEF ProviderFails
<1>14. CASE StepCompleteFails
  BY <1>14 DEF StepCompleteFails, Responded
<1>15. CASE ProviderRefuses
  BY <1>15 DEF ProviderRefuses, Responded
<1>16. CASE ProviderAsksTools
  BY <1>16, ResponseType DEF ProviderAsksTools, Responded, Speaks
<1>17. ASSUME NEW hookErr \in BOOLEAN, ProviderAnswers(hookErr) PROVE Speaks(<<>>)
  BY <1>17 DEF ProviderAnswers, Responded, Speaks
<1>18. CASE ToolReturns
  BY <1>18 DEF ToolReturns
<1>19. CASE Expire
  BY <1>19 DEF Expire
<1>20. CASE Interrupt
  BY <1>20 DEF Interrupt
<1>21. CASE UNCHANGED vars
  BY <1>21 DEF vars
<1>22. <<>> \in Seq(Calls)
  OBVIOUS
<1> QED
  BY <1>1, <1>2, <1>3, <1>4, <1>5, <1>6, <1>7, <1>8, <1>9, <1>11, <1>12,
     <1>13, <1>14, <1>15, <1>16, <1>17, <1>18, <1>19, <1>20, <1>21, <1>22
     DEF Next, LoopStep, ProviderReturns

\* What RecordResult does to the transcript and to the run.
LEMMA Recorded ==
    ASSUME TypeOK, RecordResult
    PROVE  \E c \in Calls :
              /\ messages' = Append(messages, ResultMessage(c, outcome.err # ExitSuccess))
              /\ newMessages' = Append(newMessages, ResultMessage(c, outcome.err # ExitSuccess))
              /\ toolsUsed' = toolsUsed \cup {c.name}
              /\ pc = "record" /\ pc' \in {"call", "failed"}
              /\ pc' = "call" => IF outcome.err = ExitSuccess
                                 THEN failures' = 0
                                 ELSE /\ failures' = failures + 1
                                      /\ ~input.failFast
                                      /\ ~BudgetExceeded(failures', input.budget)
              /\ UNCHANGED <<input, step>>
<1> DEFINE c   == Head(calls)
           err == NormalizeContextError(outcome.err, FALSE)
           msg == ResultMessage(c, outcome.err # ExitSuccess)
<1>1. c \in Calls
  BY DEF TypeOK, RecordResult
<1>2. err = ExitSuccess <=> outcome.err = ExitSuccess
  BY DEF NormalizeContextError
<1>3. Judge(err) /\ pc = "record"
  BY DEF RecordResult
<1>4. pc' \in {"call", "failed"}
  <2> HIDE DEF err
  <2> QED BY <1>3 DEF Judge, Fail
<1>5. pc' = "call" => IF outcome.err = ExitSuccess
                      THEN failures' = 0
                      ELSE /\ failures' = failures + 1
                           /\ ~input.failFast
                           /\ ~BudgetExceeded(failures', input.budget)
  <2> HIDE DEF err
  <2> QED BY <1>2, <1>3 DEF Judge, Fail
<1>6. /\ messages' = Append(messages, msg) /\ newMessages' = Append(newMessages, msg)
      /\ toolsUsed' = toolsUsed \cup {c.name}
      /\ UNCHANGED <<input, step>>
  BY DEF RecordResult
<1> HIDE DEF c, err
<1> QED BY <1>1, <1>3, <1>4, <1>5, <1>6

-----------------------------------------------------------------------------
(* The turn that is saved. *)

\* Before the loop starts there is no transcript.
TurnInv == TurnIsTranscriptSuffix /\ (step = 0 => pc \in {"start", "failed"})

LEMMA AppendToSuffix ==
    ASSUME NEW s \in Seq(Message), NEW t \in Seq(Message), NEW n \in Seq(Message),
           NEW m \in Message
    PROVE  Append(s \o t \o n, m) = s \o t \o Append(n, m)
<1>1. s \o t \in Seq(Message) /\ (s \o t) \o n \in Seq(Message) /\ <<m>> \in Seq(Message)
  OBVIOUS
<1>2. Append((s \o t) \o n, m) = ((s \o t) \o n) \o <<m>>
  BY <1>1, AppendIsConcat
<1>3. ((s \o t) \o n) \o <<m>> = (s \o t) \o (n \o <<m>>)
  BY <1>1, ConcatAssociative
<1>4. n \o <<m>> = Append(n, m)
  BY AppendIsConcat
<1> QED BY <1>2, <1>3, <1>4

\* Both lists grow by the same message.
LEMMA TurnGrows ==
    ASSUME TypeOK, TurnInv, step > 0, NEW m \in Message,
           messages' = Append(messages, m), newMessages' = Append(newMessages, m),
           input' = input
    PROVE  messages' = SystemStack(input') \o input'.session \o newMessages'
<1>1. input \in Inputs /\ newMessages \in Seq(Message)
  BY DEF TypeOK
<1>2. messages = SystemStack(input) \o input.session \o newMessages
  BY DEF TurnInv, TurnIsTranscriptSuffix
<1>3. SystemStack(input) \in Seq(Message) /\ input.session \in Seq(Message)
  BY <1>1, PromptTypes
<1> QED BY <1>1, <1>2, <1>3, AppendToSuffix

LEMMA TurnStep == TypeOK /\ TurnInv /\ [Next]_vars => TurnInv'
<1> SUFFICES ASSUME TypeOK, TurnInv, [Next]_vars PROVE TurnInv'
  OBVIOUS
<1>t. step \in Nat /\ newMessages \in Seq(Message)
  BY DEF TypeOK
<1>1. CASE Quiet
  BY <1>1, <1>t DEF Quiet, Asking, Acting, TurnInv, TurnIsTranscriptSuffix
<1>2. CASE Begins
  BY <1>2 DEF Begins, TurnInv, TurnIsTranscriptSuffix
<1>3. ASSUME NEW cs \in Seq(Calls), Speaks(cs) PROVE TurnInv'
  <2>1. step > 0 /\ Assistant(cs) \in Message
    BY <1>3, <1>t, AssistantType DEF Speaks, TurnInv
  <2>2. messages' = SystemStack(input') \o input'.session \o newMessages'
    BY <1>3, <2>1, TurnGrows DEF Speaks
  <2>3. newMessages' # <<>> /\ newMessages'[Len(newMessages')] = Assistant(cs)
    BY <1>3, <1>t, <2>1 DEF Speaks
  <2> QED BY <1>3, <2>1, <2>2, <2>3 DEF Speaks, TurnInv, TurnIsTranscriptSuffix
<1>4. CASE RecordResult
  <2>1. PICK m \in Message :
          /\ messages' = Append(messages, m) /\ newMessages' = Append(newMessages, m)
          /\ input' = input /\ step' = step
          /\ pc = "record" /\ pc' \in {"call", "failed"}
    BY <1>4, Recorded, ResultMessageType
  <2>2. step > 0
    BY <1>t, <2>1 DEF TurnInv
  <2>3. messages' = SystemStack(input') \o input'.session \o newMessages'
    BY <2>1, <2>2, TurnGrows
  <2> QED BY <2>1, <2>2, <2>3 DEF TurnInv, TurnIsTranscriptSuffix
<1> QED BY <1>1, <1>2, <1>3, <1>4, StepKinds

\* What a session saves is exactly what the provider was sent behind the prompt
\* stack and the loaded history, closed by an answer if the run is done: no
\* failure, retry or late hook makes the two lists of agent.go part.
THEOREM TurnAlwaysSuffix == Spec => []TurnIsTranscriptSuffix
<1>1. Init => TypeOK /\ TurnInv
  BY TypeInit DEF Init, TurnInv, TurnIsTranscriptSuffix
<1>2. TypeOK /\ TurnInv /\ [Next]_vars => TypeOK' /\ TurnInv'
  BY TypeStep, TurnStep
<1>3. TurnInv => TurnIsTranscriptSuffix
  BY DEF TurnInv
<1> QED BY <1>1, <1>2, <1>3, PTL DEF Spec

-----------------------------------------------------------------------------
(* The step cap. *)

Turns(s) == {i \in DOMAIN s : s[i].role = "assistant"}

LEMMA TurnsCount ==
    ASSUME NEW s \in Seq(Message), NEW m \in Message
    PROVE  /\ Cardinality(Turns(s)) \in Nat
           /\ Cardinality(Turns(Append(s, m))) =
                 Cardinality(Turns(s)) + (IF m.role = "assistant" THEN 1 ELSE 0)
<1>1. IsFiniteSet(Turns(s))
  <2>1. IsFiniteSet(1..Len(s)) /\ Turns(s) \subseteq 1..Len(s)
    BY FS_Interval DEF Turns
  <2> QED BY <2>1, FS_Subset
<1>2. Turns(Append(s, m)) = IF m.role = "assistant" THEN Turns(s) \cup {Len(s) + 1}
                            ELSE Turns(s)
  BY DEF Turns
<1>3. Len(s) + 1 \notin Turns(s)
  BY DEF Turns
<1>4. Cardinality(Turns(s)) \in Nat
  BY <1>1, FS_CardinalityType
<1>5. Cardinality(Turns(s) \cup {Len(s) + 1}) = Cardinality(Turns(s)) + 1
  BY <1>1, <1>3, FS_AddElement
<1> QED BY <1>2, <1>4, <1>5

LEMMA NoTurns == ASSUME NEW s \in Seq(Message), Plain(s)
                 PROVE  Cardinality(Turns(s)) = 0
<1>1. Turns(s) = {}
  BY DEF Turns, Plain
<1> QED BY <1>1, FS_EmptySet

Cap == IF input.maxSteps < 1 THEN 1 ELSE input.maxSteps

\* The step runs ahead of the answers while one is asked for.
CapInv ==
    /\ step <= Cap
    /\ pc = "start" => step = 0
    /\ Cardinality(Turns(newMessages)) <= step
    /\ pc \in Asking => Cardinality(Turns(newMessages)) < step

LEMMA CapStep == TypeOK /\ CapInv /\ [Next]_vars => CapInv'
<1> SUFFICES ASSUME TypeOK, CapInv, [Next]_vars PROVE CapInv'
  OBVIOUS
<1>t. /\ step \in Nat /\ newMessages \in Seq(Message) /\ input \in Inputs
      /\ input.maxSteps \in Int /\ Cap \in Int
  BY InputsAssumption DEF TypeOK, RunInput, Cap
<1>n. Cardinality(Turns(newMessages)) \in Nat
  <2>1. Text("user") \in Message
    BY TextType
  <2> QED BY <1>t, <2>1, TurnsCount
<1>1. CASE Quiet
  <2>1. newMessages' = newMessages /\ Cap' = Cap
    BY <1>1 DEF Quiet, Cap
  <2>2. \/ step' = step /\ (pc' \in Asking => pc \in Asking) /\ (pc' = "start" => pc = "start")
        \/ step' = step + 1 /\ step + 1 <= Cap /\ pc' = "step"
    BY <1>1, <1>t DEF Quiet, Asking, Acting, Cap
  <2> QED BY <1>t, <1>n, <2>1, <2>2 DEF CapInv, Asking
<1>2. CASE Begins
  <2>1. Cardinality(Turns(newMessages')) = 0
    BY <1>2, <1>t, PromptTypes, PlainPrompt, NoTurns DEF Begins
  <2> QED BY <1>2, <1>t, <2>1 DEF Begins, CapInv, Cap, Asking
<1>3. ASSUME NEW cs \in Seq(Calls), Speaks(cs) PROVE CapInv'
  <2>1. Cardinality(Turns(newMessages')) = Cardinality(Turns(newMessages)) + 1
    <3>1. Assistant(cs) \in Message /\ Assistant(cs).role = "assistant"
      BY AssistantType DEF Assistant
    <3> QED BY <1>3, <1>t, <3>1, TurnsCount DEF Speaks
  <2> QED BY <1>3, <1>t, <1>n, <2>1 DEF Speaks, CapInv, Cap, Asking
<1>4. CASE RecordResult
  <2>1. PICK c \in Calls :
          /\ newMessages' = Append(newMessages, ResultMessage(c, outcome.err # ExitSuccess))
          /\ pc' \in {"call", "failed"} /\ UNCHANGED <<input, step>>
    BY <1>4, Recorded
  <2>2. Cardinality(Turns(newMessages')) = Cardinality(Turns(newMessages))
    <3> DEFINE m == ResultMessage(c, outcome.err # ExitSuccess)
    <3>1. m \in Message /\ m.role = "tool"
      BY ResultMessageType DEF ResultMessage
    <3> HIDE DEF m
    <3>2. Cardinality(Turns(Append(newMessages, m))) = Cardinality(Turns(newMessages))
      BY <1>t, <1>n, <3>1, TurnsCount
    <3> QED BY <2>1, <3>2 DEF m
  <2> QED BY <1>t, <1>n, <2>1, <2>2 DEF CapInv, Cap, Asking
<1> QED BY <1>1, <1>2, <1>3, <1>4, StepKinds

LEMMA CapBounds == TypeOK /\ CapInv => RequestsBounded
<1> SUFFICES ASSUME TypeOK, CapInv PROVE RequestsBounded
  OBVIOUS
<1>1. newMessages \in Seq(Message) /\ step \in Nat /\ input.maxSteps \in Int
  BY InputsAssumption DEF TypeOK, RunInput
<1>2. Cardinality(Turns(newMessages)) \in Nat
  <2>1. Text("user") \in Message
    BY TextType
  <2> QED BY <1>1, <2>1, TurnsCount
<1>3. Turns(newMessages) = AssistantTurns
  BY DEF Turns, AssistantTurns
<1> QED BY <1>1, <1>2, <1>3 DEF RequestsBounded, CapInv, Cap

\* The step cap bounds the provider's answers, whatever mixture of calls, failed
\* tools and hooks the run goes through; a cap below 1 acts as 1.
THEOREM RequestsAlwaysBounded == Spec => []RequestsBounded
<1>1. Init => TypeOK /\ CapInv
  <2> SUFFICES ASSUME Init PROVE CapInv
    BY TypeInit
  <2>1. input.maxSteps \in Int
    BY InputsAssumption DEF Init, RunInput
  <2>2. Turns(newMessages) = {}
    BY DEF Init, Turns
  <2>3. Cardinality(Turns(newMessages)) = 0
    BY <2>2, FS_EmptySet
  <2>4. step = 0 /\ pc = "start" /\ 0 <= Cap
    BY <2>1 DEF Init, Cap
  <2> QED BY <2>3, <2>4 DEF CapInv, Asking
<1>2. TypeOK /\ CapInv /\ [Next]_vars => TypeOK' /\ CapInv'
  BY TypeStep, CapStep
<1> QED BY <1>1, <1>2, CapBounds, PTL DEF Spec

-----------------------------------------------------------------------------
(* The failure budget. *)

LEMMA StreakGrows ==
    ASSUME NEW s \in Seq(Message), NEW m \in Message
    PROVE  FailedStreak(Append(s, m)) =
              IF m.role # "tool" THEN FailedStreak(s)
              ELSE IF m.failed THEN FailedStreak(s) \cup {Len(s) + 1} ELSE {}
<1> DEFINE t == Append(s, m)
<1>1. /\ t \in Seq(Message) /\ Len(t) = Len(s) + 1 /\ t[Len(s) + 1] = m
      /\ \A i \in 1..Len(s) : t[i] = s[i]
  OBVIOUS
<1>2. /\ DOMAIN s = 1..Len(s) /\ DOMAIN t = 1..(Len(s) + 1)
      /\ Len(s) \in Nat
  BY <1>1
<1> HIDE DEF t
<1>3. CASE m.role # "tool"
  BY <1>1, <1>2, <1>3 DEF FailedStreak
<1>4. CASE m.role = "tool" /\ m.failed
  BY <1>1, <1>2, <1>4 DEF FailedStreak
<1>5. CASE m.role = "tool" /\ ~m.failed
  <2>1. \A j \in DOMAIN t : Len(s) + 1 \in j..Len(t) /\ t[Len(s) + 1].role = "tool"
                            /\ ~t[Len(s) + 1].failed
    BY <1>1, <1>2, <1>5
  <2> QED BY <1>5, <2>1 DEF FailedStreak
<1> QED BY <1>3, <1>4, <1>5 DEF t

LEMMA NoStreak == ASSUME NEW s \in Seq(Message), Plain(s)
                  PROVE  Cardinality(FailedStreak(s)) = 0
<1>1. FailedStreak(s) = {}
  BY DEF FailedStreak, Plain
<1> QED BY <1>1, FS_EmptySet

LEMMA StreakFinite ==
    ASSUME NEW s \in Seq(Message)
    PROVE  IsFiniteSet(FailedStreak(s)) /\ Len(s) + 1 \notin FailedStreak(s)
<1>1. IsFiniteSet(1..Len(s)) /\ FailedStreak(s) \subseteq 1..Len(s)
  BY FS_Interval DEF FailedStreak
<1>2. Len(s) + 1 \notin FailedStreak(s)
  BY DEF FailedStreak
<1> QED BY <1>1, <1>2, FS_Subset

\* While the run goes on, its counter is the streak in its transcript.
BudgetInv ==
    /\ pc = "start" => failures = 0
    /\ pc # "failed" =>
          /\ failures = Cardinality(FailedStreak(newMessages))
          /\ \/ failures = 0
             \/ ~input.failFast /\ (input.budget < 0 \/ failures < input.budget)

LEMMA BudgetStep == TypeOK /\ BudgetInv /\ [Next]_vars => BudgetInv'
<1> SUFFICES ASSUME TypeOK, BudgetInv, [Next]_vars PROVE BudgetInv'
  OBVIOUS
<1>t. failures \in Nat /\ newMessages \in Seq(Message) /\ input \in Inputs
      /\ input.budget \in Int
  BY InputsAssumption DEF TypeOK, RunInput
<1>1. CASE Quiet
  <2>1. UNCHANGED <<input, newMessages, failures>> /\ (pc' # "failed" => pc # "failed")
        /\ (pc' = "start" => pc = "start")
    BY <1>1 DEF Quiet, Asking, Acting
  <2> QED BY <2>1 DEF BudgetInv
<1>2. CASE Begins
  <2>2. Cardinality(FailedStreak(newMessages')) = 0
    BY <1>2, <1>t, PromptTypes, PlainPrompt, NoStreak DEF Begins
  <2> QED BY <1>2, <2>2 DEF Begins, BudgetInv
<1>3. ASSUME NEW cs \in Seq(Calls), Speaks(cs) PROVE BudgetInv'
  <2>1. FailedStreak(newMessages') = FailedStreak(newMessages)
    <3>1. Assistant(cs) \in Message /\ Assistant(cs).role = "assistant"
      BY AssistantType DEF Assistant
    <3> QED BY <1>3, <1>t, <3>1, StreakGrows DEF Speaks
  <2>2. UNCHANGED <<input, failures>> /\ pc # "failed" /\ pc' # "start"
    BY <1>3 DEF Speaks
  <2> QED BY <2>1, <2>2 DEF BudgetInv
<1>4. CASE RecordResult
  <2>1. PICK c \in Calls :
          /\ newMessages' = Append(newMessages, ResultMessage(c, outcome.err # ExitSuccess))
          /\ pc = "record" /\ pc' \in {"call", "failed"}
          /\ pc' = "call" => IF outcome.err = ExitSuccess
                             THEN failures' = 0
                             ELSE /\ failures' = failures + 1
                                  /\ ~input.failFast
                                  /\ ~BudgetExceeded(failures', input.budget)
          /\ input' = input
    BY <1>4, Recorded
  <2> DEFINE m == ResultMessage(c, outcome.err # ExitSuccess)
  <2>2. m \in Message /\ m.role = "tool" /\ (m.failed <=> outcome.err # ExitSuccess)
    BY ResultMessageType DEF ResultMessage
  <2>3. newMessages' = Append(newMessages, m)
    BY <2>1
  <2>4. CASE pc' = "failed"
    BY <2>4 DEF BudgetInv
  <2>5. CASE pc' = "call" /\ outcome.err = ExitSuccess
    <3> HIDE DEF m
    <3>1. FailedStreak(newMessages') = {}
      BY <1>t, <2>2, <2>3, <2>5, StreakGrows
    <3> QED BY <2>1, <2>5, <3>1, FS_EmptySet DEF BudgetInv
  <2>6. CASE pc' = "call" /\ outcome.err # ExitSuccess
    <3> HIDE DEF m
    <3>1. FailedStreak(newMessages') = FailedStreak(newMessages) \cup {Len(newMessages) + 1}
      BY <1>t, <2>2, <2>3, <2>6, StreakGrows
    <3>2. Cardinality(FailedStreak(newMessages')) = Cardinality(FailedStreak(newMessages)) + 1
      BY <1>t, <3>1, StreakFinite, FS_AddElement
    <3>3. failures' = Cardinality(FailedStreak(newMessages'))
      BY <2>1, <2>6, <3>2 DEF BudgetInv
    <3>4. ~input'.failFast /\ (input'.budget < 0 \/ failures' < input'.budget)
      BY <1>t, <2>1, <2>6 DEF BudgetExceeded
    <3> QED BY <2>6, <3>3, <3>4 DEF BudgetInv
  <2> QED BY <2>1, <2>4, <2>5, <2>6
<1> QED BY <1>1, <1>2, <1>3, <1>4, StepKinds

\* A run that goes on has absorbed fewer consecutive tool failures than its
\* budget, across responses, and none under --fail-on-tool-error: the counter
\* consecutiveFailures and the transcript never disagree.
THEOREM BudgetAlwaysHonoured == Spec => []BudgetHonoured
<1>1. Init => TypeOK /\ BudgetInv
  <2> SUFFICES ASSUME Init PROVE BudgetInv
    BY TypeInit
  <2>1. FailedStreak(newMessages) = {}
    BY DEF Init, FailedStreak
  <2>2. Cardinality(FailedStreak(newMessages)) = 0
    BY <2>1, FS_EmptySet
  <2>3. failures = 0
    BY DEF Init
  <2> QED BY <2>2, <2>3 DEF BudgetInv
<1>2. TypeOK /\ BudgetInv /\ [Next]_vars => TypeOK' /\ BudgetInv'
  BY TypeStep, BudgetStep
<1>3. BudgetInv => BudgetHonoured
  BY DEF BudgetInv, BudgetHonoured
<1> QED BY <1>1, <1>2, <1>3, PTL DEF Spec

-----------------------------------------------------------------------------
(* The summary of the tools used. *)

ToolNames(s) == {s[i].calls[1].name : i \in {j \in DOMAIN s : s[j].role = "tool"}}

LEMMA NamesGrow ==
    ASSUME NEW s \in Seq(Message), NEW m \in Message
    PROVE  ToolNames(Append(s, m)) =
              IF m.role = "tool" THEN ToolNames(s) \cup {m.calls[1].name} ELSE ToolNames(s)
<1> DEFINE t    == Append(s, m)
           T(q) == {j \in DOMAIN q : q[j].role = "tool"}
<1>1. /\ \A i \in T(s) : i \in T(t) /\ t[i] = s[i]
      /\ t[Len(s) + 1] = m
      /\ \A i \in T(t) : i \in T(s) \/ (i = Len(s) + 1 /\ m.role = "tool")
      /\ m.role = "tool" => Len(s) + 1 \in T(t)
  OBVIOUS
<1> HIDE DEF t, T
<1>2. ToolNames(s) = {s[i].calls[1].name : i \in T(s)}
  BY DEF ToolNames, T
<1>3. ToolNames(t) = {t[i].calls[1].name : i \in T(t)}
  BY DEF ToolNames, T
<1>4. ToolNames(t) = IF m.role = "tool" THEN ToolNames(s) \cup {m.calls[1].name} ELSE ToolNames(s)
  <2>1. \A n \in ToolNames(s) : n \in ToolNames(t)
    BY <1>1, <1>2, <1>3
  <2>2. m.role = "tool" => m.calls[1].name \in ToolNames(t)
    BY <1>1, <1>3
  <2>3. \A n \in ToolNames(t) : n \in ToolNames(s) \/ (m.role = "tool" /\ n = m.calls[1].name)
    BY <1>1, <1>2, <1>3
  <2> QED BY <2>1, <2>2, <2>3
<1> QED BY <1>4 DEF t

LEMMA NoNames == ASSUME NEW s \in Seq(Message), Plain(s) PROVE ToolNames(s) = {}
BY DEF ToolNames, Plain

ToolsInv == toolsUsed = ToolNames(newMessages) /\ (pc = "start" => toolsUsed = {})

LEMMA ToolsStep == TypeOK /\ ToolsInv /\ [Next]_vars => ToolsInv'
<1> SUFFICES ASSUME TypeOK, ToolsInv, [Next]_vars PROVE ToolsInv'
  OBVIOUS
<1>t. newMessages \in Seq(Message) /\ input \in Inputs
  BY DEF TypeOK
<1>1. CASE Quiet
  BY <1>1 DEF Quiet, Asking, Acting, ToolsInv
<1>2. CASE Begins
  <2>1. ToolNames(newMessages') = {}
    BY <1>2, <1>t, PromptTypes, PlainPrompt, NoNames DEF Begins
  <2> QED BY <1>2, <2>1 DEF Begins, ToolsInv
<1>3. ASSUME NEW cs \in Seq(Calls), Speaks(cs) PROVE ToolsInv'
  <2>1. Assistant(cs) \in Message /\ Assistant(cs).role = "assistant"
    BY AssistantType DEF Assistant
  <2>2. ToolNames(newMessages') = ToolNames(newMessages)
    BY <1>3, <1>t, <2>1, NamesGrow DEF Speaks
  <2> QED BY <1>3, <2>2 DEF Speaks, ToolsInv
<1>4. CASE RecordResult
  <2>1. PICK c \in Calls :
          /\ newMessages' = Append(newMessages, ResultMessage(c, outcome.err # ExitSuccess))
          /\ toolsUsed' = toolsUsed \cup {c.name}
          /\ pc' \in {"call", "failed"}
    BY <1>4, Recorded
  <2> DEFINE m == ResultMessage(c, outcome.err # ExitSuccess)
  <2>2. m \in Message /\ m.role = "tool" /\ m.calls[1].name = c.name
    BY ResultMessageType DEF ResultMessage
  <2> HIDE DEF m
  <2>3. ToolNames(Append(newMessages, m)) = ToolNames(newMessages) \cup {c.name}
    BY <1>t, <2>2, NamesGrow
  <2> QED BY <2>1, <2>3 DEF m, ToolsInv
<1> QED BY <1>1, <1>2, <1>3, <1>4, StepKinds

\* The summary of a run names exactly the tools whose results are in its turn,
\* those that failed or were refused by their arguments included.
THEOREM ToolsAlwaysMatch == Spec => []ToolsUsedMatchTranscript
<1>1. Init => TypeOK /\ ToolsInv
  BY TypeInit DEF Init, ToolsInv, ToolNames
<1>2. TypeOK /\ ToolsInv /\ [Next]_vars => TypeOK' /\ ToolsInv'
  BY TypeStep, ToolsStep
<1>3. ToolsInv => ToolsUsedMatchTranscript
  BY DEF ToolsInv, ToolNames, ToolsUsedMatchTranscript
<1> QED BY <1>1, <1>2, <1>3, PTL DEF Spec

-----------------------------------------------------------------------------
(* What the tools do. *)

Admitted(c) == c.name \in Allowed \cap Registered

\* A step that runs no tool.  Under a finished context the asking half of a step
\* leads nowhere, and so does the end of a tool after the deadline.
NoEffect ==
    /\ UNCHANGED <<input, effects>>
    /\ ctx' = ctx \/ ctx = "live"
    /\ pc' = "execute" =>
          calls' = calls /\ (pc = "execute" \/ Admitted(Head(calls)))
    /\ pc' # "step" => step' = step
    /\ pc = "failed" => pc' = "failed"
    /\ ctx # "live" /\ pc \in {"step", "request"} => pc' \in {"step", "request", "failed"}
    /\ ctx = "deadline" /\ pc \in {"running", "record"} => pc' \in {"running", "record", "failed"}

LEMMA EffectKinds ==
    ASSUME TypeOK, [Next]_vars
    PROVE  NoEffect \/ StartTool
<1> USE DEF NoEffect, Fail, telemetry, transcript
<1>1. ASSUME NEW hookErr \in BOOLEAN, LoopStart(hookErr) PROVE NoEffect
  BY <1>1 DEF LoopStart
<1>2. ASSUME NEW hookErr \in BOOLEAN, StepStart(hookErr) PROVE NoEffect
  BY <1>2 DEF StepStart
<1>3. ASSUME NEW hookErr \in BOOLEAN, AdmitCall(hookErr) PROVE NoEffect
  BY <1>3 DEF AdmitCall, ToolAllowed, Admitted
<1>4. CASE SendRequest
  BY <1>4 DEF SendRequest
<1>5. CASE RejectCall
  BY <1>5 DEF RejectCall
<1>6. CASE InvalidArguments
  BY <1>6 DEF InvalidArguments
<1>7. CASE PlanTool
  BY <1>7 DEF PlanTool, ValidArguments
<1>9. CASE ToolResultHookFails
  BY <1>9 DEF ToolResultHookFails
<1>10. CASE RecordResult
  <2> DEFINE err == NormalizeContextError(outcome.err, FALSE)
  <2>1. pc = "record" /\ Judge(err) /\ UNCHANGED <<input, ctx, step, effects>>
    BY <1>10 DEF RecordResult
  <2>2. Expired => err \in {ExitSuccess, ExitTimeout}
    BY DEF NormalizeContextError
  <2>3. pc' \in {"call", "failed"} /\ (Expired => pc' = "failed")
    <3> HIDE DEF err
    <3> QED BY <2>1, <2>2 DEF Judge
  <2> QED BY <2>1, <2>3 DEF Expired
<1>11. CASE EndBatch
  BY <1>11 DEF EndBatch
<1>12. CASE ResponseTooLate
  BY <1>12 DEF ResponseTooLate
<1>13. CASE ProviderFails
  BY <1>13 DEF ProviderFails
<1>14. CASE StepCompleteFails
  BY <1>14 DEF StepCompleteFails, Responded
<1>15. CASE ProviderRefuses
  BY <1>15 DEF ProviderRefuses, Responded
<1>16. CASE ProviderAsksTools
  BY <1>16 DEF ProviderAsksTools, Responded
<1>17. ASSUME NEW hookErr \in BOOLEAN, ProviderAnswers(hookErr) PROVE NoEffect
  BY <1>17 DEF ProviderAnswers, Responded
<1>18. CASE ToolReturns
  BY <1>18 DEF ToolReturns
<1>19. CASE Expire
  BY <1>19 DEF Expire
<1>20. CASE Interrupt
  BY <1>20 DEF Interrupt
<1>21. CASE UNCHANGED vars
  BY <1>21 DEF vars
<1> QED
  BY <1>1, <1>2, <1>3, <1>4, <1>5, <1>6, <1>7, <1>9, <1>10, <1>11, <1>12,
     <1>13, <1>14, <1>15, <1>16, <1>17, <1>18, <1>19, <1>20, <1>21
     DEF Next, LoopStep, ProviderReturns

LEMMA AppendedAt ==
    ASSUME NEW S, NEW s \in Seq(S), NEW e \in S
    PROVE  \A i \in DOMAIN Append(s, e) : \/ i \in DOMAIN s /\ Append(s, e)[i] = s[i]
                                          \/ i = Len(s) + 1 /\ Append(s, e)[i] = e
OBVIOUS

\* A tool that acts adds itself to the effects, at the end.
LEMMA Started ==
    ASSUME TypeOK, StartTool
    PROVE  /\ pc = "execute" /\ pc' = "running" /\ UNCHANGED <<input, ctx, step>>
           /\ ~input.planOnly /\ Head(calls).args = "json"
           /\ \A i \in DOMAIN effects' :
                 \/ i \in DOMAIN effects /\ effects'[i] = effects[i]
                 \/ /\ i = Len(effects) + 1
                    /\ effects'[i] = [call |-> Head(calls), step |-> step, ctx |-> ctx]
<1> DEFINE e      == [call |-> Head(calls), step |-> step, ctx |-> ctx]
           Effect == [call : Calls, step : Nat, ctx : {"live", "deadline", "canceled"}]
<1>1. effects' = effects \/ effects' = Append(effects, e)
  <2>1. \E ran \in MayAct(Head(calls).name) :
           effects' = IF ran THEN Append(effects, e) ELSE effects
    BY DEF StartTool
  <2> HIDE DEF e
  <2> QED BY <2>1
<1>2. pc = "execute" /\ pc' = "running" /\ UNCHANGED <<input, ctx, step>>
      /\ ~input.planOnly /\ Head(calls).args = "json"
  BY DEF StartTool, ValidArguments
<1>3. effects \in Seq(Effect) /\ e \in Effect
  BY <1>2 DEF TypeOK
<1> HIDE DEF e, Effect
<1>4. \A i \in DOMAIN effects' : \/ i \in DOMAIN effects /\ effects'[i] = effects[i]
                                 \/ i = Len(effects) + 1 /\ effects'[i] = e
  BY <1>1, <1>3, AppendedAt
<1> QED BY <1>2, <1>4 DEF e

\* What is to be executed is admitted, so what was executed is.
AuthorInv == EffectsAuthorised /\ (pc = "execute" => Admitted(Head(calls)))

LEMMA AuthorStep == TypeOK /\ AuthorInv /\ [Next]_vars => AuthorInv'
<1> SUFFICES ASSUME TypeOK, AuthorInv, [Next]_vars PROVE AuthorInv'
  OBVIOUS
<1>1. CASE NoEffect
  BY <1>1 DEF NoEffect, AuthorInv, EffectsAuthorised, Admitted
<1>2. CASE StartTool
  <2> DEFINE e == [call |-> Head(calls), step |-> step, ctx |-> ctx]
  <2>1. e.call.name \in Allowed \cap Registered /\ e.call.args = "json"
    BY <1>2, Started DEF AuthorInv, Admitted
  <2>2. \A i \in DOMAIN effects' : \/ i \in DOMAIN effects /\ effects'[i] = effects[i]
                                   \/ effects'[i] = e
    BY <1>2, Started
  <2>3. pc' = "running" /\ input' = input /\ ~input.planOnly
    BY <1>2, Started
  <2> HIDE DEF e
  <2>5. EffectsAuthorised'
    BY <2>1, <2>2, <2>3 DEF AuthorInv, EffectsAuthorised
  <2> QED BY <2>3, <2>5 DEF AuthorInv
<1> QED BY <1>1, <1>2, EffectKinds

\* Only tools that the mode admits and the registry has ever act, never on
\* garbled arguments, and none in plan mode.
THEOREM EffectsAlwaysAuthorised == Spec => []EffectsAuthorised
<1>1. Init => TypeOK /\ AuthorInv
  BY TypeInit DEF Init, AuthorInv, EffectsAuthorised
<1>2. TypeOK /\ AuthorInv /\ [Next]_vars => TypeOK' /\ AuthorInv'
  BY TypeStep, AuthorStep
<1>3. AuthorInv => EffectsAuthorised
  BY DEF AuthorInv
<1> QED BY <1>1, <1>2, <1>3, PTL DEF Spec

\* A late effect fixes the context, and the run can only come back to a tool in
\* the step of that effect, after a deadline not at all.
LateInv ==
    /\ LateEffectsBounded
    /\ \A i \in DOMAIN effects : effects[i].ctx # "live" =>
          /\ ctx = effects[i].ctx
          /\ effects[i].step = step \/ pc \in {"step", "request", "failed"}
          /\ ctx = "deadline" => pc \in {"running", "record", "failed"}

LEMMA LateStep == TypeOK /\ LateInv /\ [Next]_vars => LateInv'
<1> SUFFICES ASSUME TypeOK, LateInv, [Next]_vars PROVE LateInv'
  OBVIOUS
<1>1. CASE NoEffect
  <2>1. effects' = effects /\ LateEffectsBounded'
    BY <1>1 DEF NoEffect, LateInv, LateEffectsBounded
  <2>2. ASSUME NEW i \in DOMAIN effects, effects[i].ctx # "live"
        PROVE  /\ ctx' = effects[i].ctx
               /\ effects[i].step = step' \/ pc' \in {"step", "request", "failed"}
               /\ ctx' = "deadline" => pc' \in {"running", "record", "failed"}
    <3>1. /\ ctx = effects[i].ctx
          /\ effects[i].step = step \/ pc \in {"step", "request", "failed"}
          /\ ctx = "deadline" => pc \in {"running", "record", "failed"}
      BY <2>2 DEF LateInv
    <3> QED BY <1>1, <2>2, <3>1 DEF NoEffect
  <2> QED BY <2>1, <2>2 DEF LateInv
<1>2. CASE StartTool
  <2> DEFINE e == [call |-> Head(calls), step |-> step, ctx |-> ctx]
  <2>1. \A i \in DOMAIN effects' : \/ i \in DOMAIN effects /\ effects'[i] = effects[i]
                                   \/ i = Len(effects) + 1 /\ effects'[i] = e
    BY <1>2, Started
  <2>2. pc = "execute" /\ pc' = "running" /\ ctx' = ctx /\ step' = step
    BY <1>2, Started
  <2>3. e.ctx = ctx /\ e.step = step
    OBVIOUS
  <2> HIDE DEF e
  <2>4. \A i \in DOMAIN effects : effects[i].ctx # "live" =>
           ctx = effects[i].ctx /\ ctx # "deadline" /\ effects[i].step = step
    BY <2>2 DEF LateInv
  <2>5. LateEffectsBounded'
    BY <2>1, <2>3, <2>4 DEF LateEffectsBounded
  <2> QED BY <2>1, <2>2, <2>3, <2>4, <2>5 DEF LateInv
<1> QED BY <1>1, <1>2, EffectKinds

\* At most one tool acts after the deadline, and after an interrupt only the rest
\* of the response in hand.
THEOREM LateEffectsAlwaysBounded == Spec => []LateEffectsBounded
<1>1. Init => TypeOK /\ LateInv
  BY TypeInit DEF Init, LateInv, LateEffectsBounded
<1>2. TypeOK /\ LateInv /\ [Next]_vars => TypeOK' /\ LateInv'
  BY TypeStep, LateStep
<1>3. LateInv => LateEffectsBounded
  BY DEF LateInv
<1> QED BY <1>1, <1>2, <1>3, PTL DEF Spec

=============================================================================
