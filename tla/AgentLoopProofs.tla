--------------------------- MODULE AgentLoopProofs ---------------------------
(***************************************************************************)
(* Theorems about AgentLoop, for every set of calls, tools and inputs and  *)
(* every length of a response.                                             *)
(***************************************************************************)
EXTENDS AgentLoop, TLAPS

USE DEF ExitSuccess, ExitRuntime, ExitTimeout, ExitRefusal, ExitSchemaValidation,
        ExitToolFailure, ExitShellFailure, ExitSessionFailure, ExitCLIUsage

-----------------------------------------------------------------------------
(* Typing of the messages the loop builds. *)

LEMMA TextType == ASSUME NEW r \in {"system", "user", "assistant", "tool"}
                  PROVE  Text(r) \in Message
BY DEF Text, Message

LEMMA AssistantType == ASSUME NEW cs \in Seq(Calls)
                       PROVE  Assistant(cs) \in Message
BY DEF Assistant, Message

LEMMA ResultMessageType == ASSUME NEW c \in Calls, NEW f \in BOOLEAN
                           PROVE  ResultMessage(c, f) \in Message
BY DEF ResultMessage, Message

LEMMA ResponseType == Responses \subseteq Seq(Calls)
BY MaxCallsAssumption DEF Responses

LEMMA PromptTypes == ASSUME NEW in \in Inputs
                     PROVE  /\ SystemStack(in) \in Seq(Message)
                            /\ UserTurn(in) \in Seq(Message)
                            /\ in.session \in Seq(Message)
<1>1. in \in RunInput
  BY InputsAssumption
<1>2. \A b \in BOOLEAN, r \in {"system", "user"} : When(b, Text(r)) \in Seq(Message)
  BY TextType DEF When
<1>3. in.system \in BOOLEAN /\ in.planOnly \in BOOLEAN /\ in.prompt \in BOOLEAN
      /\ in.stdin \in BOOLEAN /\ in.session \in Seq(Message)
  BY <1>1 DEF RunInput
<1>4. \A s, t \in Seq(Message) : s \o t \in Seq(Message)
  OBVIOUS
<1>5. SystemStack(in) \in Seq(Message)
  <2>1. When(in.system, Text("system")) \in Seq(Message)
    BY <1>2, <1>3
  <2>2. When(in.planOnly, Text("system")) \in Seq(Message)
    BY <1>2, <1>3
  <2>3. When(in.schema # "none", Text("system")) \in Seq(Message)
    BY <1>2
  <2> QED BY <1>4, <2>1, <2>2, <2>3, Zenon DEF SystemStack
<1>6. UserTurn(in) \in Seq(Message)
  <2>1. When(in.prompt, Text("user")) \in Seq(Message)
    BY <1>2, <1>3
  <2>2. When(in.stdin, Text("user")) \in Seq(Message)
    BY <1>2, <1>3
  <2> QED BY <1>4, <2>1, <2>2, Zenon DEF UserTurn
<1> QED BY <1>3, <1>5, <1>6

-----------------------------------------------------------------------------
(* Type correctness. *)

\* Whatever the provider or a tool reports is an exit code.
LEMMA ErrorTypes == /\ ProviderErrors \subseteq ExitCode
                    /\ SendErrors \subseteq ExitCode
                    /\ \A name : ExecuteErrors(name) \subseteq ExitCode
BY DEF ProviderErrors, SendErrors, ExecuteErrors, ExitCode

LEMMA NormalizeType == ASSUME NEW e \in ExitCode, NEW timedOut \in BOOLEAN
                       PROVE  NormalizeContextError(e, timedOut) \in ExitCode
BY DEF NormalizeContextError, ExitCode

LEMMA TypeInit == Init => TypeOK
BY DEF Init, TypeOK, NoOutcome, Outcome, ExitCode, Phase

LEMMA TypeStep == TypeOK /\ [Next]_vars => TypeOK'
<1> SUFFICES ASSUME TypeOK, [Next]_vars PROVE TypeOK'
  OBVIOUS
<1> USE DEF TypeOK, Phase, Fail
<1> ExitSuccess \in ExitCode /\ ExitRuntime \in ExitCode /\ ExitTimeout \in ExitCode
    /\ ExitRefusal \in ExitCode /\ ExitSchemaValidation \in ExitCode
    /\ ExitToolFailure \in ExitCode /\ ExitSessionFailure \in ExitCode
  BY DEF ExitCode
<1>1. ASSUME NEW hookErr \in BOOLEAN, LoopStart(hookErr) PROVE TypeOK'
  <2>1. CASE pc' = "failed"
    BY <1>1, <2>1 DEF LoopStart, telemetry, transcript
  <2>2. CASE pc' # "failed"
    <3>1. SystemStack(input) \o input.session \o UserTurn(input) \in Seq(Message)
      <4>1. \A s, t, u \in Seq(Message) : s \o t \o u \in Seq(Message)
        OBVIOUS
      <4> QED BY <4>1, PromptTypes, Zenon
    <3>2. UserTurn(input) \in Seq(Message)
      BY PromptTypes
    <3>3. /\ messages' \in Seq(Message)
          /\ newMessages' \in Seq(Message)
      BY <1>1, <2>2, <3>1, <3>2 DEF LoopStart
    <3>4. pc' = "step" /\ step' = 1 /\ exit' = exit
      BY <1>1, <2>2 DEF LoopStart
    <3>5. UNCHANGED <<input, ctx, calls, outcome, failures, telemetry, effects>>
      BY <1>1 DEF LoopStart
    <3> QED BY <3>3, <3>4, <3>5 DEF telemetry
  <2> QED BY <2>1, <2>2
<1>2. ASSUME NEW hookErr \in BOOLEAN, StepStart(hookErr) PROVE TypeOK'
  BY <1>2 DEF StepStart, telemetry, transcript
<1>3. ASSUME NEW hookErr \in BOOLEAN, AdmitCall(hookErr) PROVE TypeOK'
  BY <1>3 DEF AdmitCall, telemetry, transcript
<1>4. CASE SendRequest
  <2>1. \A e \in SendErrors : NormalizeContextError(e, FALSE) \in ExitCode
    BY NormalizeType, ErrorTypes
  <2> QED BY <1>4, <2>1 DEF SendRequest, telemetry, transcript
<1>5. CASE RejectCall
  BY <1>5 DEF RejectCall, telemetry, transcript
<1>6. CASE InvalidArguments
  BY <1>6 DEF InvalidArguments, telemetry, transcript, Outcome
<1>7. CASE PlanTool
  BY <1>7 DEF PlanTool, ValidArguments, telemetry, transcript, Outcome
<1>8. CASE StartTool
  <2> DEFINE c == Head(calls)
  <2>0. PICK ran \in MayAct(c.name) :
          /\ outcome' = [err |-> ExitSuccess, cmd |-> c.name = "bash", ran |-> ran]
          /\ effects' = IF ran
                        THEN Append(effects, [call |-> c, step |-> step, ctx |-> ctx])
                        ELSE effects
    BY <1>8 DEF StartTool
  <2>1. c \in Calls /\ ran \in BOOLEAN
    <3>1. calls # <<>> /\ c \in Calls
      BY <1>8 DEF StartTool, ValidArguments
    <3>2. MayAct(c.name) \subseteq BOOLEAN
      BY DEF MayAct
    <3> QED BY <2>0, <3>1, <3>2
  <2>3. outcome' \in Outcome
    BY <2>0, <2>1 DEF Outcome
  <2>4. effects' \in Seq([call : Calls, step : Nat, ctx : {"live", "deadline", "canceled"}])
    <3> DEFINE Effect == [call : Calls, step : Nat, ctx : {"live", "deadline", "canceled"}]
               effect == [call |-> c, step |-> step, ctx |-> ctx]
    <3>1. effect \in Effect
      BY <2>1
    <3>2. effects' = IF ran THEN Append(effects, effect) ELSE effects
      BY <2>0
    <3>3. effects \in Seq(Effect)
      OBVIOUS
    <3> HIDE DEF Effect, effect
    <3>4. effects' \in Seq(Effect)
      BY <3>1, <3>2, <3>3
    <3> QED BY <3>4 DEF Effect
  <2> QED BY <1>8, <2>3, <2>4 DEF StartTool, ValidArguments, telemetry, transcript
<1>9. CASE ToolResultHookFails
  BY <1>9 DEF ToolResultHookFails, telemetry, transcript
<1>10. CASE RecordResult
  <2> DEFINE c   == Head(calls)
             err == NormalizeContextError(outcome.err, FALSE)
             msg == ResultMessage(c, outcome.err # ExitSuccess)
  <2>1. c \in Calls /\ Tail(calls) \in Seq(Calls)
    BY <1>10 DEF RecordResult
  <2>2. msg \in Message
    BY <2>1, ResultMessageType
  <2>3. messages' \in Seq(Message) /\ newMessages' \in Seq(Message)
    <3> HIDE DEF msg
    <3>1. messages' = Append(messages, msg) /\ newMessages' = Append(newMessages, msg)
      BY <1>10 DEF RecordResult, msg
    <3> QED BY <2>2, <3>1
  <2>4. err \in ExitCode
    BY NormalizeType DEF Outcome
  <2>5. Judge(err)
    BY <1>10 DEF RecordResult
  <2>6. failures' \in Nat /\ exit' \in ExitCode /\ pc' \in {"call", "failed"}
    <3> HIDE DEF err
    <3> QED BY <2>4, <2>5 DEF Judge
  <2>7. toolsUsed' \subseteq STRING
    <3>1. c.name \in STRING
      BY <2>1, CallsAssumption
    <3> QED BY <1>10, <3>1 DEF RecordResult
  <2>8. commands' \in Seq(Calls)
    BY <1>10, <2>1 DEF RecordResult
  <2>9. outcome' \in Outcome
    BY <1>10 DEF RecordResult, NoOutcome, Outcome
  <2>10. calls' \in Seq(Calls)
    BY <1>10, <2>1 DEF RecordResult
  <2>11. UNCHANGED <<input, ctx, step, usage, effects>>
    BY <1>10 DEF RecordResult
  <2> HIDE DEF c, err, msg
  <2> QED BY <2>3, <2>6, <2>7, <2>8, <2>9, <2>10, <2>11
<1>11. CASE EndBatch
  BY <1>11 DEF EndBatch, telemetry, transcript
<1>12. CASE ResponseTooLate
  BY <1>12 DEF ResponseTooLate, telemetry, transcript
<1>13. CASE ProviderFails
  <2>1. exit' \in ExitCode
    BY <1>13, ErrorTypes, NormalizeType DEF ProviderFails
  <2> QED BY <1>13, <2>1 DEF ProviderFails, telemetry, transcript
<1>14. CASE StepCompleteFails
  BY <1>14 DEF StepCompleteFails, Responded, transcript
<1>15. CASE ProviderRefuses
  BY <1>15 DEF ProviderRefuses, Responded, transcript
<1>16. CASE ProviderAsksTools
  BY <1>16, ResponseType, AssistantType DEF ProviderAsksTools, Responded
<1>17. ASSUME NEW hookErr \in BOOLEAN, ProviderAnswers(hookErr) PROVE TypeOK'
  <2>1. Assistant(<<>>) \in Message
    <3>1. <<>> \in Seq(Calls)
      OBVIOUS
    <3> QED BY <3>1, AssistantType, Zenon
  <2> QED BY <1>17, <2>1 DEF ProviderAnswers, Responded
<1>18. CASE ToolReturns
  <2>1. outcome' \in Outcome
    BY <1>18, ErrorTypes DEF ToolReturns, Outcome
  <2> QED BY <1>18, <2>1 DEF ToolReturns, telemetry, transcript
<1>19. CASE Expire
  BY <1>19 DEF Expire, telemetry, transcript
<1>20. CASE Interrupt
  BY <1>20 DEF Interrupt, telemetry, transcript
<1>21. CASE UNCHANGED vars
  BY <1>21 DEF vars
<1> QED
  BY <1>1, <1>2, <1>3, <1>4, <1>5, <1>6, <1>7, <1>8, <1>9, <1>10, <1>11, <1>12,
     <1>13, <1>14, <1>15, <1>16, <1>17, <1>18, <1>19, <1>20, <1>21
     DEF Next, LoopStep, ProviderReturns

\* The local state of Runner.Run keeps its types: no index runs off a list, no
\* call is executed that is not in hand, and every exit code is a known one.
THEOREM TypeCorrect == Spec => []TypeOK
<1>1. Init => TypeOK
  BY TypeInit
<1>2. TypeOK /\ [Next]_vars => TypeOK'
  BY TypeStep
<1> QED BY <1>1, <1>2, PTL DEF Spec

-----------------------------------------------------------------------------
(* What each way of extending a transcript does to the calls it owes. *)

\* A sequence without assistant and tool messages.
Plain(s) == \A i \in 1..Len(s) : s[i].role \in {"system", "user"}

LEMMA AnswersEmpty == Answers(<<>>, <<>>)
BY DEF Answers, CallsAnswered, ResultsAsked, RestOwed

LEMMA AnswersPrefix ==
    ASSUME NEW p \in Seq(Message), NEW s \in Seq(Message), Plain(p), Answers(s, <<>>)
    PROVE  Answers(p \o s, <<>>)
<1> DEFINE t == p \o s
           n == Len(p)
<1>1. t \in Seq(Message) /\ Len(t) = n + Len(s) /\ n \in Nat /\ Len(s) \in Nat
  OBVIOUS
<1>2. \A i \in 1..n : t[i] = p[i]
  OBVIOUS
<1>3. \A i \in 1..Len(s) : t[n + i] = s[i]
  OBVIOUS
<1>4. \A i \in (n + 1)..Len(t) : i - n \in 1..Len(s) /\ t[i] = s[i - n]
  BY <1>1, <1>3
<1>5. \A i \in 1..Len(t) : t[i].role \in {"assistant", "tool"} => i \in (n + 1)..Len(t)
  BY <1>1, <1>2 DEF Plain
<1> HIDE DEF t, n
<1>6. CallsAnswered(t, <<>>)
  <2> SUFFICES ASSUME NEW i \in 1..Len(t), t[i].role = "assistant",
                      NEW k \in 1..Len(t[i].calls)
               PROVE  i + k <= Len(t) /\ t[i + k].role = "tool"
                      /\ t[i + k].calls = <<t[i].calls[k]>>
    BY DEF CallsAnswered, AssistantAt
  <2>1. i - n \in 1..Len(s) /\ t[i] = s[i - n]
    BY <1>4, <1>5
  <2>2. s[i - n].role = "assistant" /\ k \in 1..Len(s[i - n].calls)
    BY <2>1
  <2>3. /\ (i - n) + k <= Len(s)
        /\ s[(i - n) + k].role = "tool"
        /\ s[(i - n) + k].calls = <<s[i - n].calls[k]>>
    BY <2>1, <2>2 DEF Answers, CallsAnswered, AssistantAt
  <2>4. i + k \in (n + 1)..Len(t) /\ (i + k) - n = (i - n) + k
    BY <1>1, <2>1, <2>2, <2>3
  <2> QED BY <1>4, <2>1, <2>3, <2>4
<1>7. ResultsAsked(t)
  <2> SUFFICES ASSUME NEW j \in 1..Len(t), t[j].role = "tool"
               PROVE  \E i \in 1..(j - 1) : t[i].role = "assistant" /\ j - i <= Len(t[i].calls)
    BY DEF ResultsAsked, AssistantAt
  <2>1. j - n \in 1..Len(s) /\ t[j] = s[j - n]
    BY <1>4, <1>5
  <2>2. PICK i \in 1..((j - n) - 1) : s[i].role = "assistant" /\ (j - n) - i <= Len(s[i].calls)
    BY <2>1 DEF Answers, ResultsAsked, AssistantAt
  <2>3. i \in 1..Len(s) /\ n + i \in 1..(j - 1) /\ j - (n + i) = (j - n) - i
    BY <1>1, <2>1, <2>2
  <2>4. t[n + i] = s[i]
    BY <2>3, <1>3
  <2> QED BY <2>2, <2>3, <2>4
<1>8. RestOwed(t, <<>>)
  BY DEF RestOwed
<1> QED BY <1>6, <1>7, <1>8 DEF Answers, t

LEMMA AnswersSuffix ==
    ASSUME NEW s \in Seq(Message), NEW p \in Seq(Message), Plain(p), Answers(s, <<>>)
    PROVE  Answers(s \o p, <<>>)
<1> DEFINE t == s \o p
<1>1. Len(t) = Len(s) + Len(p) /\ Len(s) \in Nat /\ Len(p) \in Nat
  OBVIOUS
<1>2. \A i \in 1..Len(s) : t[i] = s[i]
  OBVIOUS
<1>3. \A i \in 1..Len(t) : t[i].role \in {"assistant", "tool"} => i \in 1..Len(s)
  <2> SUFFICES ASSUME NEW i \in 1..Len(t), i \notin 1..Len(s)
               PROVE  t[i].role \notin {"assistant", "tool"}
    OBVIOUS
  <2>1. i - Len(s) \in 1..Len(p) /\ t[i] = p[i - Len(s)]
    BY <1>1
  <2> QED BY <2>1 DEF Plain
<1> HIDE DEF t
<1>4. CallsAnswered(t, <<>>)
  <2> SUFFICES ASSUME NEW i \in 1..Len(t), t[i].role = "assistant",
                      NEW k \in 1..Len(t[i].calls)
               PROVE  i + k <= Len(t) /\ t[i + k].role = "tool"
                      /\ t[i + k].calls = <<t[i].calls[k]>>
    BY DEF CallsAnswered, AssistantAt
  <2>1. i \in 1..Len(s) /\ t[i] = s[i]
    BY <1>2, <1>3
  <2>2. i + k <= Len(s) /\ s[i + k].role = "tool" /\ s[i + k].calls = <<s[i].calls[k]>>
    BY <2>1 DEF Answers, CallsAnswered, AssistantAt
  <2> QED BY <1>1, <1>2, <2>1, <2>2
<1>5. ResultsAsked(t)
  <2> SUFFICES ASSUME NEW j \in 1..Len(t), t[j].role = "tool"
               PROVE  \E i \in 1..(j - 1) : t[i].role = "assistant" /\ j - i <= Len(t[i].calls)
    BY DEF ResultsAsked, AssistantAt
  <2>1. j \in 1..Len(s) /\ t[j] = s[j]
    BY <1>2, <1>3
  <2>2. PICK i \in 1..(j - 1) : s[i].role = "assistant" /\ j - i <= Len(s[i].calls)
    BY <2>1 DEF Answers, ResultsAsked, AssistantAt
  <2>3. i \in 1..Len(s) /\ t[i] = s[i]
    BY <1>1, <1>2, <2>1
  <2> QED BY <2>2, <2>3
<1>6. RestOwed(t, <<>>)
  BY DEF RestOwed
<1> QED BY <1>4, <1>5, <1>6 DEF Answers, t

LEMMA AnswersAsk ==
    ASSUME NEW s \in Seq(Message), NEW cs \in Seq(Calls), Answers(s, <<>>)
    PROVE  Answers(Append(s, Assistant(cs)), cs)
<1> DEFINE m == Assistant(cs)
           t == Append(s, m)
           n == Len(s)
<1>1. m \in Message /\ m.role = "assistant" /\ m.calls = cs
  BY AssistantType DEF Assistant
<1> HIDE DEF m
<1>2. Len(t) = n + 1 /\ n \in Nat /\ t[n + 1] = m /\ Len(cs) \in Nat
  BY <1>1
<1>3. \A i \in 1..n : t[i] = s[i]
  BY <1>1
<1>4. \A i \in 1..Len(t) : i \in 1..n \/ i = n + 1
  BY <1>2
<1> HIDE DEF t, n
<1>5. CallsAnswered(t, cs)
  <2> SUFFICES ASSUME NEW i \in 1..Len(t), t[i].role = "assistant",
                      NEW k \in 1..Len(t[i].calls)
               PROVE  IF i + k <= Len(t)
                      THEN t[i + k].role = "tool" /\ t[i + k].calls = <<t[i].calls[k]>>
                      ELSE i + k - Len(t) <= Len(cs) /\ cs[i + k - Len(t)] = t[i].calls[k]
    BY DEF CallsAnswered, AssistantAt
  <2>1. CASE i \in 1..n
    <3>1. t[i] = s[i]
      BY <1>3, <2>1
    <3>2. i + k <= n /\ s[i + k].role = "tool" /\ s[i + k].calls = <<s[i].calls[k]>>
      BY <2>1, <3>1 DEF Answers, CallsAnswered, AssistantAt, n
    <3>3. i + k \in 1..n
      BY <1>2, <2>1, <3>1, <3>2
    <3> QED BY <1>2, <1>3, <3>1, <3>2, <3>3
  <2>2. CASE i = n + 1
    <3>1. t[i].calls = cs /\ k \in 1..Len(cs)
      BY <1>1, <1>2, <2>2
    <3>2. ~(i + k <= Len(t)) /\ i + k - Len(t) = k
      BY <1>2, <2>2, <3>1
    <3> QED BY <3>1, <3>2
  <2> QED BY <1>4, <2>1, <2>2
<1>6. ResultsAsked(t)
  <2> SUFFICES ASSUME NEW j \in 1..Len(t), t[j].role = "tool"
               PROVE  \E i \in 1..(j - 1) : t[i].role = "assistant" /\ j - i <= Len(t[i].calls)
    BY DEF ResultsAsked, AssistantAt
  <2>1. j \in 1..n /\ t[j] = s[j]
    BY <1>1, <1>2, <1>3, <1>4
  <2>2. PICK i \in 1..(j - 1) : s[i].role = "assistant" /\ j - i <= Len(s[i].calls)
    BY <2>1 DEF Answers, ResultsAsked, AssistantAt, n
  <2>3. i \in 1..n /\ t[i] = s[i]
    BY <1>2, <1>3, <2>1
  <2> QED BY <2>2, <2>3
<1>7. RestOwed(t, cs)
  <2>1. n + 1 \in 1..Len(t)
    BY <1>2
  <2>2. AssistantAt(t, n + 1) /\ (n + 1) + Len(t[n + 1].calls) = Len(t) + Len(cs)
    BY <1>1, <1>2 DEF AssistantAt
  <2> QED BY <2>1, <2>2 DEF RestOwed
<1> QED BY <1>5, <1>6, <1>7 DEF Answers, t, m

LEMMA AnswersRecord ==
    ASSUME NEW s \in Seq(Message), NEW rest \in Seq(Calls), NEW f \in BOOLEAN,
           rest # <<>>, Answers(s, rest)
    PROVE  Answers(Append(s, ResultMessage(Head(rest), f)), Tail(rest))
<1> DEFINE m == ResultMessage(Head(rest), f)
           t == Append(s, m)
           n == Len(s)
           tl == Tail(rest)
<1>1. m \in Message /\ m.role = "tool" /\ m.calls = <<rest[1]>>
  <2>1. Head(rest) \in Calls /\ Head(rest) = rest[1]
    OBVIOUS
  <2> QED BY <2>1, ResultMessageType DEF ResultMessage
<1> HIDE DEF m
<1>2. Len(t) = n + 1 /\ n \in Nat /\ t[n + 1] = m
  BY <1>1
<1>3. \A i \in 1..n : t[i] = s[i]
  BY <1>1
<1>4. Len(rest) \in Nat /\ Len(rest) >= 1 /\ Len(tl) = Len(rest) - 1
      /\ \A i \in 1..Len(tl) : tl[i] = rest[i + 1]
  OBVIOUS
<1>5. \A i \in 1..Len(t) : i \in 1..n \/ i = n + 1
  BY <1>2
<1>6. PICK a \in 1..n : s[a].role = "assistant" /\ a + Len(s[a].calls) = n + Len(rest)
  BY DEF Answers, RestOwed, AssistantAt
<1>7. \A i \in 1..n : Len(s[i].calls) \in Nat
  BY DEF Message
<1> HIDE DEF t, n, tl
<1>8. CallsAnswered(t, tl)
  <2> SUFFICES ASSUME NEW i \in 1..Len(t), t[i].role = "assistant",
                      NEW k \in 1..Len(t[i].calls)
               PROVE  IF i + k <= Len(t)
                      THEN t[i + k].role = "tool" /\ t[i + k].calls = <<t[i].calls[k]>>
                      ELSE i + k - Len(t) <= Len(tl) /\ tl[i + k - Len(t)] = t[i].calls[k]
    BY DEF CallsAnswered, AssistantAt
  <2>1. i \in 1..n /\ t[i] = s[i] /\ k \in 1..Len(s[i].calls)
    BY <1>1, <1>2, <1>3, <1>5
  <2>2. IF i + k <= n
        THEN s[i + k].role = "tool" /\ s[i + k].calls = <<s[i].calls[k]>>
        ELSE i + k - n <= Len(rest) /\ rest[i + k - n] = s[i].calls[k]
    BY <2>1 DEF Answers, CallsAnswered, AssistantAt, n
  <2>3. CASE i + k <= n
    <3>1. i + k \in 1..n /\ i + k <= Len(t)
      BY <1>2, <2>1, <2>3
    <3> QED BY <1>3, <2>1, <2>2, <2>3, <3>1
  <2>4. CASE i + k = n + 1
    <3>1. rest[1] = s[i].calls[k] /\ i + k <= Len(t) /\ t[i + k] = m
      BY <1>2, <2>1, <2>2, <2>4
    <3> QED BY <1>1, <2>1, <3>1
  <2>5. CASE i + k > n + 1
    <3>1. ~(i + k <= Len(t)) /\ ~(i + k <= n)
      BY <1>2, <2>1, <2>5
    <3>2. i + k - n <= Len(rest) /\ rest[i + k - n] = s[i].calls[k]
      BY <2>2, <3>1
    <3>3. i + k - Len(t) \in 1..Len(tl) /\ (i + k - Len(t)) + 1 = i + k - n
      BY <1>2, <1>4, <2>1, <2>5, <3>2
    <3>4. tl[i + k - Len(t)] = rest[i + k - n]
      BY <1>4, <3>3
    <3> QED BY <2>1, <3>1, <3>2, <3>3, <3>4
  <2> QED BY <1>2, <2>1, <2>3, <2>4, <2>5
<1>9. ResultsAsked(t)
  <2> SUFFICES ASSUME NEW j \in 1..Len(t), t[j].role = "tool"
               PROVE  \E i \in 1..(j - 1) : t[i].role = "assistant" /\ j - i <= Len(t[i].calls)
    BY DEF ResultsAsked, AssistantAt
  <2>1. CASE j \in 1..n
    <3>1. PICK i \in 1..(j - 1) : s[i].role = "assistant" /\ j - i <= Len(s[i].calls)
      BY <1>3, <2>1 DEF Answers, ResultsAsked, AssistantAt, n
    <3>2. i \in 1..n /\ t[i] = s[i]
      BY <1>2, <1>3, <2>1
    <3> QED BY <3>1, <3>2
  <2>2. CASE j = n + 1
    <3>1. a \in 1..(j - 1) /\ t[a] = s[a]
      BY <1>2, <1>3, <1>6, <2>2
    <3>2. j - a <= Len(s[a].calls)
      BY <1>2, <1>4, <1>6, <1>7, <2>2
    <3> QED BY <1>6, <3>1, <3>2
  <2> QED BY <1>5, <2>1, <2>2
<1>10. RestOwed(t, tl)
  <2>1. a \in 1..Len(t) /\ t[a] = s[a]
    BY <1>2, <1>3, <1>6
  <2>2. Len(s[a].calls) \in Nat
    BY <1>6, <1>7
  <2>3. a + Len(s[a].calls) = Len(t) + Len(tl)
    <3>1. Len(t) = n + 1 /\ Len(tl) = Len(rest) - 1 /\ n \in Nat /\ Len(rest) \in Nat
      BY <1>2, <1>4
    <3>2. (n + 1) + (Len(rest) - 1) = n + Len(rest)
      BY <3>1
    <3> QED BY <1>6, <3>1, <3>2, Zenon
  <2> QED BY <1>6, <2>1, <2>3 DEF RestOwed, AssistantAt
<1> QED BY <1>8, <1>9, <1>10 DEF Answers, t, m, tl

-----------------------------------------------------------------------------
(* The transcript owes exactly the calls in hand. *)

LEMMA PlainPrompt == ASSUME NEW in \in Inputs
                     PROVE  Plain(SystemStack(in)) /\ Plain(UserTurn(in))
<1>1. \A b \in BOOLEAN, r \in {"system", "user"} :
         When(b, Text(r)) \in Seq(Message) /\ Plain(When(b, Text(r)))
  <2> SUFFICES ASSUME NEW b \in BOOLEAN, NEW r \in {"system", "user"}
               PROVE  When(b, Text(r)) \in Seq(Message) /\ Plain(When(b, Text(r)))
    OBVIOUS
  <2>1. Text(r) \in Message /\ Text(r).role = r
    BY TextType DEF Text
  <2> QED BY <2>1 DEF When, Plain
<1>2. \A s, t \in Seq(Message) : Plain(s) /\ Plain(t) => Plain(s \o t)
  <2> SUFFICES ASSUME NEW s \in Seq(Message), NEW t \in Seq(Message), Plain(s), Plain(t),
                      NEW i \in 1..Len(s \o t)
               PROVE  (s \o t)[i].role \in {"system", "user"}
    BY DEF Plain
  <2>1. CASE i \in 1..Len(s)
    BY <2>1 DEF Plain
  <2>2. CASE i \notin 1..Len(s)
    <3>1. i - Len(s) \in 1..Len(t) /\ (s \o t)[i] = t[i - Len(s)]
      BY <2>2
    <3> QED BY <3>1 DEF Plain
  <2> QED BY <2>1, <2>2
<1>3. \A s, t \in Seq(Message) : s \o t \in Seq(Message)
  OBVIOUS
<1>4. /\ in.system \in BOOLEAN /\ in.planOnly \in BOOLEAN /\ in.prompt \in BOOLEAN
      /\ in.stdin \in BOOLEAN /\ (in.schema # "none") \in BOOLEAN
  BY InputsAssumption DEF RunInput
<1> DEFINE a == When(in.system, Text("system"))
           b == When(in.planOnly, Text("system"))
           c == When(in.schema # "none", Text("system"))
           d == When(in.prompt, Text("user"))
           e == When(in.stdin, Text("user"))
<1>5. /\ a \in Seq(Message) /\ Plain(a)
      /\ b \in Seq(Message) /\ Plain(b)
      /\ c \in Seq(Message) /\ Plain(c)
      /\ d \in Seq(Message) /\ Plain(d)
      /\ e \in Seq(Message) /\ Plain(e)
  BY <1>1, <1>4
<1>6. SystemStack(in) = a \o b \o c /\ UserTurn(in) = d \o e
  BY DEF SystemStack, UserTurn
<1> HIDE DEF a, b, c, d, e
<1>7. a \o b \in Seq(Message) /\ Plain(a \o b)
  BY <1>2, <1>3, <1>5
<1> QED BY <1>2, <1>5, <1>6, <1>7

LEMMA TranscriptInit == Init => TranscriptAnswered
BY AnswersEmpty DEF Init, TranscriptAnswered

LEMMA TranscriptStep ==
    TypeOK /\ TranscriptAnswered /\ [Next]_vars => TranscriptAnswered'
<1> SUFFICES ASSUME TypeOK, TranscriptAnswered, [Next]_vars PROVE TranscriptAnswered'
  OBVIOUS
<1>a. messages \in Seq(Message) /\ calls \in Seq(Calls) /\ input \in Inputs
  BY DEF TypeOK
<1>b. Answers(messages, calls)
  BY DEF TranscriptAnswered
<1>c. pc \in {"start", "step", "request", "waiting", "done"} => calls = <<>>
  BY DEF TranscriptAnswered
\* A step that leaves the transcript and the calls alone.
<1>d. ASSUME UNCHANGED <<messages, calls>>,
             pc' \in {"start", "step", "request", "waiting", "done"} => calls = <<>>
      PROVE  TranscriptAnswered'
  BY <1>b, <1>d DEF TranscriptAnswered
<1>1. ASSUME NEW hookErr \in BOOLEAN, LoopStart(hookErr) PROVE TranscriptAnswered'
  <2>1. CASE messages' = messages
    <3>1. calls = <<>> /\ calls' = calls
      BY <1>1, <1>c DEF LoopStart
    <3> QED BY <1>d, <2>1, <3>1
  <2>2. CASE messages' # messages
    <3> DEFINE sys == SystemStack(input)
               usr == UserTurn(input)
    <3>1. calls = <<>> /\ calls' = calls
      BY <1>1, <1>c DEF LoopStart
    <3>2. messages' = sys \o input.session \o usr
      BY <1>1, <2>2 DEF LoopStart, Fail, transcript
    <3>3. /\ sys \in Seq(Message) /\ usr \in Seq(Message) /\ input.session \in Seq(Message)
          /\ Plain(sys) /\ Plain(usr)
      BY <1>a, PromptTypes, PlainPrompt
    <3>4. Answers(input.session, <<>>)
      BY <1>a, SessionsAssumption
    <3> HIDE DEF sys, usr
    <3>5. sys \o input.session \in Seq(Message) /\ Answers(sys \o input.session, <<>>)
      BY <3>3, <3>4, AnswersPrefix
    <3>6. Answers(messages', <<>>)
      BY <3>2, <3>3, <3>5, AnswersSuffix
    <3> QED BY <3>1, <3>6 DEF TranscriptAnswered
  <2> QED BY <2>1, <2>2
<1>2. ASSUME NEW hookErr \in BOOLEAN, StepStart(hookErr) PROVE TranscriptAnswered'
  BY <1>2, <1>c, <1>d DEF StepStart, transcript
<1>3. ASSUME NEW hookErr \in BOOLEAN, AdmitCall(hookErr) PROVE TranscriptAnswered'
  BY <1>3, <1>d DEF AdmitCall, transcript, Fail
<1>4. CASE SendRequest
  BY <1>4, <1>c, <1>d DEF SendRequest, transcript, Fail
<1>5. CASE RejectCall
  BY <1>5, <1>d DEF RejectCall, transcript, Fail
<1>6. CASE InvalidArguments
  BY <1>6, <1>d DEF InvalidArguments, transcript
<1>7. CASE PlanTool
  BY <1>7, <1>d DEF PlanTool, ValidArguments, transcript
<1>8. CASE StartTool
  BY <1>8, <1>d DEF StartTool, ValidArguments, transcript
<1>9. CASE ToolResultHookFails
  BY <1>9, <1>d DEF ToolResultHookFails, transcript, Fail
<1>10. CASE RecordResult
  <2> DEFINE f == outcome.err # ExitSuccess
  <2>1. messages' = Append(messages, ResultMessage(Head(calls), f)) /\ calls' = Tail(calls)
    BY <1>10 DEF RecordResult
  <2>2. calls # <<>> /\ f \in BOOLEAN
    BY <1>10 DEF RecordResult, TypeOK
  <2>3. pc' \in {"call", "failed"}
    BY <1>10 DEF RecordResult, Judge, Fail
  <2> HIDE DEF f
  <2>4. Answers(messages', calls')
    BY <1>a, <1>b, <2>1, <2>2, AnswersRecord
  <2> QED BY <2>3, <2>4 DEF TranscriptAnswered
<1>11. CASE EndBatch
  BY <1>11, <1>d DEF EndBatch, transcript
<1>12. CASE ResponseTooLate
  BY <1>12, <1>c, <1>d DEF ResponseTooLate, transcript, Fail
<1>13. CASE ProviderFails
  BY <1>13, <1>c, <1>d DEF ProviderFails, transcript, Fail
<1>14. CASE StepCompleteFails
  BY <1>14, <1>c, <1>d DEF StepCompleteFails, Responded, transcript, Fail
<1>15. CASE ProviderRefuses
  BY <1>15, <1>c, <1>d DEF ProviderRefuses, Responded, transcript, Fail
<1>16. CASE ProviderAsksTools
  <2>1. PICK cs \in Responses : calls' = cs /\ messages' = Append(messages, Assistant(cs))
    BY <1>16 DEF ProviderAsksTools
  <2>2. cs \in Seq(Calls) /\ calls = <<>> /\ pc' = "call"
    BY <1>16, <1>c, ResponseType DEF ProviderAsksTools, Responded
  <2>3. Answers(messages', calls')
    BY <1>a, <1>b, <2>1, <2>2, AnswersAsk
  <2> QED BY <2>2, <2>3 DEF TranscriptAnswered
<1>17. ASSUME NEW hookErr \in BOOLEAN, ProviderAnswers(hookErr) PROVE TranscriptAnswered'
  <2>1. messages' = Append(messages, Assistant(<<>>)) /\ calls' = calls /\ calls = <<>>
    BY <1>17, <1>c DEF ProviderAnswers, Responded
  <2>2. Answers(messages', <<>>)
    BY <1>a, <1>b, <2>1, AnswersAsk
  <2> QED BY <2>1, <2>2 DEF TranscriptAnswered
<1>18. CASE ToolReturns
  BY <1>18, <1>d DEF ToolReturns, transcript
<1>19. CASE Expire
  BY <1>19, <1>c, <1>d DEF Expire, transcript
<1>20. CASE Interrupt
  BY <1>20, <1>c, <1>d DEF Interrupt, transcript
<1>21. CASE UNCHANGED vars
  BY <1>21, <1>c, <1>d DEF vars
<1> QED
  BY <1>1, <1>2, <1>3, <1>4, <1>5, <1>6, <1>7, <1>8, <1>9, <1>10, <1>11, <1>12,
     <1>13, <1>14, <1>15, <1>16, <1>17, <1>18, <1>19, <1>20, <1>21
     DEF Next, LoopStep, ProviderReturns

\* Whatever fails, in whatever order responses, tools, hooks and the deadline
\* interleave: every request carries a transcript in which each tool call has
\* exactly its own result, and so does the turn a finished run hands over.
THEOREM TranscriptAlwaysAnswered == Spec => []TranscriptAnswered
<1>1. Init => TypeOK /\ TranscriptAnswered
  BY TypeInit, TranscriptInit
<1>2. TypeOK /\ TranscriptAnswered /\ [Next]_vars => TypeOK' /\ TranscriptAnswered'
  BY TypeStep, TranscriptStep
<1> QED BY <1>1, <1>2, PTL DEF Spec

=============================================================================
