------------------------- MODULE ProviderClientProofs -------------------------
(***************************************************************************)
(* Theorems about ProviderClient, for every table of back-offs, every      *)
(* Retry-After, every deadline and every look-up timeout.                  *)
(***************************************************************************)
EXTENDS ProviderClient, TLAPS

(***************************************************************************)
(* What TypeOK and the safety properties rest on.                          *)
(***************************************************************************)
\* The back-off in progress has slept what its timer has lost.
RestInv ==
    /\ pc \notin {"backoff", "returned"} => Len(rests) = attempt
    /\ pc = "backoff" =>
          /\ rests[attempt + 1].slept + timer >= Backoffs[attempt + 1]
          /\ rests[attempt + 1].slept + timer >= rests[attempt + 1].asked

\* The deadline is further away than the look-up's timer.
LookUpInv ==
    pc = "fetching" => /\ ctx # "deadline"
                       /\ left = NoDeadline \/ left > timer + MetaSlack

\* Nothing is decided before the return, and nothing sent with a bad schema.
RequestInv ==
    /\ pc = "build" => attempt = 0
    /\ pc # "returned" => code = ExitSuccess /\ cause = "none"
    /\ pc \notin {"build", "returned"} => ~request.malformed
    /\ ctx = "deadline" => request.deadline # NoDeadline
    /\ left # NoDeadline => request.deadline # NoDeadline

IInv == TypeOK /\ RetriesRested /\ RestFitsDeadline /\ RestInv /\ LookUpInv /\ RequestInv

Rest == [asked : Nat, slept : Nat]

LEMMA RestType == ASSUME NEW s \in Seq(Rest), NEW n \in 1..Len(s)
                  PROVE  s[n] \in Rest /\ s[n].slept \in Nat /\ s[n].asked \in Nat
<1>1. s[n] \in Rest
  OBVIOUS
<1> QED BY <1>1 DEF Rest

\* One tick more in the n-th rest.
LEMMA RestGrows == ASSUME NEW s \in Seq(Rest), NEW n \in 1..Len(s)
                   PROVE  LET t == [s EXCEPT ![n].slept = @ + 1]
                          IN  /\ t \in Seq(Rest) /\ Len(t) = Len(s)
                              /\ \A i \in 1..Len(s) : i # n => t[i] = s[i]
                              /\ t[n].slept = s[n].slept + 1 /\ t[n].asked = s[n].asked
<1> DEFINE r == [s[n] EXCEPT !.slept = @ + 1]
           t == [s EXCEPT ![n] = r]
<1>1. r \in Rest /\ r.slept = s[n].slept + 1 /\ r.asked = s[n].asked
  BY RestType DEF Rest
<1> HIDE DEF r
<1>2. /\ t \in Seq(Rest) /\ Len(t) = Len(s) /\ t[n] = r
      /\ \A i \in 1..Len(s) : i # n => t[i] = s[i]
  BY <1>1
<1> QED BY <1>1, <1>2 DEF r

USE BackoffsAssumption, RetryAftersAssumption, MetadataAssumption, RequestsAssumption
    DEF ExitCode, ExitSuccess, ExitRuntime, ExitTimeout, ExitSchemaValidation, NoDeadline,
        MaxRetries

THEOREM InitInv == Init => IInv
BY DEF Init, IInv, TypeOK, RetriesRested, RestFitsDeadline, RestInv, LookUpInv, RequestInv,
       Request, Response, NoResponse, Phase, Timed

LEMMA DownType == \A t \in Nat : /\ Down(t) \in Nat
                                 /\ t > 0 => Down(t) = t - 1
                                 /\ t = 0 => Down(t) = 0
BY DEF Down

LEMMA DownNoDeadline == Down(NoDeadline) = NoDeadline
BY DEF Down

THEOREM StepInv == IInv /\ [Next]_vars => IInv'
<1> SUFFICES ASSUME IInv, [Next]_vars PROVE IInv'
  OBVIOUS
<1> USE DEF IInv, TypeOK, RetriesRested, RestFitsDeadline, RestInv, LookUpInv, RequestInv,
            Phase, Return, Timed
<1>r. rests \in Seq(Rest)
  BY DEF Rest
<1>0. request.deadline \in Nat \cup {NoDeadline} /\ request.malformed \in BOOLEAN
  BY DEF Request
<1>1. CASE Build
  BY <1>1, <1>0 DEF Build
<1>2. CASE Send
  BY <1>2 DEF Send, DoError
<1>3. CASE RequestFails
  BY <1>3 DEF RequestFails, DoError
<1>4. CASE Headers
  BY <1>4 DEF Headers, Response
<1>5. CASE BodyFails
  <2>1. /\ pc = "reading" /\ pc' = "returned" /\ code' = ExitRuntime
        /\ UNCHANGED <<request, ctx, left, attempt, resp, timer, rests, cause>>
    BY <1>5 DEF BodyFails
  <2>2. TypeOK'
    BY <2>1
  <2>3. RetriesRested'
    BY <2>1
  <2>4. RestFitsDeadline' /\ RestInv' /\ LookUpInv' /\ RequestInv'
    BY <2>1
  <2> QED BY <2>2, <2>3, <2>4
<1>6. CASE Body
  BY <1>6 DEF Body
<1>7. CASE Accept
  BY <1>7 DEF Accept
<1>8. CASE GiveUp
  BY <1>8 DEF GiveUp
<1>9. CASE StartBackOff
  <2>1. TypeOK' /\ RequestInv' /\ LookUpInv'
    BY <1>9 DEF StartBackOff, Retryable, Backoff, Response
  <2>2. RetriesRested' /\ RestFitsDeadline' /\ RestInv'
    BY <1>9 DEF StartBackOff, Retryable, OutOfTime, Backoff, Response
  <2> QED BY <2>1, <2>2
<1>10. CASE BackOffCut
  <2>1. /\ pc = "backoff" /\ pc' = "returned" /\ code' = ExitTimeout /\ timer' = 0
        /\ UNCHANGED <<request, ctx, left, attempt, resp, rests, cause>>
    BY <1>10 DEF BackOffCut
  <2>2. TypeOK'
    BY <2>1
  <2>3. RetriesRested'
    BY <2>1
  <2>4. RestFitsDeadline' /\ RestInv' /\ LookUpInv' /\ RequestInv'
    BY <2>1
  <2> QED BY <2>2, <2>3, <2>4
<1>11. CASE WakeUp
  <2>1. attempt' = attempt + 1 /\ attempt' <= MaxRetries /\ Len(rests) = attempt'
    BY <1>11 DEF WakeUp
  <2>2. /\ rests[attempt + 1].slept >= Backoffs[attempt + 1]
        /\ rests[attempt + 1].slept >= rests[attempt + 1].asked
    <3>1. rests[attempt + 1].slept \in Nat
      <4>1. attempt + 1 \in 1..Len(rests)
        BY <2>1
      <4> QED BY <4>1, <1>r, RestType
    <3>2. timer = 0 /\ pc = "backoff"
      BY <1>11 DEF WakeUp
    <3> QED BY <3>1, <3>2
  <2>3. RetriesRested'
    BY <1>11, <2>1, <2>2 DEF WakeUp
  <2> QED BY <1>11, <2>1, <2>3 DEF WakeUp
<1>12. CASE DecodeFails
  BY <1>12 DEF DecodeFails
<1>13. CASE Answer
  BY <1>13 DEF Answer
<1>14. CASE LookUp
  BY <1>14 DEF LookUp, TimeForMetadata
<1>15. CASE LookUpDone
  BY <1>15 DEF LookUpDone
<1>16. CASE Tick
  <2>1. /\ left' \in Nat \cup {NoDeadline} /\ timer' \in Nat
        /\ left' = NoDeadline <=> left = NoDeadline
        /\ left # NoDeadline => left' \in {left, left - 1}
        /\ Timed => timer' = timer - 1
        /\ ~Timed => timer' = 0
        /\ left' = left => left = NoDeadline \/ left = 0
    BY <1>16, DownType, DownNoDeadline DEF Tick
  <2>2. CASE pc = "backoff"
    <3>1. rests' = [rests EXCEPT ![Len(rests)].slept = @ + 1] /\ Len(rests) = attempt + 1
      BY <1>16, <2>2 DEF Tick
    <3>2. /\ rests' \in Seq([asked : Nat, slept : Nat])
          /\ Len(rests') = attempt + 1
          /\ \A i \in 1..attempt : rests'[i] = rests[i]
          /\ rests'[attempt + 1].slept = rests[attempt + 1].slept + 1
          /\ rests'[attempt + 1].asked = rests[attempt + 1].asked
      <4> DEFINE n == attempt + 1
                 t == [rests EXCEPT ![n].slept = @ + 1]
      <4>1. n \in 1..Len(rests) /\ n = Len(rests) /\ rests' = t
        BY <3>1
      <4>2. /\ t \in Seq(Rest) /\ Len(t) = Len(rests)
            /\ \A i \in 1..Len(rests) : i # n => t[i] = rests[i]
            /\ t[n].slept = rests[n].slept + 1 /\ t[n].asked = rests[n].asked
        BY <4>1, <1>r, RestGrows
      <4>3. \A i \in 1..attempt : i \in 1..Len(rests) /\ i # n
        BY <4>1
      <4> HIDE DEF t
      <4> QED BY <4>1, <4>2, <4>3 DEF Rest
    <3>3. TypeOK' /\ RestFitsDeadline' /\ LookUpInv' /\ RequestInv'
      BY <1>16, <2>1, <2>2, <3>2 DEF Tick
    <3>4. RetriesRested'
      BY <1>16, <2>2, <3>2 DEF Tick
    <3>5. RestInv'
      BY <1>16, <2>1, <2>2, <3>2 DEF Tick
    <3> QED BY <3>3, <3>4, <3>5
  <2>3. CASE pc # "backoff"
    BY <1>16, <2>1, <2>3 DEF Tick
  <2> QED BY <2>2, <2>3
<1>17. CASE Expire
  BY <1>17 DEF Expire
<1>18. CASE Interrupt
  BY <1>18 DEF Interrupt
<1>19. CASE UNCHANGED vars
  BY <1>19 DEF vars
<1> QED
  BY <1>1, <1>2, <1>3, <1>4, <1>5, <1>6, <1>7, <1>8, <1>9, <1>10, <1>11, <1>12, <1>13,
     <1>14, <1>15, <1>16, <1>17, <1>18, <1>19 DEF Next, ClientStep, ServerStep

\* IInv is inductive.
THEOREM Invariance == Spec => []IInv
BY InitInv, StepInv, PTL DEF Spec

\* Every reachable state of a request is well typed; in particular there is never a
\* retry more than the table has back-offs.
THEOREM TypeCorrect == Spec => []TypeOK
<1>1. IInv => TypeOK
  BY DEF IInv
<1> QED BY <1>1, Invariance, PTL

\* doWithRetry never repeats a request sooner than its table and the server's
\* Retry-After allow, for every table and every sequence of answers.
THEOREM RetriesAlwaysRested == Spec => []RetriesRested
<1>1. IInv => RetriesRested
  BY DEF IInv
<1> QED BY <1>1, Invariance, PTL

\* doWithRetry never starts a back-off that the deadline is bound to cut short.
THEOREM RestAlwaysFits == Spec => []RestFitsDeadline
<1>1. IInv => RestFitsDeadline
  BY DEF IInv
<1> QED BY <1>1, Invariance, PTL

\* The deadline never passes while enrichGenerationMetadata looks the metadata of an
\* answer up, for every deadline, timeout and slack.
THEOREM LookUpAlwaysKeepsAnswer == Spec => LookUpKeepsAnswer
<1>1. IInv /\ [Next]_vars => [pc = "fetching" => ctx' # "deadline"]_vars
  <2> SUFFICES ASSUME IInv, [Next]_vars, pc = "fetching" PROVE ctx' # "deadline"
    OBVIOUS
  <2>1. ctx # "deadline" /\ left # 0
    BY DEF IInv, LookUpInv, TypeOK
  <2> QED
    BY <2>1 DEF Next, ClientStep, ServerStep, vars, Build, Send, RequestFails, Headers,
       BodyFails, Body, Accept, GiveUp, StartBackOff, BackOffCut, WakeUp, DecodeFails,
       Answer, LookUp, LookUpDone, Tick, Expire, Interrupt
<1> QED BY <1>1, Invariance, PTL DEF Spec, LookUpKeepsAnswer

-----------------------------------------------------------------------------
(***************************************************************************)
(* The client implements the request step of AgentLoop.                    *)
(***************************************************************************)
LoopStep == Loop!SendRequest \/ Loop!ProviderReturns \/ Loop!Expire \/ Loop!Interrupt

Seen == <<LoopInput, ctx, LoopPC, LoopMessages, Answered, LoopExit>>

LEMMA SeenIsAll == UNCHANGED Seen => UNCHANGED Loop!vars
BY DEF Seen, Loop!vars

\* What an error looks like to the loop.
LEMMA ErrorSeen ==
    ASSUME IInv, pc # "returned", pc' = "returned", code' # ExitSuccess,
           cause' \in {"none", "timeout"}, UNCHANGED <<request, ctx>>
    PROVE  /\ LoopPC' = "failed"
           /\ LoopExit' = IF ctx = "deadline" \/ cause' = "timeout" THEN ExitTimeout
                          ELSE code'
           /\ LoopExit = ExitSuccess
           /\ UNCHANGED <<LoopInput, LoopMessages, Answered>>
BY DEF IInv, RequestInv, LoopPC, LoopExit, Answered, LoopInput, LoopMessages, Unsent

\* An error before anything is sent, and the loop's reading of it.
LEMMA SendErrorImplements ==
    ASSUME IInv, Unsent, pc' = "returned", code' # ExitSuccess, cause' = "none",
           UNCHANGED <<request, ctx>>, NEW e \in Loop!SendErrors, e # ExitSuccess,
           ctx = "deadline" \/ code' = e
    PROVE  Loop!SendRequest
<1>1. LoopPC = "request" /\ pc # "returned"
  BY DEF LoopPC, Unsent
<1>2. /\ LoopPC' = "failed" /\ LoopExit' = Loop!NormalizeContextError(e, FALSE)
      /\ UNCHANGED <<LoopInput, LoopMessages, Answered>>
  BY <1>1, ErrorSeen DEF Loop!NormalizeContextError, Loop!Expired, Loop!ExitSuccess,
     Loop!ExitTimeout
<1> QED
  BY <1>1, <1>2 DEF Loop!SendRequest, Loop!Fail, Loop!transcript, Loop!telemetry

\* An error after something was sent.
LEMMA ErrorImplements ==
    ASSUME IInv, ~Unsent, pc # "returned", pc' = "returned",
           code' \in {ExitRuntime, ExitTimeout}, code' = ExitTimeout => ctx # "live",
           cause' \in {"none", "timeout"}, UNCHANGED <<request, ctx>>
    PROVE  Loop!ProviderReturns
<1>1. LoopPC = "waiting"
  BY DEF LoopPC
<1>e. PICK timedOut \in BOOLEAN :
         /\ LoopPC' = "failed" /\ LoopExit' = Loop!NormalizeContextError(code', timedOut)
         /\ UNCHANGED <<LoopInput, LoopMessages, Answered>>
  <2>1. CASE cause' = "timeout"
    <3>1. /\ LoopPC' = "failed" /\ LoopExit' = Loop!NormalizeContextError(code', TRUE)
          /\ UNCHANGED <<LoopInput, LoopMessages, Answered>>
      BY <2>1, ErrorSeen DEF Loop!NormalizeContextError, Loop!ExitSuccess, Loop!ExitTimeout
    <3> QED BY <3>1
  <2>2. CASE cause' = "none"
    <3>1. /\ LoopPC' = "failed" /\ LoopExit' = Loop!NormalizeContextError(code', FALSE)
          /\ UNCHANGED <<LoopInput, LoopMessages, Answered>>
      BY <2>2, ErrorSeen DEF Loop!NormalizeContextError, Loop!Expired, Loop!ExitSuccess,
         Loop!ExitTimeout
    <3> QED BY <3>1
  <2> QED BY <2>1, <2>2
<1>2. CASE ctx = "deadline"
  <2>1. LoopExit' = ExitTimeout
    BY <1>2, <1>e DEF Loop!NormalizeContextError, Loop!Expired, Loop!ExitSuccess, Loop!ExitTimeout
  <2> QED
    BY <1>1, <1>2, <1>e, <2>1 DEF Loop!ProviderReturns, Loop!ResponseTooLate, Loop!Fail,
       Loop!Expired, Loop!transcript, Loop!telemetry, Loop!ExitTimeout
<1>3. CASE ctx # "deadline"
  <2>1. Loop!Fail(Loop!NormalizeContextError(code', timedOut))
    BY <1>e DEF Loop!Fail
  <2>2. code' \in Loop!ProviderErrors
    BY <1>3 DEF Loop!ProviderErrors, Loop!ExitRuntime, Loop!ExitTimeout, IInv, TypeOK
  <2> QED
    BY <1>1, <1>3, <1>e, <2>1, <2>2 DEF Loop!ProviderReturns, Loop!ProviderFails,
       Loop!Expired, Loop!transcript, Loop!telemetry
<1> QED BY <1>2, <1>3

\* A response is an answer, or too late.
LEMMA AnswerImplements ==
    ASSUME IInv, pc \in {"decode", "fetching"}, pc' = "returned", code' = ExitSuccess,
           cause' = "none", UNCHANGED <<request, ctx>>
    PROVE  Loop!ProviderReturns
<1>1. LoopPC = "waiting" /\ ~Answered /\ LoopExit = ExitSuccess /\ LoopMessages = <<>>
  BY DEF LoopPC, Unsent, Answered, LoopExit, LoopMessages, IInv, RequestInv
<1>2. UNCHANGED LoopInput
  BY DEF LoopInput
<1>3. CASE ctx = "deadline"
  <2>1. LoopPC' = "failed" /\ ~Answered' /\ LoopExit' = ExitTimeout /\ LoopMessages' = <<>>
    BY <1>3 DEF LoopPC, Unsent, Answered, LoopExit, LoopMessages
  <2> QED
    BY <1>1, <1>2, <1>3, <2>1 DEF Loop!ProviderReturns, Loop!ResponseTooLate, Loop!Fail,
       Loop!Expired, Loop!transcript, Loop!telemetry, Loop!ExitTimeout
<1>4. CASE ctx # "deadline"
  <2>1. LoopPC' = "done" /\ Answered' /\ LoopExit' = ExitSuccess
    BY <1>4 DEF LoopPC, Unsent, Answered, LoopExit
  <2>2. LoopMessages' = <<Loop!Assistant(<<>>)>>
    BY <2>1 DEF LoopMessages, Loop!Assistant
  <2>3. LoopMessages' = Append(LoopMessages, Loop!Assistant(<<>>))
    BY <1>1, <2>2
  <2>4. Loop!Responded
    BY <1>1, <1>4, <2>1 DEF Loop!Responded, Loop!Expired
  <2>5. Loop!ProviderAnswers(FALSE)
    BY <1>1, <1>2, <2>1, <2>3, <2>4 DEF Loop!ProviderAnswers, Loop!ExitSuccess
  <2> QED BY <2>5 DEF Loop!ProviderReturns
<1> QED BY <1>3, <1>4

LEMMA StepImplements == IInv /\ [Next]_vars => [LoopStep]_(Loop!vars)
<1> SUFFICES ASSUME IInv, [Next]_vars PROVE LoopStep \/ UNCHANGED Seen
  BY SeenIsAll
<1> USE DEF Return
<1>1. CASE Build
  <2>1. /\ Unsent /\ UNCHANGED <<request, ctx, attempt>> /\ attempt = 0
        /\ code = ExitSuccess /\ cause = "none" /\ cause' = "none"
    BY <1>1 DEF Build, Unsent, IInv, RequestInv
  <2>2. CASE pc' = "send"
    BY <1>1, <2>1, <2>2 DEF Build, Seen, LoopInput, LoopPC, LoopMessages, Answered, LoopExit,
       Unsent
  <2>3. CASE pc' # "send"
    <3>1. pc' = "returned" /\ code' # ExitSuccess /\ code' \in Loop!SendErrors
      BY <1>1, <2>3 DEF Build, Loop!SendErrors, LoopInput, Loop!ExitRuntime,
         Loop!ExitSchemaValidation
    <3> QED BY <2>1, <3>1, SendErrorImplements DEF LoopStep
  <2> QED BY <2>2, <2>3
<1>2. CASE Send
  <2>1. /\ pc = "send" /\ UNCHANGED <<request, ctx, attempt>> /\ code = ExitSuccess
        /\ ~request.malformed /\ cause = "none" /\ cause' = "none"
    BY <1>2 DEF Send, IInv, RequestInv
  <2>2. CASE ctx = "live" /\ attempt = 0
    <3>1. /\ LoopPC = "request" /\ LoopPC' = "waiting" /\ LoopInput.schema # "malformed"
          /\ UNCHANGED <<LoopInput, LoopMessages, Answered, LoopExit>>
      BY <1>2, <2>1, <2>2 DEF Send, LoopPC, Unsent, LoopInput, LoopMessages, Answered,
         LoopExit
    <3> QED
      BY <2>1, <2>2, <3>1 DEF LoopStep, Loop!SendRequest, Loop!transcript, Loop!telemetry
  <2>3. CASE ctx = "live" /\ attempt # 0
    BY <1>2, <2>1, <2>3 DEF Send, Seen, LoopInput, LoopPC, LoopMessages, Answered, LoopExit,
       Unsent
  <2>4. CASE ctx # "live"
    <3>1. pc' = "returned" /\ code' \in {ExitRuntime, ExitTimeout}
      BY <1>2, <2>4 DEF Send, DoError
    <3>2. CASE attempt # 0
      BY <2>1, <2>4, <3>1, <3>2, ErrorImplements DEF Unsent, LoopStep
    <3>3. CASE attempt = 0
      <4>1. Unsent
        BY <2>1, <3>3 DEF Unsent
      <4>2. ExitRuntime \in Loop!SendErrors
        BY DEF Loop!SendErrors, Loop!ExitRuntime
      <4>3. ctx = "deadline" \/ code' = ExitRuntime
        BY <1>2, <2>4 DEF Send, DoError
      <4> QED BY <2>1, <3>1, <4>1, <4>2, <4>3, SendErrorImplements DEF LoopStep
    <3> QED BY <3>2, <3>3
  <2> QED BY <2>2, <2>3, <2>4
<1>3. CASE RequestFails \/ BodyFails \/ GiveUp \/ DecodeFails \/ BackOffCut
  <2>1. /\ ~Unsent /\ pc # "returned" /\ pc' = "returned"
        /\ code' \in {ExitRuntime, ExitTimeout} /\ (code' = ExitTimeout => ctx # "live")
        /\ cause' \in {"none", "timeout"} /\ UNCHANGED <<request, ctx>>
    BY <1>3 DEF RequestFails, BodyFails, GiveUp, DecodeFails, BackOffCut, DoError, Unsent,
       IInv, RequestInv
  <2> QED BY <2>1, ErrorImplements DEF LoopStep
<1>4. CASE Answer \/ LookUpDone
  <2>1. cause' = "none"
    BY <1>4 DEF Answer, LookUpDone, IInv, RequestInv
  <2> QED BY <1>4, <2>1, AnswerImplements DEF Answer, LookUpDone, LoopStep
<1>5. CASE Headers \/ Body \/ Accept \/ StartBackOff \/ WakeUp \/ LookUp \/ Tick
            \/ UNCHANGED vars
  <2>1. /\ UNCHANGED <<request, ctx, code, cause>> /\ (pc = "returned" <=> pc' = "returned")
        /\ (Unsent <=> Unsent')
    BY <1>5 DEF Headers, Body, Accept, StartBackOff, WakeUp, LookUp, Tick, vars, Unsent, IInv,
       TypeOK, Timed
  <2> QED
    BY <2>1 DEF Seen, LoopInput, LoopPC, LoopMessages, Answered, LoopExit
<1>6. CASE Expire \/ Interrupt
  <2>1. /\ pc # "returned" /\ ctx = "live"
        /\ UNCHANGED <<LoopInput, LoopPC, LoopMessages, Answered, LoopExit>>
    BY <1>6 DEF Expire, Interrupt, LoopInput, LoopPC, LoopMessages, Answered, LoopExit, Unsent
  <2>2. CASE Expire
    <3>0. request.deadline # NoDeadline /\ ctx' = "deadline"
      BY <2>2 DEF Expire, IInv, RequestInv
    <3>1. LoopInput.timeout
      BY <3>0 DEF LoopInput
    <3> QED
      BY <2>1, <3>0, <3>1 DEF LoopStep, Loop!Expire, Loop!transcript, Loop!telemetry
  <2>3. CASE Interrupt
    BY <2>1, <2>3 DEF Interrupt, LoopStep, Loop!Interrupt, Loop!transcript, Loop!telemetry
  <2> QED BY <1>6, <2>2, <2>3
<1> QED BY <1>1, <1>2, <1>3, <1>4, <1>5, <1>6 DEF Next, ClientStep, ServerStep

\* Client.Complete implements the request step of AgentLoop, for every table of
\* back-offs, every deadline and every answer: what the loop assumes of a provider is
\* what the client does, and nothing else of it is visible there.
THEOREM ClientImplementsRequest == Spec => ImplementsLoopRequest
BY Invariance, StepImplements, PTL DEF Spec, ImplementsLoopRequest, LoopStep

=============================================================================
