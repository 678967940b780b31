---------------------------- MODULE ProviderClient ----------------------------
(***************************************************************************)
(* One completion request, internal/provider/openrouter/openrouter.go:     *)
(* Client.Complete with doWithRetry and the look-up of the generation's    *)
(* metadata.                                                               *)
(*                                                                         *)
(* A request that meets a rate limit or a server error is repeated after a *)
(* back-off, as often as Backoffs has entries.  The clock counts down: the *)
(* time to the deadline in left, the time to the timer that runs in timer. *)
(* Time passes while something is waited for; an armed timer fires on      *)
(* time.  Of a response only its class is kept: "ok" (below 400),          *)
(* "retryable" (429 and 5xx) or "rejected".  The request's own timeout is  *)
(* the one the caller's deadline was armed with earlier, so the deadline   *)
(* is the caller's.                                                        *)
(*                                                                         *)
(* Loop maps a request to the request step of AgentLoop, which takes the   *)
(* outcome of Complete for granted.                                        *)
(*                                                                         *)
(* A name with a suffix after "_" is a faulty variant of the definition    *)
(* below it, and a property of this module tells the two apart.            *)
(***************************************************************************)
EXTENDS ExitCodes, Sequences

CONSTANTS
    Backoffs,      \* retryBackoffs, in ticks
    RetryAfters,   \* the values of a Retry-After header, in ticks; 0 if there is none
    MetaTimeout,   \* generationMetadataTimeout
    MetaSlack,     \* generationMetadataSlack
    Requests       \* the requests to start from

NoDeadline == -1

Request == [key       : BOOLEAN,              \* an API key is configured
            malformed : BOOLEAN,              \* the output schema is not JSON
            deadline  : Nat \cup {NoDeadline}]  \* time left when it is made

ASSUME BackoffsAssumption    == Backoffs \in Seq(Nat)
ASSUME RetryAftersAssumption == RetryAfters \subseteq Nat
ASSUME MetadataAssumption    == MetaTimeout \in Nat /\ MetaSlack \in Nat
ASSUME RequestsAssumption    == Requests \subseteq Request

VARIABLES
    request,  \* the Request
    ctx,      \* requestCtx.Err(): "live", "deadline" or "canceled"
    left,     \* time left to the deadline, or NoDeadline
    pc,       \* where Complete is
    attempt,  \* retries so far
    resp,     \* the last response: its class and Retry-After
    timer,    \* time left in the back-off or in the metadata look-up
    rests,    \* history: each back-off, the Retry-After it was asked for and the
              \* time slept
    code,     \* the exit code of the error returned, ExitSuccess for a response
    cause     \* what the error returned wraps: "none", or a "timeout" of the connection

vars == <<request, ctx, left, pc, attempt, resp, timer, rests, code, cause>>

MaxRetries == Len(Backoffs)

NoResponse == [class |-> "none", after |-> 0]

Init ==
    /\ request \in Requests
    /\ ctx = "live"
    /\ left = request.deadline
    /\ pc = "build"
    /\ attempt = 0
    /\ resp = NoResponse
    /\ timer = 0
    /\ rests = <<>>
    /\ code = ExitSuccess
    /\ cause = "none"

Return(c) == pc' = "returned" /\ code' = c

-----------------------------------------------------------------------------
\* The body is built and marshalled; a missing key is noticed first.
Build ==
    /\ pc = "build"
    /\ \/ ~request.key /\ Return(ExitRuntime)
       \/ request.key /\ request.malformed /\ Return(ExitSchemaValidation)
       \/ request.key /\ ~request.malformed /\ pc' = "send" /\ UNCHANGED code
    /\ UNCHANGED <<request, ctx, left, attempt, resp, timer, rests, cause>>

\* Every failed request counts as timed out.
DoError_Timeout == ExitTimeout

\* What httpClient.Do fails with is a timeout only if the deadline has passed.
DoError == IF ctx = "deadline" THEN ExitTimeout ELSE ExitRuntime

\* Nothing is sent under a finished context.
Send ==
    /\ pc = "send"
    /\ \/ ctx = "live" /\ pc' = "waiting" /\ UNCHANGED code
       \/ ctx # "live" /\ Return(DoError)
    /\ UNCHANGED <<request, ctx, left, attempt, resp, timer, rests, cause>>

\* The request is made without its context.
RequestFails_NoContext ==
    /\ pc = "waiting"
    /\ ctx = "live"
    /\ Return(ExitRuntime)
    /\ UNCHANGED <<request, ctx, left, attempt, resp, timer, rests, cause>>

\* The connection breaks or cannot be set up in time, or the context is done.  The
\* error the transport gave up the connection with is wrapped in what is returned.
RequestFails ==
    /\ pc = "waiting"
    /\ Return(DoError)
    /\ \/ ctx # "deadline" /\ cause' = "timeout"
       \/ UNCHANGED cause
    /\ UNCHANGED <<request, ctx, left, attempt, resp, timer, rests>>

Headers ==
    /\ pc = "waiting"
    /\ \E class \in {"ok", "retryable", "rejected"}, after \in RetryAfters :
          resp' = [class |-> class, after |-> after]
    /\ pc' = "reading"
    /\ UNCHANGED <<request, ctx, left, attempt, timer, rests, code, cause>>

\* A body cut short, by the deadline too, is a runtime error here.
BodyFails ==
    /\ pc = "reading"
    /\ Return(ExitRuntime)
    /\ UNCHANGED <<request, ctx, left, attempt, resp, timer, rests, cause>>

Body ==
    /\ pc = "reading"
    /\ pc' = "judge"
    /\ UNCHANGED <<request, ctx, left, attempt, resp, timer, rests, code, cause>>

-----------------------------------------------------------------------------
(***************************************************************************)
(* The retry.                                                              *)
(***************************************************************************)
Retryable == resp.class = "retryable" /\ attempt < MaxRetries

\* A Retry-After replaces the back-off, even by less.
Backoff_HeaderFirst == IF resp.after > 0 THEN resp.after ELSE Backoffs[attempt + 1]

\* The server may ask for a longer rest than the back-off, not for a shorter one.
Backoff == IF resp.after > Backoffs[attempt + 1] THEN resp.after ELSE Backoffs[attempt + 1]

\* The deadline is compared with the back-off of the table.
OutOfTime_HeaderForgotten == left # NoDeadline /\ left < Backoffs[attempt + 1]

OutOfTime == left # NoDeadline /\ left < Backoff

Accept ==
    /\ pc = "judge"
    /\ resp.class = "ok"
    /\ pc' = "decode"
    /\ UNCHANGED <<request, ctx, left, attempt, resp, timer, rests, code, cause>>

GiveUp ==
    /\ pc = "judge"
    /\ resp.class # "ok"
    /\ Retryable => OutOfTime
    /\ Return(ExitRuntime)
    /\ UNCHANGED <<request, ctx, left, attempt, resp, timer, rests, cause>>

StartBackOff ==
    /\ pc = "judge"
    /\ Retryable
    /\ ~OutOfTime
    /\ pc' = "backoff"
    /\ timer' = Backoff
    /\ rests' = Append(rests, [asked |-> resp.after, slept |-> 0])
    /\ UNCHANGED <<request, ctx, left, attempt, resp, code, cause>>

\* The timer is left running.
BackOffCut_TimerKept ==
    /\ pc = "backoff"
    /\ ctx # "live"
    /\ Return(ExitTimeout)
    /\ UNCHANGED <<request, ctx, left, attempt, resp, timer, rests, cause>>

\* An interrupt too is reported as a timeout.
BackOffCut ==
    /\ pc = "backoff"
    /\ ctx # "live"
    /\ Return(ExitTimeout)
    /\ timer' = 0
    /\ UNCHANGED <<request, ctx, left, attempt, resp, rests, cause>>

WakeUp ==
    /\ pc = "backoff"
    /\ timer = 0
    /\ pc' = "send"
    /\ attempt' = attempt + 1
    /\ UNCHANGED <<request, ctx, left, resp, timer, rests, code, cause>>

-----------------------------------------------------------------------------
(***************************************************************************)
(* The response and its metadata.                                          *)
(***************************************************************************)
\* No JSON, an error in the body, or no choice in it.
DecodeFails ==
    /\ pc = "decode"
    /\ Return(ExitRuntime)
    /\ UNCHANGED <<request, ctx, left, attempt, resp, timer, rests, cause>>

\* A response without an id has no metadata to look up.
Answer ==
    /\ pc = "decode"
    /\ Return(ExitSuccess)
    /\ UNCHANGED <<request, ctx, left, attempt, resp, timer, rests, cause>>

\* Whatever is left is used for the look-up.
TimeForMetadata_Ignored == ctx = "live"

TimeForMetadata ==
    /\ ctx = "live"
    /\ left = NoDeadline \/ left > MetaTimeout + MetaSlack

LookUp ==
    /\ pc = "decode"
    /\ TimeForMetadata
    /\ pc' = "fetching"
    /\ timer' = MetaTimeout
    /\ UNCHANGED <<request, ctx, left, attempt, resp, rests, code, cause>>

\* The look-up has a timer of its own and no other context; its error is dropped.
LookUpDone ==
    /\ pc = "fetching"
    /\ Return(ExitSuccess)
    /\ timer' = 0
    /\ UNCHANGED <<request, ctx, left, attempt, resp, rests, cause>>

-----------------------------------------------------------------------------
(***************************************************************************)
(* Time and the user.                                                      *)
(***************************************************************************)
Down(t) == IF t > 0 THEN t - 1 ELSE t

Timed == pc \in {"backoff", "fetching"}

\* Time passes in something waited for, and never past a timer that is due.
Tick ==
    /\ Timed \/ pc \in {"waiting", "reading"}
    /\ ~(ctx = "live" /\ left = 0)
    /\ Timed => timer > 0
    /\ left' = Down(left)
    /\ timer' = Down(timer)
    /\ rests' = IF pc = "backoff"
                THEN [rests EXCEPT ![Len(rests)].slept = @ + 1]
                ELSE rests
    /\ UNCHANGED <<request, ctx, pc, attempt, resp, code, cause>>

\* What is left after the return is the caller's.
Expire ==
    /\ pc # "returned"
    /\ ctx = "live"
    /\ left = 0
    /\ ctx' = "deadline"
    /\ UNCHANGED <<request, left, pc, attempt, resp, timer, rests, code, cause>>

Interrupt ==
    /\ pc # "returned"
    /\ ctx = "live"
    /\ ctx' = "canceled"
    /\ UNCHANGED <<request, left, pc, attempt, resp, timer, rests, code, cause>>

\* Steps that wait for nobody.
ClientStep ==
    \/ Build \/ Send
    \/ Accept \/ GiveUp \/ StartBackOff \/ BackOffCut \/ WakeUp
    \/ DecodeFails \/ Answer \/ LookUp

\* Steps the other end takes, or the HTTP client for it.
ServerStep == RequestFails \/ Headers \/ BodyFails \/ Body \/ LookUpDone

Next == ClientStep \/ ServerStep \/ Tick \/ Expire \/ Interrupt

Spec == Init /\ [][Next]_vars

(***************************************************************************)
(* Fairness.  The client goes on, and the HTTP client returns once the     *)
(* context of the request, or the look-up's own timer, is done.  A server  *)
(* may be silent for ever under a live context.                            *)
(***************************************************************************)
FairSpec == /\ Spec
            /\ WF_vars(ClientStep)
            /\ WF_vars(Tick)
            /\ WF_vars(Expire)
            /\ WF_vars(ctx # "live" /\ RequestFails)
            /\ WF_vars(ctx # "live" /\ BodyFails)
            /\ WF_vars(timer = 0 /\ LookUpDone)

-----------------------------------------------------------------------------
(***************************************************************************)
(* Properties.                                                             *)
(***************************************************************************)
Phase == {"build", "send", "waiting", "reading", "judge", "backoff", "decode",
          "fetching", "returned"}

Response == [class : {"none", "ok", "retryable", "rejected"}, after : Nat]

\* Type invariant of Complete's local state.
TypeOK ==
    /\ request \in Requests
    /\ ctx \in {"live", "deadline", "canceled"}
    /\ left \in Nat \cup {NoDeadline}
    /\ pc \in Phase
    /\ attempt \in 0..MaxRetries
    /\ resp \in Response
    /\ timer \in Nat
    /\ ~Timed => timer = 0
    /\ rests \in Seq([asked : Nat, slept : Nat])
    /\ Len(rests) \in {attempt, attempt + 1}
    /\ pc = "backoff" => attempt < MaxRetries /\ Len(rests) = attempt + 1
    /\ code \in ExitCode
    /\ cause \in {"none", "timeout"}

\* A server that asks for a rest gets it: every retry was preceded by a rest at
\* least as long as the table's back-off and as the Retry-After of the response
\* it answers, over all combinations of responses and timers.
RetriesRested ==
    \A i \in 1..attempt : /\ rests[i].slept >= Backoffs[i]
                          /\ rests[i].slept >= rests[i].asked

\* A rest that the deadline is bound to cut short is not begun: the caller gets
\* the provider's own error instead of a timeout much later.
RestFitsDeadline == pc = "backoff" /\ left # NoDeadline => timer <= left

\* The look-up of the metadata, which is only for the log, never makes an answer
\* that came in time late: the deadline does not pass during it.
LookUpKeepsAnswer == [][pc = "fetching" => ctx' # "deadline"]_vars

\* A request whose context is done returns, wherever it is: AgentLoop's fairness
\* assumption on the provider.
FinishedContextReturns == ctx # "live" ~> pc = "returned"

-----------------------------------------------------------------------------
(***************************************************************************)
(* The request as AgentLoop sees it: pc "request" until something is sent, *)
(* then "waiting", then the loop's reading of the outcome.                 *)
(***************************************************************************)
LoopInput == [system |-> FALSE, planOnly |-> FALSE,
              schema |-> IF request.malformed THEN "malformed" ELSE "none",
              session |-> <<>>, prompt |-> FALSE, stdin |-> FALSE,
              failFast |-> FALSE, capture |-> FALSE,
              timeout |-> request.deadline # NoDeadline, maxSteps |-> 1, budget |-> 0]

Unsent   == pc = "build" \/ (pc = "send" /\ attempt = 0)
Answered == pc = "returned" /\ code = ExitSuccess /\ ctx # "deadline"

LoopPC == IF Unsent THEN "request"
          ELSE IF pc # "returned" THEN "waiting"
          ELSE IF Answered THEN "done" ELSE "failed"

LoopExit == IF pc = "returned" /\ (ctx = "deadline" \/ cause = "timeout") THEN ExitTimeout
            ELSE code

LoopMessages == IF Answered
                THEN <<[role |-> "assistant", calls |-> <<>>, failed |-> FALSE]>>
                ELSE <<>>

Loop == INSTANCE AgentLoop WITH
            Calls <- {}, MaxCalls <- 0, Allowed <- {}, Registered <- {}, Inputs <- {},
            input <- LoopInput, pc <- LoopPC, step <- 1,
            messages <- LoopMessages, newMessages <- LoopMessages,
            calls <- <<>>, outcome <- [err |-> ExitSuccess, cmd |-> FALSE, ran |-> FALSE],
            failures <- 0, usage <- IF Answered THEN 1 ELSE 0, toolsUsed <- {},
            commands <- <<>>, effects <- <<>>, exit <- LoopExit

\* Retries, back-off and look-up together are one request of AgentLoop: it fails
\* before anything is sent or after, with the codes the loop expects there, or
\* answers; an outcome after the deadline is a timeout, and so is a connection that
\* timed out before it.
ImplementsLoopRequest ==
    [][Loop!SendRequest \/ Loop!ProviderReturns \/ Loop!Expire \/ Loop!Interrupt]_(Loop!vars)

=============================================================================
