------------------------------- MODULE BashTool -------------------------------
(***************************************************************************)
(* A shell command, internal/tools/bash/bash.go: Tool.Execute once the     *)
(* arguments are parsed and plan mode is ruled out.                        *)
(*                                                                         *)
(* The command runs under a context of its own, cmd, which ends with the   *)
(* invocation's or when timeout_seconds have passed.  The end of the       *)
(* context kills the shell, not what the shell has started: processes that *)
(* inherited its output may go on, and cmd.Run (os/exec) also waits for    *)
(* them to let go of the pipes.                                            *)
(*                                                                         *)
(* Loop maps a command to AgentLoop's StartTool and ToolReturns.           *)
(*                                                                         *)
(* A name with a suffix after "_" is a faulty variant of the definition    *)
(* below it, and a property of this module tells the two apart.            *)
(***************************************************************************)
EXTENDS ExitCodes, Sequences

CONSTANTS
    Children,   \* the processes the command may start
    Seconds,    \* the values of timeout_seconds; 0 if it is absent
    Unit,       \* time.Second, in ticks
    MaxInt      \* the largest time.Duration

ASSUME SecondsAssumption == Seconds \subseteq Nat
ASSUME UnitAssumption    == Unit \in Nat \ {0}
ASSUME MaxIntAssumption  == MaxInt \in Nat

VARIABLES
    seconds,  \* in.TimeoutSeconds
    ctx,      \* ctx.Err() of the invocation: "live", "deadline" or "canceled"
    cmd,      \* cmdCtx.Err()
    timer,    \* time left on the command's own timer
    elapsed,  \* history: time passed on it
    pc,       \* where Execute is
    shell,    \* the shell: "none", "running", or how it ended, "ok" or "bad"
    holders,  \* the processes behind it that hold its output
    result    \* the exit code of the error returned

vars == <<seconds, ctx, cmd, timer, elapsed, pc, shell, holders, result>>

\* time.Duration(n) * time.Second, in a machine integer.
Duration(n) == ((n * Unit + MaxInt + 1) % (2 * (MaxInt + 1))) - (MaxInt + 1)

Init ==
    /\ seconds \in Seconds
    /\ ctx \in {"live", "deadline", "canceled"}
    /\ cmd = ctx
    /\ timer = 0
    /\ elapsed = 0
    /\ pc = "start"
    /\ shell = "none"
    /\ holders = {}
    /\ result = ExitSuccess

\* Whether the command's timer has passed before it is armed.
PassedAtOnce == seconds > 0 /\ Duration(seconds) <= 0

\* The context is derived and the shell started, unless that context is done or
\* the system refuses.
Start ==
    /\ pc = "start"
    /\ cmd' = IF ctx = "live" /\ PassedAtOnce THEN "deadline" ELSE ctx
    /\ \/ cmd' = "live" /\ pc' = "wait" /\ shell' = "running"
       \/ pc' = "check" /\ shell' = "none"
    /\ timer' = IF seconds > 0 /\ ~PassedAtOnce THEN Duration(seconds) ELSE 0
    /\ UNCHANGED <<seconds, ctx, elapsed, holders, result>>

-----------------------------------------------------------------------------
(***************************************************************************)
(* The processes.                                                          *)
(***************************************************************************)
Fork(c) ==
    /\ shell = "running" \/ holders # {}
    /\ holders' = holders \cup {c}
    /\ UNCHANGED <<seconds, ctx, cmd, timer, elapsed, pc, shell, result>>

\* A child ends, or closes the output it inherited.
LetGo(c) ==
    /\ c \in holders
    /\ holders' = holders \ {c}
    /\ UNCHANGED <<seconds, ctx, cmd, timer, elapsed, pc, shell, result>>

ShellExits ==
    /\ shell = "running"
    /\ shell' \in {"ok", "bad"}
    /\ UNCHANGED <<seconds, ctx, cmd, timer, elapsed, pc, holders, result>>

\* The shell is killed for the invocation's context, not for its own timeout.
Kill_RunOnly ==
    /\ pc = "wait"
    /\ ctx # "live"
    /\ shell' = "bad"
    /\ UNCHANGED <<seconds, ctx, cmd, timer, elapsed, pc, holders, result>>

\* A shell that has just ended, but is not waited for yet, is killed as well: then
\* the context's error is the command's, however it ended.
Kill ==
    /\ pc = "wait"
    /\ cmd # "live"
    /\ shell' = "bad"
    /\ UNCHANGED <<seconds, ctx, cmd, timer, elapsed, pc, holders, result>>

-----------------------------------------------------------------------------
(***************************************************************************)
(* cmd.Run and what Execute makes of its end.                              *)
(***************************************************************************)
ShellWaited ==
    /\ pc = "wait"
    /\ shell # "running"
    /\ pc' = "drain"
    /\ UNCHANGED <<seconds, ctx, cmd, timer, elapsed, shell, holders, result>>

\* The pipes are given up when the context is done.
Drained_GivenUp ==
    /\ pc = "drain"
    /\ holders = {} \/ cmd # "live"
    /\ pc' = "check"
    /\ UNCHANGED <<seconds, ctx, cmd, timer, elapsed, shell, holders, result>>

Drained ==
    /\ pc = "drain"
    /\ holders = {}
    /\ pc' = "check"
    /\ UNCHANGED <<seconds, ctx, cmd, timer, elapsed, shell, holders, result>>

\* Any end of the context is a timeout.
TimedOut_AnyEnd == cmd # "live"

TimedOut == cmd = "deadline" \/ ctx = "deadline"

\* The success of the command decides first, the deadline after it.
Check_StatusFirst ==
    /\ pc = "check"
    /\ pc' = "returned"
    /\ result' = IF shell = "ok" THEN ExitSuccess
                 ELSE IF TimedOut THEN ExitTimeout ELSE ExitShellFailure
    /\ UNCHANGED <<seconds, ctx, cmd, timer, elapsed, shell, holders>>

\* A deadline that has passed by now wins over everything the command did.
Check ==
    /\ pc = "check"
    /\ pc' = "returned"
    /\ result' = IF TimedOut THEN ExitTimeout
                 ELSE IF shell = "ok" THEN ExitSuccess ELSE ExitShellFailure
    /\ UNCHANGED <<seconds, ctx, cmd, timer, elapsed, shell, holders>>

-----------------------------------------------------------------------------
(***************************************************************************)
(* Time and the user.  The end of the invocation's context is that of the  *)
(* command's at the same moment, unless that is done already.              *)
(***************************************************************************)
Running == pc \in {"wait", "drain", "check"}

Tick ==
    /\ Running
    /\ timer > 0
    /\ timer' = timer - 1
    /\ elapsed' = elapsed + 1
    /\ UNCHANGED <<seconds, ctx, cmd, pc, shell, holders, result>>

TimerFires ==
    /\ Running
    /\ cmd = "live"
    /\ seconds > 0 /\ timer = 0
    /\ cmd' = "deadline"
    /\ UNCHANGED <<seconds, ctx, timer, elapsed, pc, shell, holders, result>>

\* The command's context is not derived from the invocation's.
Derived_Detached(end) == cmd

\* What becomes of the command's context when the invocation's ends.
Derived(end) == IF cmd = "live" THEN end ELSE cmd

Expire ==
    /\ pc # "returned"
    /\ ctx = "live"
    /\ ctx' = "deadline"
    /\ cmd' = Derived("deadline")
    /\ UNCHANGED <<seconds, timer, elapsed, pc, shell, holders, result>>

Interrupt ==
    /\ pc # "returned"
    /\ ctx = "live"
    /\ ctx' = "canceled"
    /\ cmd' = Derived("canceled")
    /\ UNCHANGED <<seconds, timer, elapsed, pc, shell, holders, result>>

ToolStep == Start \/ Kill \/ ShellWaited \/ Drained \/ Check

ProcessStep == ShellExits \/ \E c \in Children : Fork(c) \/ LetGo(c)

Next == ToolStep \/ ProcessStep \/ Tick \/ TimerFires \/ Expire \/ Interrupt

Spec == Init /\ [][Next]_vars

(***************************************************************************)
(* Fairness.  Execute goes on and its timer runs.  Nothing makes a command *)
(* or its children end.                                                    *)
(***************************************************************************)
FairSpec == /\ Spec
            /\ WF_vars(Start) /\ WF_vars(Kill) /\ WF_vars(ShellWaited)
            /\ WF_vars(Drained) /\ WF_vars(Check)
            /\ WF_vars(Tick) /\ WF_vars(TimerFires)

-----------------------------------------------------------------------------
(***************************************************************************)
(* Properties.                                                             *)
(***************************************************************************)
Context == {"live", "deadline", "canceled"}

\* Type invariant of Execute's state and the processes behind it.
TypeOK ==
    /\ seconds \in Seconds
    /\ ctx \in Context
    /\ cmd \in Context
    /\ ctx # "live" => cmd # "live"
    /\ timer \in Nat
    /\ elapsed \in Nat
    /\ pc \in {"start", "wait", "drain", "check", "returned"}
    /\ shell \in {"none", "running", "ok", "bad"}
    /\ holders \subseteq Children
    /\ result \in ExitCode

\* The captured output, which goes to the model and the log, is complete: when
\* it is read nothing of the command can still write to it.
OutputComplete ==
    pc \in {"check", "returned"} => shell # "running" /\ holders = {}

\* Whether n seconds can be told in a time.Duration.
Fits(n) == n * Unit <= MaxInt

\* "command timed out" ends the whole invocation, so it is reported for nothing
\* but a deadline: the invocation's, or the time the command asked for, which then
\* has passed in full.  A timeout_seconds that does not fit into a time.Duration is
\* excepted: its product wraps, and such a command is timed out early.
TimeoutEarned ==
    pc = "returned" /\ result = ExitTimeout /\ Fits(seconds) =>
        ctx = "deadline" \/ (seconds > 0 /\ elapsed >= seconds * Unit)

\* A command whose time is up, its own or the invocation's, returns once nothing
\* holds its output any more.
KilledUnlessHeld ==
    <>[](holders = {}) => (cmd # "live" ~> pc = "returned")

\* docs/flags.md:62: the deadline is a hard cap for the full invocation.  A child
\* that holds the output outlasts it.
TimeoutEndsCommand == ctx = "deadline" ~> pc = "returned"

-----------------------------------------------------------------------------
(***************************************************************************)
(* The command as AgentLoop sees it.                                       *)
(***************************************************************************)
BashCall == [id |-> 1, name |-> "bash", args |-> "json"]

Ran == shell # "none"

LoopInput == [system |-> FALSE, planOnly |-> FALSE, schema |-> "none", session |-> <<>>,
              prompt |-> FALSE, stdin |-> FALSE, failFast |-> FALSE, capture |-> FALSE,
              timeout |-> TRUE, maxSteps |-> 1, budget |-> 0]

LoopPC == IF pc = "start" THEN "execute"
          ELSE IF pc = "returned" THEN "record" ELSE "running"

Loop == INSTANCE AgentLoop WITH
            Calls <- {BashCall}, MaxCalls <- 1, Allowed <- {"bash"},
            Registered <- {"bash"}, Inputs <- {},
            input <- LoopInput, pc <- LoopPC, step <- 1,
            messages <- <<>>, newMessages <- <<>>, calls <- <<BashCall>>,
            outcome <- [err |-> result, cmd |-> pc # "start", ran |-> Ran],
            failures <- 0, usage <- 1, toolsUsed <- {}, commands <- <<>>,
            effects <- IF Ran THEN <<[call |-> BashCall, step |-> 1, ctx |-> "live"]>>
                       ELSE <<>>,
            exit <- ExitSuccess

\* The processes, the timers and the pipes amount to what AgentLoop allows a
\* command: it acts only if the context was live, and returns what the context
\* and its having run admit.
ImplementsLoopTool ==
    [][Loop!StartTool \/ Loop!ToolReturns \/ Loop!Expire \/ Loop!Interrupt]_(Loop!vars)

=============================================================================
