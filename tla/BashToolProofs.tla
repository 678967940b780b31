---------------------------- MODULE BashToolProofs ----------------------------
(***************************************************************************)
(* Theorems about BashTool, for every set of children, timeouts and width  *)
(* of a duration.                                                          *)
(***************************************************************************)
EXTENDS BashTool, TLAPS

\* A duration is an integer that fits.
LEMMA DurationType == \A n \in Nat : Duration(n) \in Int
BY UnitAssumption, MaxIntAssumption DEF Duration

\* A duration that fits is not wrapped.
LEMMA SmallRemainder == ASSUME NEW a \in Nat, NEW b \in Nat, a < b
                        PROVE  a % b = a
OBVIOUS

LEMMA DurationFits == ASSUME NEW n \in Nat, Fits(n)
                      PROVE  Duration(n) = n * Unit
<1> DEFINE x == n * Unit
<1>1. x \in Nat /\ x <= MaxInt
  BY UnitAssumption DEF Fits
<1>2. Duration(n) = ((x + MaxInt + 1) % (2 * (MaxInt + 1))) - (MaxInt + 1)
  BY DEF Duration
<1> HIDE DEF x
<1>3. /\ x + MaxInt + 1 \in Nat /\ 2 * (MaxInt + 1) \in Nat
      /\ x + MaxInt + 1 < 2 * (MaxInt + 1)
  BY <1>1, MaxIntAssumption
<1>4. (x + MaxInt + 1) % (2 * (MaxInt + 1)) = x + MaxInt + 1
  BY <1>3, SmallRemainder
<1> QED BY <1>1, <1>2, <1>4, MaxIntAssumption DEF x

(***************************************************************************)
(* Why a timeout is earned: while the command's context is live or its     *)
(* deadline has come, the time passed and the time left on its timer make  *)
(* up the duration it was given, and that is the time asked for if it fits *)
(* (DurationFits).                                                         *)
(***************************************************************************)
TimerInv ==
    /\ pc = "start" => elapsed = 0 /\ cmd = ctx /\ holders = {} /\ shell = "none"
    /\ pc # "returned" => result = ExitSuccess
    /\ pc \in {"wait", "drain"} => shell # "none"
    /\ pc = "drain" => shell # "running"
    /\ pc = "check" => shell # "running" /\ holders = {}
    /\ pc # "start" /\ seconds > 0 /\ ~PassedAtOnce => elapsed + timer = Duration(seconds)
    /\ cmd = "deadline" =>
          ctx = "deadline" \/ (seconds > 0 /\ elapsed >= Duration(seconds))

IInv == TypeOK /\ TimerInv /\ OutputComplete /\ TimeoutEarned

USE SecondsAssumption DEF ExitCode, ExitSuccess, ExitTimeout, ExitShellFailure

THEOREM InitInv == Init => IInv
BY DEF Init, IInv, TypeOK, TimerInv, OutputComplete, TimeoutEarned, Context

THEOREM StepInv == IInv /\ [Next]_vars => IInv'
<1> SUFFICES ASSUME IInv, [Next]_vars PROVE IInv'
  OBVIOUS
<1> DEFINE d == Duration(seconds)
<1>d. d \in Int /\ seconds \in Nat
  BY DurationType DEF IInv, TypeOK
<1> USE DEF IInv, TypeOK, TimerInv, OutputComplete, TimeoutEarned, Context
<1>1. CASE Start
  BY <1>1, <1>d DEF Start, PassedAtOnce
<1>2. ASSUME NEW c \in Children, Fork(c) PROVE IInv'
  BY <1>2 DEF Fork, PassedAtOnce
<1>3. ASSUME NEW c \in Children, LetGo(c) PROVE IInv'
  BY <1>3 DEF LetGo, PassedAtOnce
<1>4. CASE ShellExits
  BY <1>4 DEF ShellExits, PassedAtOnce
<1>5. CASE Kill
  BY <1>5 DEF Kill, PassedAtOnce
<1>6. CASE ShellWaited
  BY <1>6 DEF ShellWaited, PassedAtOnce
<1>7. CASE Drained
  BY <1>7 DEF Drained, PassedAtOnce
<1>8. CASE Check
  <2>1. TypeOK' /\ TimerInv' /\ OutputComplete'
    BY <1>8 DEF Check, TimedOut, PassedAtOnce
  <2>2. ASSUME result' = ExitTimeout, Fits(seconds), ctx # "deadline"
        PROVE  seconds > 0 /\ elapsed >= seconds * Unit
    <3>1. cmd = "deadline"
      BY <1>8, <2>2 DEF Check, TimedOut
    <3>2. seconds > 0 /\ elapsed >= Duration(seconds)
      BY <2>2, <3>1
    <3> QED BY <2>2, <3>2, <1>d, DurationFits
  <2>3. TimeoutEarned'
    BY <1>8, <2>2 DEF Check
  <2> QED BY <2>1, <2>3
<1>9. CASE Tick
  BY <1>9, <1>d DEF Tick, Running, PassedAtOnce
<1>10. CASE TimerFires
  BY <1>10, <1>d DEF TimerFires, Running, PassedAtOnce
<1>11. CASE Expire
  BY <1>11 DEF Expire, Derived, PassedAtOnce
<1>12. CASE Interrupt
  BY <1>12 DEF Interrupt, Derived, PassedAtOnce
<1>13. CASE UNCHANGED vars
  BY <1>13 DEF vars, PassedAtOnce
<1> QED
  BY <1>1, <1>2, <1>3, <1>4, <1>5, <1>6, <1>7, <1>8, <1>9, <1>10, <1>11, <1>12, <1>13
  DEF Next, ToolStep, ProcessStep

\* IInv is inductive.
THEOREM Invariance == Spec => []IInv
BY InitInv, StepInv, PTL DEF Spec

\* Every reachable state of a command is well typed; in particular the end of the
\* invocation's context always reaches the command's.
THEOREM TypeCorrect == Spec => []TypeOK
<1>1. IInv => TypeOK
  BY DEF IInv
<1> QED BY <1>1, Invariance, PTL

\* Nothing of the command can still write when its output is read (cmd.Run waits
\* for the pipes), whatever processes it has started.
THEOREM OutputAlwaysComplete == Spec => []OutputComplete
<1>1. IInv => OutputComplete
  BY DEF IInv
<1> QED BY <1>1, Invariance, PTL

\* "command timed out" is reported for a deadline only, the command's own after the
\* full time it asked for: for every timeout that fits, whatever the width of the
\* durations.
THEOREM TimeoutAlwaysEarned == Spec => []TimeoutEarned
<1>1. IInv => TimeoutEarned
  BY DEF IInv
<1> QED BY <1>1, Invariance, PTL

-----------------------------------------------------------------------------
(***************************************************************************)
(* The command implements the tool step of AgentLoop.  Only Start, Check,  *)
(* Expire and Interrupt are seen there; the processes and timers stutter.  *)
(***************************************************************************)
LoopStep == Loop!StartTool \/ Loop!ToolReturns \/ Loop!Expire \/ Loop!Interrupt

LEMMA LoopBits == /\ LoopInput.planOnly = FALSE /\ LoopInput.timeout = TRUE
                  /\ Head(<<BashCall>>) = BashCall
                  /\ BashCall.name = "bash" /\ BashCall.args = "json"
BY DEF LoopInput, BashCall

LEMMA BashMayAct == Loop!MayAct("bash") = IF ctx = "live" THEN BOOLEAN ELSE {FALSE}
BY DEF Loop!MayAct

LEMMA BashErrors ==
    Loop!ExecuteErrors("bash") =
        IF ctx = "deadline" THEN {ExitTimeout}
        ELSE {ExitShellFailure, ExitTimeout} \cup (IF Ran THEN {ExitSuccess} ELSE {})
BY DEF Loop!ExecuteErrors, Loop!Expired, Loop!ExitSuccess, Loop!ExitTimeout,
       Loop!ExitShellFailure

LEMMA StartImplements == IInv /\ Start => Loop!StartTool
<1> SUFFICES ASSUME IInv, Start PROVE Loop!StartTool
  OBVIOUS
<1> USE DEF IInv, TypeOK, TimerInv, Context
<1>1. /\ pc = "start" /\ pc' # "start" /\ pc' # "returned"
      /\ ~Ran /\ (Ran' => ctx = "live")
      /\ UNCHANGED <<LoopInput, ctx, result>>
  BY DEF Start, Ran, LoopInput
<1>2. LoopPC = "execute" /\ LoopPC' = "running"
  BY <1>1 DEF LoopPC
<1>3. Ran' \in Loop!MayAct("bash")
  BY <1>1, BashMayAct DEF Ran
<1>4. Loop!ValidArguments
  BY <1>2, LoopBits DEF Loop!ValidArguments
<1>5. [err |-> result, cmd |-> pc # "start", ran |-> Ran]'
      = [err |-> Loop!ExitSuccess, cmd |-> BashCall.name = "bash", ran |-> Ran']
  BY <1>1, LoopBits DEF Loop!ExitSuccess, Start
<1>6. (IF Ran THEN <<[call |-> BashCall, step |-> 1, ctx |-> "live"]>> ELSE <<>>)'
      = IF Ran' THEN Append(<<>>, [call |-> BashCall, step |-> 1, ctx |-> ctx]) ELSE <<>>
  BY <1>1
<1>7. Loop!StartTool!3
  BY <1>1, <1>3, <1>5, <1>6, LoopBits
<1> QED
  BY <1>1, <1>2, <1>4, <1>7, LoopBits DEF Loop!StartTool, Loop!transcript, Loop!telemetry

LEMMA CheckImplements == IInv /\ Check => Loop!ToolReturns
<1> SUFFICES ASSUME IInv, Check PROVE Loop!ToolReturns
  OBVIOUS
<1> USE DEF IInv, TypeOK, TimerInv, Context
<1>1. /\ pc = "check" /\ pc' = "returned" /\ UNCHANGED <<LoopInput, ctx, Ran>>
  BY DEF Check, Ran, LoopInput
<1>2. LoopPC = "running" /\ LoopPC' = "record"
  BY <1>1 DEF LoopPC
<1>3. result' \in Loop!ExecuteErrors("bash")
  BY BashErrors DEF Check, TimedOut, Ran
<1> QED
  BY <1>1, <1>2, <1>3, LoopBits DEF Loop!ToolReturns, Loop!transcript, Loop!telemetry

LEMMA StepImplements == IInv /\ [Next]_vars => [LoopStep]_(Loop!vars)
<1> SUFFICES ASSUME IInv, [Next]_vars PROVE [LoopStep]_(Loop!vars)
  OBVIOUS
<1>1. CASE Start
  BY <1>1, StartImplements DEF LoopStep
<1>2. CASE Check
  BY <1>2, CheckImplements DEF LoopStep
<1>3. CASE Expire
  <2>1. UNCHANGED <<LoopPC, LoopInput, Ran, pc, result>>
    BY <1>3 DEF Expire, LoopPC, LoopInput, Ran
  <2> QED
    BY <1>3, <2>1, LoopBits DEF Expire, LoopStep, Loop!Expire, Loop!transcript, Loop!telemetry
<1>4. CASE Interrupt
  <2>1. UNCHANGED <<LoopPC, LoopInput, Ran, pc, result>>
    BY <1>4 DEF Interrupt, LoopPC, LoopInput, Ran
  <2> QED
    BY <1>4, <2>1 DEF Interrupt, LoopStep, Loop!Interrupt, Loop!transcript, Loop!telemetry
<1>5. CASE ~(Start \/ Check \/ Expire \/ Interrupt)
  <2>1. UNCHANGED <<LoopPC, LoopInput, Ran, ctx, result>> /\ (pc = "start" <=> pc' = "start")
    BY <1>5 DEF Next, ToolStep, ProcessStep, Fork, LetGo, ShellExits, Kill, ShellWaited,
                Drained, Tick, TimerFires, vars, LoopPC, LoopInput, Ran, IInv, TypeOK, TimerInv
  <2> QED
    BY <2>1 DEF Loop!vars
<1> QED BY <1>1, <1>2, <1>3, <1>4, <1>5

\* The processes, the timers and the pipes of a command implement AgentLoop's tool
\* step, for every command: what the loop assumes of bash is what BashTool does.
THEOREM CommandImplementsTool == Spec => ImplementsLoopTool
BY Invariance, StepImplements, PTL DEF Spec, ImplementsLoopTool, LoopStep

=============================================================================
