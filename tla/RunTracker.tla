----------------------------- MODULE RunTracker -----------------------------
(***************************************************************************)
(* The run log of internal/store/store.go: the hooks a RunTracker attaches *)
(* to the agent loop, the state it keeps between them, and the rows of     *)
(* this run in the runs, tool_calls and shell_commands tables.             *)
(*                                                                         *)
(* Every operation is one database statement and takes ok, whether the     *)
(* statement succeeded: a statement that fails leaves the tables and the   *)
(* tracker's state as they were and returns ExitSessionFailure to the      *)
(* caller.  Rows keep what identifies them and their status; the redacted  *)
(* payloads, times and provider metadata are left out.                     *)
(*                                                                         *)
(* A name with a suffix after "_" is a faulty variant of the definition    *)
(* below it, and a property of Invocation tells the two apart.             *)
(***************************************************************************)
EXTENDS ExitCodes, Sequences

CONSTANT Calls   \* tool calls, [id, name] records

VARIABLES
    runRow,     \* the run's row in runs
    runID,      \* hookState.runID: 0 until StartRun succeeded
    callRow,    \* hookState.toolCallIDs: call id -> tool_calls row, 0 if none
    toolRows,   \* the run's rows in tool_calls, in insertion order
    shellRows,  \* the tool_calls rows its shell_commands rows refer to
    tracked,    \* hookState.usage, in completions
    lost        \* history: some statement of this run failed

trackerVars == <<runRow, runID, callRow, toolRows, shellRows, tracked, lost>>

CallIds == {c.id : c \in Calls}

RunRow  == [status : {"absent", "running", "success", "error"},
            exit : ExitCode, tokens : Nat]

ToolRow == [call : Calls, step : Nat, status : {"running", "ok", "failed"}]

NoRun == [status |-> "absent", exit |-> ExitSuccess, tokens |-> 0]

Init ==
    /\ runRow = NoRun
    /\ runID = 0
    /\ callRow = [id \in CallIds |-> 0]
    /\ toolRows = <<>>
    /\ shellRows = <<>>
    /\ tracked = 0
    /\ lost = FALSE

\* A statement that fails.
WriteFails == lost' = TRUE /\ UNCHANGED <<runRow, runID, callRow, toolRows, shellRows, tracked>>

\* OnLoopStart.
StartRun(ok) ==
    \/ /\ ok
       /\ runRow' = [NoRun EXCEPT !.status = "running"]
       /\ runID' = 1
       /\ tracked' = 0
       /\ UNCHANGED <<callRow, toolRows, shellRows, lost>>
    \/ ~ok /\ WriteFails

\* OnStepComplete: counts in memory, cannot fail.
CountUsage == /\ tracked' = tracked + 1
              /\ UNCHANGED <<runRow, runID, callRow, toolRows, shellRows, lost>>

\* A call id seen before keeps its first row.
LogToolCall_FirstRowKept(c, step, ok) ==
    \/ /\ ok
       /\ toolRows' = Append(toolRows, [call |-> c, step |-> step, status |-> "running"])
       /\ callRow' = IF callRow[c.id] = 0 THEN [callRow EXCEPT ![c.id] = Len(toolRows')]
                     ELSE callRow
       /\ UNCHANGED <<runRow, runID, shellRows, tracked, lost>>
    \/ ~ok /\ WriteFails

\* OnToolCall: the row is there, marked running, before the tool runs.
LogToolCall(c, step, ok) ==
    \/ /\ ok
       /\ toolRows' = Append(toolRows, [call |-> c, step |-> step, status |-> "running"])
       /\ callRow' = [callRow EXCEPT ![c.id] = Len(toolRows')]
       /\ UNCHANGED <<runRow, runID, shellRows, tracked, lost>>
    \/ ~ok /\ WriteFails

\* OnToolResult, first statement.  An update that names no row changes none.
UpdateToolCall(c, status, ok) ==
    \/ /\ ok
       /\ toolRows' = [i \in DOMAIN toolRows |->
                          IF i = callRow[c.id] THEN [toolRows[i] EXCEPT !.status = status]
                          ELSE toolRows[i]]
       /\ UNCHANGED <<runRow, runID, callRow, shellRows, tracked, lost>>
    \/ ~ok /\ WriteFails

\* OnToolResult, second statement, for results that carry a command.
LogShellCommand(c, ok) ==
    \/ /\ ok
       /\ shellRows' = Append(shellRows, callRow[c.id])
       /\ UNCHANGED <<runRow, runID, callRow, toolRows, tracked, lost>>
    \/ ~ok /\ WriteFails

\* The caller's usage is taken even when it is empty.
Finish_CallerUsage(status, code, usage, ok) ==
    \/ runID = 0 /\ ok /\ UNCHANGED trackerVars
    \/ /\ runID # 0
       /\ ok
       /\ runRow' = [status |-> status, exit |-> code, tokens |-> usage]
       /\ UNCHANGED <<runID, callRow, toolRows, shellRows, tracked, lost>>
    \/ runID # 0 /\ ~ok /\ WriteFails

\* finish: a run that never got its row is not finished, and needs no statement.
\* FinalizeError passes no usage, so the tracker's own count is written.
Finish(status, code, usage, ok) ==
    \/ runID = 0 /\ ok /\ UNCHANGED trackerVars
    \/ /\ runID # 0
       /\ ok
       /\ runRow' = [status |-> status, exit |-> code,
                     tokens |-> IF usage = 0 THEN tracked ELSE usage]
       /\ UNCHANGED <<runID, callRow, toolRows, shellRows, tracked, lost>>
    \/ runID # 0 /\ ~ok /\ WriteFails

TypeOK ==
    /\ runRow \in RunRow
    /\ runID \in {0, 1}
    /\ callRow \in [CallIds -> 0..Len(toolRows)]
    /\ toolRows \in Seq(ToolRow)
    /\ shellRows \in Seq(1..Len(toolRows))
    /\ tracked \in Nat
    /\ lost \in BOOLEAN

=============================================================================
