---------------------------- MODULE MC_AgentLoop ----------------------------
(***************************************************************************)
(* AgentLoop on a small instance: one tool of each kind (the shell, a file *)
(* tool, the search stub, one the mode admits and the registry lacks, one  *)
(* the registry has and the mode does not admit), two calls a response,    *)
(* and inputs that between them reach every guard that reads the input.    *)
(***************************************************************************)
EXTENDS AgentLoop

Call(id, name) == [id |-> id, name |-> name, args |-> "json"]

MCCalls == {Call(1, "bash"), Call(2, "write_file"), Call(3, "ghost"),
            Call(4, "read_file"), Call(5, "web_search"),
            [Call(2, "write_file") EXCEPT !.args = "garbled"]}

MCAllowed    == {"bash", "write_file", "web_search", "ghost"}
MCRegistered == {"bash", "write_file", "web_search", "read_file"}

Plain == [system |-> FALSE, planOnly |-> FALSE, schema |-> "none", session |-> <<>>,
          prompt |-> TRUE, stdin |-> FALSE, failFast |-> FALSE, capture |-> TRUE,
          timeout |-> TRUE, maxSteps |-> 2, budget |-> 3]

\* A history with one answered tool call.
History == <<Text("user"), Assistant(<<Call(1, "bash")>>),
             ResultMessage(Call(1, "bash"), TRUE), Assistant(<<>>)>>

MCInputs ==
    { Plain,
      [Plain EXCEPT !.system = TRUE, !.session = History, !.maxSteps = 1, !.budget = 1],
      [Plain EXCEPT !.planOnly = TRUE, !.stdin = TRUE, !.timeout = FALSE],
      [Plain EXCEPT !.failFast = TRUE, !.budget = -1, !.maxSteps = 1],
      [Plain EXCEPT !.budget = -1, !.maxSteps = 1, !.capture = FALSE],
      [Plain EXCEPT !.schema = "malformed", !.prompt = FALSE, !.stdin = TRUE],
      [Plain EXCEPT !.schema = "valid", !.maxSteps = 0, !.budget = 0] }

=============================================================================
