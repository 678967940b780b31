---------------------------- MODULE MC_Invocation ----------------------------
(***************************************************************************)
(* Invocation on a small instance: the shell, a file tool and a tool the   *)
(* mode does not admit, up to two calls a response (the same call id may   *)
(* come twice), two steps, and every persistence setting the code branches *)
(* on.                                                                     *)
(***************************************************************************)
EXTENDS Invocation

Call(id, name, args) == [id |-> id, name |-> name, args |-> args]

MCCalls == {Call(1, "bash", "json"), Call(2, "write_file", "json"),
            Call(2, "write_file", "garbled"), Call(3, "web_search", "json")}
MCTools == {"bash", "write_file"}
MCAllowed == {"bash"}

Plain == [system |-> FALSE, planOnly |-> FALSE, schema |-> "none", session |-> <<>>,
          prompt |-> TRUE, stdin |-> FALSE, failFast |-> FALSE, capture |-> TRUE,
          timeout |-> TRUE, maxSteps |-> 2, budget |-> 2]

Text(role) == [role |-> role, calls |-> <<>>, failed |-> FALSE]
History    == <<Text("user"), Text("assistant")>>

MCInputs == { Plain,
              [Plain EXCEPT !.planOnly = TRUE, !.capture = FALSE, !.session = History],
              [Plain EXCEPT !.schema = "valid", !.capture = FALSE, !.budget = -1, !.maxSteps = 1] }

All == [log |-> TRUE, persist |-> TRUE, noSave |-> FALSE, session |-> TRUE, preflight |-> TRUE,
        output |-> {"stdout", "stderr"}]

MCOptions == { All,
               [All EXCEPT !.noSave = TRUE, !.preflight = FALSE, !.output = {"stdout"}],
               [All EXCEPT !.log = FALSE, !.persist = FALSE, !.session = FALSE],
               [All EXCEPT !.log = FALSE, !.output = {}] }

=============================================================================
