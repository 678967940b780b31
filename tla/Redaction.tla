------------------------------ MODULE Redaction ------------------------------
(***************************************************************************)
(* What a stored tool result discloses of a shell command:                 *)
(* internal/core/tool_result.go, over the results that                     *)
(* internal/tools/bash/bash.go makes.  A text is the set of the parts that *)
(* it may contain.                                                         *)
(*                                                                         *)
(* A name with a suffix after "_" is a faulty variant of the definition    *)
(* below it, and a property of Invocation tells the two apart.             *)
(***************************************************************************)

Output == {"stdout", "stderr"}
Parts  == {"command"} \cup Output

\* The fields of result.Command, none if it is nil, and result.Content.
Result(command, content) == [command |-> command, content |-> content]

NoCommand == Result({}, {})
Planned   == Result({"command"}, {"command"})
TimedOut  == Result(Parts, {})
Finished  == Result(Parts, Output)

\* The content is left alone.
RedactToolResult_ContentKept(captured, result) ==
    [result EXCEPT !.command = @ \cap captured]

\* The content is rebuilt from the output that may be kept, unless all of it may.
RedactToolResult(captured, result) ==
    [command |-> result.command \cap captured,
     content |-> IF result.command = {} \/ Output \subseteq captured THEN result.content
                 ELSE Output \cap result.command \cap captured]

Discloses(result) == result.command \cup result.content

=============================================================================
