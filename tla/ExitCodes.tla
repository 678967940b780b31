------------------------------ MODULE ExitCodes ------------------------------
(***************************************************************************)
(* The stable exit codes of the program (internal/errors/errors.go).       *)
(* Every failure the agent loop, the stores or the CLI reports is          *)
(* abstracted to the code its ExitCodeError carries: nothing else of an    *)
(* error is ever inspected by the control flow.                            *)
(***************************************************************************)
EXTENDS Integers

ExitSuccess          == 0
ExitRuntime          == 1
ExitTimeout          == 2
ExitRefusal          == 3
ExitSchemaValidation == 4
ExitToolFailure      == 5
ExitShellFailure     == 6
ExitSessionFailure   == 7
ExitCLIUsage         == 8

ExitCode == 0 .. 8

=============================================================================
