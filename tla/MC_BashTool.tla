----------------------------- MODULE MC_BashTool -----------------------------
(***************************************************************************)
(* BashTool with two processes behind the shell and durations up to 15     *)
(* ticks, four to a second: no timeout, one and two seconds, a timeout     *)
(* that overflows to a negative time and one that overflows to a short.    *)
(***************************************************************************)
EXTENDS BashTool

MCSeconds == {0, 1, 2, 5, 9}

=============================================================================
