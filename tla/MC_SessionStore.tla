-------------------------- MODULE MC_SessionStore --------------------------
(***************************************************************************)
(* SessionStore on a small instance: two terminals and two names. *)
(* The .cfg files choose the commands and bound the invocations of a       *)
(* terminal.                                                               *)
(***************************************************************************)
EXTENDS SessionStore, TLC

CONSTANTS p1, p2, n1, n2

TwoProcs == {p1, p2}
TwoNames == {n1, n2}

\* Nothing tells the terminals apart, or the names.
Symmetry == Permutations(Procs) \cup Permutations(Names)

=============================================================================
