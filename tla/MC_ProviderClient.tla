--------------------------- MODULE MC_ProviderClient ---------------------------
(***************************************************************************)
(* ProviderClient in ticks of 50 ms: the program's own back-offs and       *)
(* look-up timeout, a Retry-After of nothing, one second and four, and     *)
(* deadlines on both sides of every comparison.                            *)
(***************************************************************************)
EXTENDS ProviderClient

MCBackoffs    == <<10, 20, 40>>
MCRetryAfters == {0, 20, 80}

Ask(deadline) == [key |-> TRUE, malformed |-> FALSE, deadline |-> deadline]

MCRequests == {Ask(d) : d \in {NoDeadline, 2, 3, 4, 10, 11, 31, 72, 85}}
              \cup {[Ask(3) EXCEPT !.malformed = TRUE], [Ask(3) EXCEPT !.key = FALSE]}

=============================================================================
