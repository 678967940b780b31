------------------------------ MODULE Sessions ------------------------------
(***************************************************************************)
(* What the session commands promise their users: a session is a named     *)
(* conversation, and each command acts on the conversation of that name in *)
(* one step.  SessionStore implements this over tables and row ids.        *)
(*                                                                         *)
(* The exception: a command whose session is deleted while it runs may act *)
(* on a session that has been created since.                               *)
(***************************************************************************)
EXTENDS Sequences

CONSTANTS
    Names,   \* session names
    Turns    \* what runs may save: [name, messages] records, the name being
             \* that of the session the run was started for

VARIABLES
    store,     \* the messages of every session that exists, by name
    deleted    \* the names that a session has ever been deleted of

vars == <<store, deleted>>

Existing == DOMAIN store

Init == store = [n \in {} |-> <<>>] /\ deleted = {}

With(n, messages) ==
    [m \in Existing \cup {n} |-> IF m = n THEN messages ELSE store[m]]

\* The sessions that a command given the name n may find itself with.
Targets(n) == Existing \cap (IF n \in deleted THEN Names ELSE {n})

\* A run names a session that does not exist yet.
Create(n) == n \notin Existing /\ store' = With(n, <<>>) /\ UNCHANGED deleted

\* A run saves its turn.
SaveTurn(t) == /\ \E n \in Targets(t.name) : store' = With(n, store[n] \o t.messages)
               /\ UNCHANGED deleted

\* The new session starts as a copy of the source, or empty if that is gone.
Fork(source, fork) ==
    /\ fork \notin Existing
    /\ \/ \E n \in Targets(source) : store' = With(fork, store[n])
       \/ source \in deleted /\ store' = With(fork, <<>>)
    /\ UNCHANGED deleted

Clear(n) == (\E m \in Targets(n) : store' = With(m, <<>>)) /\ UNCHANGED deleted

Delete(n) == /\ n \in Existing
             /\ store' = [m \in Existing \ {n} |-> store[m]]
             /\ deleted' = deleted \cup {n}

Next == \/ \E n \in Names : Create(n) \/ Clear(n) \/ Delete(n)
        \/ \E t \in Turns : SaveTurn(t)
        \/ \E source, fork \in Names : Fork(source, fork)

Spec == Init /\ [][Next]_vars

=============================================================================
