------------------------- MODULE SessionStoreProofs -------------------------
(***************************************************************************)
(* Theorems about SessionStore, for every set of terminals and names and   *)
(* every bound.                                                            *)
(***************************************************************************)
EXTENDS SessionStore, TLAPS

(***************************************************************************)
(* Where an invocation is tells what it has: the operation, the row id it  *)
(* has looked up and the rows of its open transaction.                     *)
(***************************************************************************)
LookedUp == {"read", "loop", "append", "commit append", "find fork", "begin fork",
             "commit fork", "begin clear", "commit clear"}
Copying  == {"append", "commit append", "commit fork"}

PlaceOf(p) ==
    /\ op[p].num \in Nat
    /\ pc[p] # "idle" => op[p] \in Operation
    /\ pc[p] \in LookedUp => sid[p] \in RowIds
    /\ pc[p] \in {"append", "commit append"} => sid[p] \in Ids
    /\ pc[p] = "commit fork" => NextId \in RowIds /\ IdsNamed(op[p].name) = {}
    /\ pc[p] \notin Copying => newRows[p] = <<>>
    /\ pc[p] = "append" => Len(newRows[p]) < TurnLen
    /\ pc[p] = "commit append" => Len(newRows[p]) = TurnLen

PlaceInv == \A p \in Procs : PlaceOf(p)

IInv == TypeOK /\ PlaceInv /\ NothingInherited

\* What p may do.
Step(p) ==
    \/ Start(p)
    \/ CreateIfMissing(p) \/ Find(p) \/ Read(p) \/ EndUnsaved(p)
    \/ AppendMessage(p) \/ CommitAppend(p)
    \/ FindSource(p) \/ FindFork(p) \/ BeginFork(p) \/ CommitFork(p)
    \/ BeginClear(p) \/ CommitClear(p) \/ Delete(p)
    \/ Crash(p)

LEMMA Steps == Next <=> \E p \in Procs : Step(p)
BY DEF Next, Step

LEMMA Codes == /\ {ExitSuccess, ExitRuntime, ExitSessionFailure, ExitCLIUsage} \subseteq ExitCode
               /\ Killed \in ExitCode \cup {Killed}
BY DEF ExitCode, ExitSuccess, ExitRuntime, ExitSessionFailure, ExitCLIUsage

LEMMA Sequences == /\ <<>> \in Seq(Messages)
                   /\ \A s, t \in Seq(Messages) : s \o t \in Seq(Messages)
                   /\ \A s \in Seq(Messages), m \in Messages : Append(s, m) \in Seq(Messages)
OBVIOUS

LEMMA InitInv == Init => IInv
<1> SUFFICES ASSUME Init PROVE IInv
  OBVIOUS
<1>1. TypeOK
  BY NullsAssumption, Codes DEF Init, TypeOK, Statement, InTransaction
<1>2. PlaceInv
  BY DEF Init, PlaceInv, PlaceOf, LookedUp, NoOp
<1>3. NothingInherited
  BY DEF Init, NothingInherited, Ids
<1> QED BY <1>1, <1>2, <1>3 DEF IInv

-----------------------------------------------------------------------------
(***************************************************************************)
(* Types.                                                                  *)
(***************************************************************************)
Control ==
    /\ writer \in Procs \cup {NoOne}
    /\ pc \in [Procs -> Statement]
    /\ newRows \in [Procs -> Seq(Messages)]
    /\ result \in [Procs -> ExitCode \cup {Killed}]
    /\ \A p \in Procs : writer = p <=> pc[p] \in InTransaction

Tables ==
    /\ sessions \in [RowIds -> Names \cup {NoName}]
    /\ messages \in [RowIds -> Seq(Messages)]
    /\ deleted \subseteq Names

Locals ==
    /\ op \in [Procs -> Operation \cup {NoOp}]
    /\ sid \in [Procs -> RowIds \cup {0}]
    /\ history \in [Procs -> Seq(Messages)]

LEMMA TypeParts == TypeOK <=> Control /\ Tables /\ Locals
BY DEF TypeOK, Control, Tables, Locals

\* An operation that ends gives its lock back.
LEMMA ReturnControl ==
  ASSUME Control, NEW p \in Procs, NEW code \in ExitCode \cup {Killed}, Return(p, code)
  PROVE  Control'
<1>1. writer' \in Procs \cup {NoOne}
  BY DEF Control, Return
<1>2. pc' \in [Procs -> Statement]
  BY DEF Control, Return, Goto, Statement
<1>3. newRows' \in [Procs -> Seq(Messages)]
  BY DEF Control, Return
<1>4. result' \in [Procs -> ExitCode \cup {Killed}]
  BY DEF Control, Return
<1>5. ASSUME NEW q \in Procs PROVE writer' = q <=> pc'[q] \in InTransaction
  <2>1. CASE q = p
    BY <2>1, NullsAssumption DEF Control, Return, Goto, InTransaction
  <2>2. CASE q # p
    BY <2>2, NullsAssumption DEF Control, Return, Goto
  <2> QED BY <2>1, <2>2
<1> QED BY <1>1, <1>2, <1>3, <1>4, <1>5 DEF Control

\* A step within an operation: the lock is held in a transaction and nowhere else.
LEMMA GotoControl ==
  ASSUME Control, NEW p \in Procs, NEW label \in Statement, Goto(p, label),
         \/ writer \in {NoOne, p} /\ writer' = p /\ label \in InTransaction
         \/ writer = p /\ writer' = NoOne /\ label \notin InTransaction
         \/ writer # p /\ writer' = writer /\ label \notin InTransaction,
         newRows' \in [Procs -> Seq(Messages)], result' = result
  PROVE  Control'
<1>1. writer' \in Procs \cup {NoOne}
  BY DEF Control
<1>2. pc' \in [Procs -> Statement]
  BY DEF Control, Goto
<1>3. ASSUME NEW q \in Procs PROVE writer' = q <=> pc'[q] \in InTransaction
  <2>1. CASE q = p
    BY <2>1, NullsAssumption DEF Control, Goto
  <2>2. CASE q # p
    BY <2>2, NullsAssumption DEF Control, Goto
  <2> QED BY <2>1, <2>2
<1> QED BY <1>1, <1>2, <1>3 DEF Control

LEMMA TypePrimed == (Control /\ Tables /\ Locals)' => TypeOK'
BY DEF TypeOK, Control, Tables, Locals

LEMMA FailsType ==
  ASSUME TypeOK, NEW p \in Procs, StatementFails(p) PROVE TypeOK'
<1>1. Control'
  BY Codes, TypeParts, ReturnControl DEF StatementFails
<1>2. (Tables /\ Locals)'
  BY TypeParts DEF StatementFails, db, local, Tables, Locals
<1> QED BY <1>1, <1>2, TypePrimed

LEMMA NewMessage ==
  ASSUME NEW p \in Procs, op[p] \in Operation, newRows[p] \in Seq(Messages),
         Len(newRows[p]) < TurnLen
  PROVE  NextMessage(p) \in Messages
BY BoundsAssumption DEF NextMessage, TurnNow, Messages, Turn, Operation

LEMMA TypeStep ==
  ASSUME TypeOK, NEW p \in Procs, PlaceOf(p), Step(p)
  PROVE  TypeOK'
<1> USE Codes, Sequences, TypeParts, TypePrimed
<1>t. UNCHANGED db => Tables'
  BY DEF db, Tables
<1>l. UNCHANGED local => Locals'
  BY DEF local, Locals
<1>f. StatementFails(p) => TypeOK'
  BY FailsType
<1>1. CASE Start(p)
  <2>1. Control'
    BY <1>1, GotoControl DEF Start, Control, Statement, InTransaction
  <2>2. Locals'
    BY <1>1 DEF Start, Locals
  <2> QED BY <1>1, <1>t, <2>1, <2>2 DEF Start
<1>2. CASE CreateIfMissing(p)
  <2> SUFFICES ASSUME ~StatementFails(p) PROVE TypeOK'
    BY <1>f
  <2>1. Control'
    BY <1>2, GotoControl, NullsAssumption DEF CreateIfMissing, Control, Statement, InTransaction
  <2>2. op[p].name \in Names
    BY <1>2 DEF CreateIfMissing, PlaceOf, Operation
  <2>3. Tables'
    BY <1>2, <2>2 DEF CreateIfMissing, Tables
  <2> QED BY <1>2, <1>l, <2>1, <2>3 DEF CreateIfMissing
<1>3. CASE Find(p)
  <2> SUFFICES ASSUME ~StatementFails(p) PROVE TypeOK'
    BY <1>f
  <2>1. Control'
    BY <1>3, ReturnControl, GotoControl DEF Find, Control, Statement, InTransaction
  <2>2. (UNCHANGED db) /\ Locals'
    BY <1>3, <1>l DEF Find, Locals, IdsNamed, Ids
  <2> QED BY <1>t, <2>1, <2>2
<1>4. CASE Read(p)
  <2> SUFFICES ASSUME ~StatementFails(p) PROVE TypeOK'
    BY <1>f
  <2>1. Control'
    BY <1>4, ReturnControl, GotoControl DEF Read, Control, Statement, InTransaction
  <2>2. (UNCHANGED db) /\ Locals'
    BY <1>4 DEF Read, Locals, Tables, PlaceOf, LookedUp
  <2> QED BY <1>t, <2>1, <2>2
<1>5. CASE EndUnsaved(p)
  BY <1>5, <1>t, <1>l, ReturnControl DEF EndUnsaved
<1>6. CASE AppendMessage(p)
  <2> SUFFICES ASSUME ~StatementFails(p) PROVE TypeOK'
    BY <1>f
  <2>1. NextMessage(p) \in Messages
    <3>1. pc[p] \in {"loop", "append"} /\ newRows[p] \in Seq(Messages)
      BY <1>6 DEF AppendMessage, Control
    <3>2. op[p] \in Operation
      BY <3>1 DEF PlaceOf
    <3>3. CASE pc[p] = "loop"
      <4>1. newRows[p] = <<>>
        BY <3>3 DEF PlaceOf, Copying
      <4>2. Len(newRows[p]) < TurnLen
        BY <4>1, BoundsAssumption
      <4> QED BY <3>1, <3>2, <4>2, NewMessage
    <3>4. CASE pc[p] = "append"
      BY <3>1, <3>2, <3>4, NewMessage DEF PlaceOf
    <3> QED BY <3>1, <3>3, <3>4
  <2>2. Control'
    <3>1. Append(newRows[p], NextMessage(p)) \in Seq(Messages)
      BY <2>1 DEF Control
    <3>2. newRows' \in [Procs -> Seq(Messages)]
      BY <1>6, <3>1 DEF AppendMessage, Control
    <3> QED BY <1>6, <3>2, GotoControl DEF AppendMessage, Statement, InTransaction
  <2> QED BY <1>6, <1>t, <1>l, <2>2 DEF AppendMessage
<1>7. CASE CommitAppend(p)
  <2> SUFFICES ASSUME ~StatementFails(p) PROVE TypeOK'
    BY <1>f
  <2>1. Control'
    BY <1>7, ReturnControl DEF CommitAppend
  <2>2. Tables'
    <3>1. sid[p] \in RowIds /\ newRows[p] \in Seq(Messages)
      BY <1>7 DEF CommitAppend, PlaceOf, LookedUp, Control
    <3>2. messages[sid[p]] \o newRows[p] \in Seq(Messages)
      BY <3>1 DEF Tables
    <3> QED BY <1>7, <3>2 DEF CommitAppend, Tables
  <2> QED BY <1>7, <1>l, <2>1, <2>2 DEF CommitAppend
<1>8. CASE FindSource(p)
  <2> SUFFICES ASSUME ~StatementFails(p) PROVE TypeOK'
    BY <1>f
  <2>1. Control'
    BY <1>8, ReturnControl, GotoControl DEF FindSource, Control, Statement, InTransaction
  <2>2. (UNCHANGED db) /\ Locals'
    BY <1>8, <1>l DEF FindSource, Locals, IdsNamed, Ids
  <2> QED BY <1>t, <2>1, <2>2
<1>9. CASE FindFork(p)
  <2> SUFFICES ASSUME ~StatementFails(p) PROVE TypeOK'
    BY <1>f
  <2>1. Control'
    BY <1>9, ReturnControl, GotoControl DEF FindFork, Control, Statement, InTransaction
  <2> QED BY <1>9, <1>t, <1>l, <2>1 DEF FindFork
<1>10. CASE BeginFork(p)
  <2> SUFFICES ASSUME ~StatementFails(p) PROVE TypeOK'
    BY <1>f
  <2>1. newRows' \in [Procs -> Seq(Messages)]
    BY <1>10 DEF BeginFork, Control, Tables, PlaceOf, LookedUp
  <2>2. Control'
    BY <1>10, <2>1, GotoControl DEF BeginFork, Statement, InTransaction
  <2> QED BY <1>10, <1>t, <1>l, <2>2 DEF BeginFork
<1>11. CASE CommitFork(p)
  <2> SUFFICES ASSUME ~StatementFails(p) PROVE TypeOK'
    BY <1>f
  <2>1. writer = p
    BY <1>11 DEF CommitFork, Control, InTransaction
  <2>2. newRows' \in [Procs -> Seq(Messages)]
    BY <1>11 DEF CommitFork, Control
  <2>3. Control'
    BY <1>11, <2>1, <2>2, GotoControl DEF CommitFork, Statement, InTransaction
  <2>4. op[p].name \in Names /\ NextId \in RowIds
    BY <1>11 DEF CommitFork, PlaceOf, Operation
  <2>5. Tables' /\ Locals'
    BY <1>11, <2>4 DEF CommitFork, Tables, Locals, Control
  <2> QED BY <2>3, <2>5
<1>12. CASE BeginClear(p)
  <2> SUFFICES ASSUME ~StatementFails(p) PROVE TypeOK'
    BY <1>f
  <2>1. Control'
    BY <1>12, GotoControl DEF BeginClear, Control, Statement, InTransaction
  <2> QED BY <1>12, <1>t, <1>l, <2>1 DEF BeginClear
<1>13. CASE CommitClear(p)
  <2> SUFFICES ASSUME ~StatementFails(p) PROVE TypeOK'
    BY <1>f
  <2>1. Control'
    BY <1>13, ReturnControl DEF CommitClear
  <2>2. Tables'
    BY <1>13 DEF CommitClear, Tables
  <2> QED BY <1>13, <1>l, <2>1, <2>2 DEF CommitClear
<1>14. CASE Delete(p)
  <2> SUFFICES ASSUME ~StatementFails(p) PROVE TypeOK'
    BY <1>f
  <2>1. Control'
    BY <1>14, ReturnControl DEF Delete
  <2>2. op[p].name \in Names
    BY <1>14 DEF Delete, PlaceOf, Operation
  <2>3. Tables'
    BY <1>14, <2>2 DEF Delete, Tables
  <2> QED BY <1>14, <1>l, <2>1, <2>3 DEF Delete
<1>15. CASE Crash(p)
  BY <1>15, <1>t, <1>l, ReturnControl DEF Crash
<1> QED
  BY <1>1, <1>2, <1>3, <1>4, <1>5, <1>6, <1>7, <1>8, <1>9, <1>10, <1>11,
     <1>12, <1>13, <1>14, <1>15 DEF Step

-----------------------------------------------------------------------------
(***************************************************************************)
(* A step of one invocation and the others.                                *)
(***************************************************************************)
KeptOf(q) == /\ pc'[q] = pc[q] /\ op'[q] = op[q] /\ sid'[q] = sid[q]
             /\ newRows'[q] = newRows[q] /\ history'[q] = history[q]

\* A step leaves the other invocations where they are, and the tables alone while
\* another one holds the lock.
LEMMA OthersKept ==
  ASSUME TypeOK, NEW p \in Procs, NEW q \in Procs \ {p}, Step(p)
  PROVE  KeptOf(q) /\ (pc[q] \in InTransaction => UNCHANGED <<sessions, messages>>)
<1> USE TypeParts DEF KeptOf, Control, Locals, Goto, Return, db, local
<1>w. pc[q] \in InTransaction => writer = q /\ writer # NoOne /\ writer # p
  BY NullsAssumption
<1>p. writer = p <=> pc[p] \in InTransaction
  OBVIOUS
<1>f. StatementFails(p) => KeptOf(q) /\ UNCHANGED <<sessions, messages>>
  BY DEF StatementFails
<1>1. CASE Start(p)
  BY <1>1, <1>w, <1>p, <1>f DEF Start
<1>2. CASE CreateIfMissing(p)
  BY <1>2, <1>w, <1>p, <1>f DEF CreateIfMissing
<1>3. CASE Find(p)
  BY <1>3, <1>w, <1>p, <1>f DEF Find
<1>4. CASE Read(p)
  BY <1>4, <1>w, <1>p, <1>f DEF Read
<1>5. CASE EndUnsaved(p)
  BY <1>5, <1>w, <1>p, <1>f DEF EndUnsaved
<1>6. CASE AppendMessage(p)
  BY <1>6, <1>w, <1>p, <1>f DEF AppendMessage
<1>7. CASE CommitAppend(p)
  BY <1>7, <1>w, <1>p, <1>f DEF CommitAppend, InTransaction
<1>8. CASE FindSource(p)
  BY <1>8, <1>w, <1>p, <1>f DEF FindSource
<1>9. CASE FindFork(p)
  BY <1>9, <1>w, <1>p, <1>f DEF FindFork
<1>10. CASE BeginFork(p)
  BY <1>10, <1>w, <1>p, <1>f DEF BeginFork
<1>11. CASE CommitFork(p)
  BY <1>11, <1>w, <1>p, <1>f DEF CommitFork, InTransaction
<1>12. CASE BeginClear(p)
  BY <1>12, <1>w, <1>p, <1>f DEF BeginClear
<1>13. CASE CommitClear(p)
  BY <1>13, <1>w, <1>p, <1>f DEF CommitClear, InTransaction
<1>14. CASE Delete(p)
  BY <1>14, <1>w, <1>p, <1>f DEF Delete
<1>15. CASE Crash(p)
  BY <1>15, <1>w, <1>p, <1>f DEF Crash
<1> QED
  BY <1>1, <1>2, <1>3, <1>4, <1>5, <1>6, <1>7, <1>8, <1>9, <1>10, <1>11,
     <1>12, <1>13, <1>14, <1>15 DEF Step

LEMMA OthersInPlace ==
  ASSUME TypeOK, NEW p \in Procs, NEW q \in Procs \ {p}, Step(p), PlaceOf(q)
  PROVE  PlaceOf(q)'
<1>1. KeptOf(q) /\ (pc[q] \in InTransaction => UNCHANGED <<sessions, messages>>)
  BY OthersKept
<1>2. UNCHANGED sessions => UNCHANGED <<Ids, NextId>> /\ \A n : IdsNamed(n)' = IdsNamed(n)
  BY DEF Ids, NextId, IdsNamed
<1> QED BY <1>1, <1>2 DEF PlaceOf, KeptOf, InTransaction, LookedUp, Copying

LEMMA EndsInPlace ==
  ASSUME TypeOK, NEW p \in Procs, PlaceOf(p), NEW code, Return(p, code), UNCHANGED op
  PROVE  PlaceOf(p)'
<1>1. pc'[p] = "idle" /\ newRows'[p] = <<>>
  BY DEF Return, Goto, TypeOK
<1> QED BY <1>1 DEF PlaceOf, LookedUp, Copying

LEMMA OwnInPlace ==
  ASSUME TypeOK, NEW p \in Procs, PlaceOf(p), Step(p)
  PROVE  PlaceOf(p)'
<1> USE TypeParts DEF Control, Locals, Goto, db, local
<1>f. StatementFails(p) => PlaceOf(p)'
  BY EndsInPlace DEF StatementFails
<1>s. UNCHANGED sessions => UNCHANGED <<Ids, NextId>> /\ \A n : IdsNamed(n)' = IdsNamed(n)
  BY DEF Ids, NextId, IdsNamed
<1>1. CASE Start(p)
  <2>1. PICK o \in Operation : op'[p] = o
    BY <1>1 DEF Start
  <2>2. op'[p].num \in Nat
    BY <2>1, BoundsAssumption DEF Operation
  <2>3. pc'[p] \notin LookedUp /\ pc'[p] \notin Copying /\ newRows'[p] = <<>>
    BY <1>1 DEF Start, PlaceOf, LookedUp, Copying
  <2> QED BY <2>1, <2>2, <2>3 DEF PlaceOf, LookedUp, Copying
<1>2. CASE CreateIfMissing(p)
  BY <1>2, <1>f DEF CreateIfMissing, PlaceOf, LookedUp, Copying
<1>3. CASE Find(p)
  BY <1>3, <1>f, EndsInPlace DEF Find, PlaceOf, LookedUp, Copying, IdsNamed, Ids
<1>4. CASE Read(p)
  BY <1>4, <1>f, EndsInPlace DEF Read, PlaceOf, LookedUp, Copying
<1>5. CASE EndUnsaved(p)
  BY <1>5, EndsInPlace DEF EndUnsaved
<1>6. CASE AppendMessage(p)
  <2> SUFFICES ASSUME ~StatementFails(p) PROVE PlaceOf(p)'
    BY <1>f
  <2> DEFINE rows == newRows[p]
  <2>1. /\ rows \in Seq(Messages) /\ TurnLen \in Nat \ {0}
        /\ pc[p] = "loop" => rows = <<>>
        /\ pc[p] = "append" => Len(rows) < TurnLen
    BY BoundsAssumption DEF PlaceOf, Copying
  <2>2. pc[p] \in {"loop", "append"} /\ newRows'[p] = Append(rows, NextMessage(p))
    BY <1>6 DEF AppendMessage
  <2>3. Len(newRows'[p]) = Len(rows) + 1 /\ Len(rows) \in Nat
    BY <2>1, <2>2
  <2>4. Len(rows) < TurnLen
    <3>1. CASE pc[p] = "loop"
      <4>1. Len(rows) = 0
        BY <2>1, <3>1
      <4> QED BY <2>1, <4>1
    <3> QED BY <2>1, <2>2, <3>1
  <2>5. IF Len(newRows'[p]) < TurnLen THEN pc'[p] = "append"
        ELSE pc'[p] = "commit append" /\ Len(newRows'[p]) = TurnLen
    <3>1. pc'[p] = IF Len(newRows'[p]) < TurnLen THEN "append" ELSE "commit append"
      BY <1>6 DEF AppendMessage
    <3> DEFINE m == Len(newRows'[p])
               n == Len(rows)
    <3>2. m = n + 1 /\ n \in Nat /\ n < TurnLen /\ TurnLen \in Nat
      BY <2>1, <2>3, <2>4
    <3> HIDE DEF m, n
    <3>3. m < TurnLen \/ m = TurnLen
      BY <3>2
    <3> QED BY <3>1, <3>3 DEF m
  <2>6. UNCHANGED <<op, sid, sessions>> /\ sid[p] \in Ids
    BY <1>6 DEF AppendMessage
  <2> HIDE DEF rows
  <2> QED BY <1>s, <2>2, <2>5, <2>6 DEF PlaceOf, LookedUp, Copying
<1>7. CASE CommitAppend(p)
  BY <1>7, <1>f, EndsInPlace DEF CommitAppend
<1>8. CASE FindSource(p)
  BY <1>8, <1>f, EndsInPlace DEF FindSource, PlaceOf, LookedUp, Copying, IdsNamed, Ids
<1>9. CASE FindFork(p)
  BY <1>9, <1>f, EndsInPlace DEF FindFork, PlaceOf, LookedUp, Copying
<1>10. CASE BeginFork(p)
  BY <1>10, <1>f, <1>s DEF BeginFork, PlaceOf, LookedUp, Copying
<1>11. CASE CommitFork(p)
  BY <1>11, <1>f DEF CommitFork, PlaceOf, LookedUp, Copying
<1>12. CASE BeginClear(p)
  BY <1>12, <1>f, <1>s DEF BeginClear, PlaceOf, LookedUp, Copying
<1>13. CASE CommitClear(p)
  BY <1>13, <1>f, EndsInPlace DEF CommitClear
<1>14. CASE Delete(p)
  BY <1>14, <1>f, EndsInPlace DEF Delete
<1>15. CASE Crash(p)
  BY <1>15, EndsInPlace DEF Crash
<1> QED
  BY <1>1, <1>2, <1>3, <1>4, <1>5, <1>6, <1>7, <1>8, <1>9, <1>10, <1>11,
     <1>12, <1>13, <1>14, <1>15 DEF Step

-----------------------------------------------------------------------------
(***************************************************************************)
(* The tables.                                                             *)
(***************************************************************************)
\* Every way a step changes the tables.
Creates(p)  == /\ NextId \in RowIds /\ IdsNamed(op[p].name) = {}
               /\ sessions' = [sessions EXCEPT ![NextId] = op[p].name]
               /\ UNCHANGED <<messages, deleted>>
Copies(p)   == /\ pc[p] = "commit fork"
               /\ NextId \in RowIds /\ IdsNamed(op[p].name) = {}
               /\ sessions' = [sessions EXCEPT ![NextId] = op[p].name]
               /\ messages' = [messages EXCEPT ![NextId] = newRows[p]]
               /\ UNCHANGED deleted
SavesTurn(p)  == /\ pc[p] = "commit append" /\ sid[p] \in Ids
                 /\ messages' = [messages EXCEPT ![sid[p]] = @ \o newRows[p]]
                 /\ UNCHANGED <<sessions, deleted>>
Clears(p)   == /\ pc[p] = "commit clear" /\ sid[p] \in RowIds
               /\ messages' = [messages EXCEPT ![sid[p]] = <<>>]
               /\ UNCHANGED <<sessions, deleted>>
Removes(p)  == LET gone == IdsNamed(op[p].name)
               IN  /\ pc[p] = "delete"
                   /\ sessions' = [i \in RowIds |-> IF i \in gone THEN NoName ELSE sessions[i]]
                   /\ messages' = [i \in RowIds |-> IF i \in gone THEN <<>> ELSE messages[i]]
                   /\ deleted' = IF gone = {} THEN deleted ELSE deleted \cup {op[p].name}

LEMMA TableKinds ==
  ASSUME TypeOK, NEW p \in Procs, PlaceOf(p), Step(p)
  PROVE  /\ op[p].name \in Names \/ UNCHANGED db
         /\ \/ UNCHANGED db
            \/ Creates(p) \/ Copies(p) \/ SavesTurn(p) \/ Clears(p) \/ Removes(p)
<1>1. pc[p] # "idle" => op[p].name \in Names
  BY DEF PlaceOf, Operation
<1>2. StatementFails(p) => UNCHANGED db
  BY DEF StatementFails
<1>3. CASE CreateIfMissing(p)
  BY <1>1, <1>2, <1>3 DEF CreateIfMissing, db, Creates
<1>4. CASE CommitFork(p)
  BY <1>1, <1>2, <1>4 DEF CommitFork, Copies, PlaceOf
<1>5. CASE CommitAppend(p)
  BY <1>1, <1>2, <1>5 DEF CommitAppend, SavesTurn, PlaceOf
<1>6. CASE CommitClear(p)
  BY <1>1, <1>2, <1>6 DEF CommitClear, Clears, PlaceOf, LookedUp
<1>7. CASE Delete(p)
  BY <1>1, <1>2, <1>7 DEF Delete, Removes
<1>8. CASE Start(p) \/ Find(p) \/ Read(p) \/ EndUnsaved(p) \/ AppendMessage(p)
           \/ FindSource(p) \/ FindFork(p) \/ BeginFork(p) \/ BeginClear(p) \/ Crash(p)
  BY <1>2, <1>8 DEF Start, Find, Read, EndUnsaved, AppendMessage, FindSource, FindFork,
                    BeginFork, BeginClear, Crash
<1> QED BY <1>3, <1>4, <1>5, <1>6, <1>7, <1>8 DEF Step

LEMMA InheritStep ==
  ASSUME TypeOK, NEW p \in Procs, PlaceOf(p), Step(p), NothingInherited
  PROVE  NothingInherited'
<1> USE TypeParts DEF Tables, NothingInherited, Ids
<1>1. CASE UNCHANGED db
  BY <1>1 DEF db
<1> SUFFICES ASSUME op[p].name \in Names PROVE NothingInherited'
  BY <1>1, TableKinds
<1>2. CASE Creates(p)
  BY <1>2, NullsAssumption DEF Creates, IdsNamed
<1>3. CASE Copies(p)
  BY <1>3, NullsAssumption DEF Copies, IdsNamed
<1>4. CASE SavesTurn(p)
  BY <1>4 DEF SavesTurn
<1>5. CASE Clears(p)
  BY <1>5 DEF Clears
<1>6. CASE Removes(p)
  BY <1>6, NullsAssumption DEF Removes, IdsNamed
<1> QED BY <1>1, <1>2, <1>3, <1>4, <1>5, <1>6, TableKinds

-----------------------------------------------------------------------------
LEMMA StepInv == IInv /\ [Next]_vars => IInv'
<1> SUFFICES ASSUME IInv, [Next]_vars PROVE IInv'
  OBVIOUS
<1>1. CASE UNCHANGED vars
  <2>1. UNCHANGED <<Ids, NextId>> /\ \A n : IdsNamed(n)' = IdsNamed(n)
    BY <1>1 DEF vars, Ids, NextId, IdsNamed
  <2>2. TypeOK' /\ NothingInherited'
    BY <1>1, <2>1 DEF vars, IInv, TypeOK, NothingInherited
  <2>3. PlaceInv'
    BY <1>1, <2>1 DEF vars, IInv, PlaceInv, PlaceOf
  <2> QED BY <2>2, <2>3 DEF IInv
<1>2. CASE Next
  <2>1. PICK p \in Procs : Step(p)
    BY <1>2, Steps
  <2>2. TypeOK'
    BY <2>1, TypeStep DEF IInv, PlaceInv
  <2>3. ASSUME NEW q \in Procs PROVE PlaceOf(q)'
    <3>1. CASE q = p
      BY <2>1, <3>1, OwnInPlace DEF IInv, PlaceInv
    <3>2. CASE q # p
      BY <2>1, <3>2, OthersInPlace DEF IInv, PlaceInv
    <3> QED BY <3>1, <3>2
  <2>4. NothingInherited'
    BY <2>1, InheritStep DEF IInv, PlaceInv
  <2> QED BY <2>2, <2>3, <2>4 DEF IInv, PlaceInv
<1> QED BY <1>1, <1>2

\* IInv is inductive.
THEOREM Invariance == Spec => []IInv
BY InitInv, StepInv, PTL DEF Spec

\* Every reachable state is well typed; in particular the write lock is held in a
\* transaction and nowhere else, however the operation ends (defer tx.Rollback()).
THEOREM TypeCorrect == Spec => []TypeOK
<1>1. IInv => TypeOK
  BY DEF IInv
<1> QED BY <1>1, Invariance, PTL

\* A name has one session, and a new session never comes with messages of a deleted
\* one, for any number of terminals.
THEOREM NothingEverInherited == Spec => []NothingInherited
<1>1. IInv => NothingInherited
  BY DEF IInv
<1> QED BY <1>1, Invariance, PTL

-----------------------------------------------------------------------------
(***************************************************************************)
(* Whole turns.  What is stored is of turns that are over; the rows of an  *)
(* open transaction are the beginning of the turn that is being saved, or  *)
(* the messages of the session that is being copied.                       *)
(***************************************************************************)
Over(t) == \/ t.num < op[t.proc].num
           \/ t.num = op[t.proc].num /\ pc[t.proc] = "idle"

RowsOf(p) ==
    /\ pc[p] \in {"append", "commit append"} =>
          \A k \in DOMAIN newRows[p] : newRows[p][k] = [turn |-> TurnNow(p), place |-> k]
    /\ pc[p] = "commit fork" => newRows[p] = messages[sid[p]]

StoredOver == \A i \in RowIds : \A k \in DOMAIN messages[i] : Over(messages[i][k].turn)

TurnInv == SessionsWhole /\ StoredOver /\ \A p \in Procs : RowsOf(p)

LEMMA NoTurns == WholeTurns(<<>>)
BY DEF WholeTurns

LEMMA NumKept ==
  ASSUME TypeOK, NEW p \in Procs, PlaceOf(p), Step(p)
  PROVE  IF pc[p] = "idle" THEN op'[p].num = op[p].num + 1 ELSE op'[p] = op[p]
<1>1. CASE Start(p)
  BY <1>1, TypeParts DEF Start, Locals
<1>2. CASE ~Start(p)
  BY <1>2 DEF Step, CreateIfMissing, Find, Read, EndUnsaved, AppendMessage, CommitAppend,
     FindSource, FindFork, BeginFork, CommitFork, BeginClear, CommitClear, Delete, Crash,
     StatementFails, local
<1> QED BY <1>1, <1>2

\* A turn that is over stays over.
LEMMA StaysOver ==
  ASSUME TypeOK, NEW p \in Procs, PlaceInv, Step(p), NEW t \in Turn, Over(t)
  PROVE  Over(t)'
<1>1. t.proc \in Procs /\ t.num \in Nat
  BY BoundsAssumption DEF Turn
<1>2. CASE t.proc = p
  <2>1. op[p].num \in Nat /\ PlaceOf(p)
    BY DEF PlaceInv, PlaceOf
  <2>2. CASE pc[p] = "idle"
    <3>1. op'[p].num = op[p].num + 1
      BY <2>1, <2>2, NumKept
    <3>2. t.num <= op[p].num
      BY <1>1, <1>2, <2>1 DEF Over
    <3>3. t.num < op'[p].num
      BY <1>1, <2>1, <3>1, <3>2
    <3> QED BY <1>2, <3>3 DEF Over
  <2>3. CASE pc[p] # "idle"
    BY <1>2, <2>1, <2>3, NumKept DEF Over
  <2> QED BY <2>2, <2>3
<1>3. CASE t.proc # p
  BY <1>1, <1>3, OthersKept DEF Over, KeptOf
<1> QED BY <1>2, <1>3

\* A whole turn behind whole turns that it is none of.
LEMMA OneMoreTurn ==
  ASSUME NEW s \in Seq(Messages), NEW t \in Seq(Messages), NEW u,
         WholeTurns(s), Len(t) = TurnLen,
         \A k \in DOMAIN t : t[k] = [turn |-> u, place |-> k],
         \A k \in DOMAIN s : s[k].turn # u
  PROVE  WholeTurns(s \o t)
<1> DEFINE n == Len(s)
           st == s \o t
<1>1. n \in Nat /\ TurnLen \in Nat \ {0} /\ DOMAIN s = 1..n /\ DOMAIN t = 1..TurnLen
  BY BoundsAssumption
<1>2. Len(st) = n + TurnLen /\ DOMAIN st = 1..(n + TurnLen)
  <2>1. st \in Seq(Messages) /\ Len(st) = n + Len(t)
    OBVIOUS
  <2> HIDE DEF st, n
  <2>2. Len(st) = n + TurnLen
    BY <2>1
  <2> QED BY <2>1, <2>2
<1>3. \A k \in 1..n : st[k] = s[k]
  BY <1>1
<1>4. \A k \in (n + 1)..(n + TurnLen) : st[k] = [turn |-> u, place |-> k - n]
  BY <1>1
<1>5. \A k \in 1..n : st[k].turn # u /\ s[k] \in Messages
  BY <1>1, <1>3
<1> HIDE DEF st, n
<1>9. ASSUME NEW k \in (n + 1)..(n + TurnLen) PROVE st[k].turn = u /\ st[k].place = k - n
  <2>1. st[k] = [turn |-> u, place |-> k - n]
    BY <1>4
  <2> QED BY <2>1
<1>6. ASSUME NEW k \in DOMAIN st
      PROVE  /\ st[k].place > 1 => k > 1 /\ st[k - 1] = [st[k] EXCEPT !.place = @ - 1]
             /\ st[k].place < TurnLen
                   => k < Len(st) /\ st[k + 1] = [st[k] EXCEPT !.place = @ + 1]
  <2>1. CASE k \in 1..n
    <3>1. /\ s[k].place > 1 => k > 1 /\ s[k - 1] = [s[k] EXCEPT !.place = @ - 1]
          /\ s[k].place < TurnLen => k < n /\ s[k + 1] = [s[k] EXCEPT !.place = @ + 1]
      BY <1>1, <2>1 DEF WholeTurns, n
    <3>2. k > 1 => k - 1 \in 1..n
      BY <1>1, <2>1
    <3>3. k < n => k + 1 \in 1..n /\ k < n + TurnLen
      BY <1>1, <2>1
    <3> QED BY <1>2, <1>3, <2>1, <3>1, <3>2, <3>3
  <2>2. CASE k \in (n + 1)..(n + TurnLen)
    <3>1. st[k] = [turn |-> u, place |-> k - n]
      BY <1>4, <2>2
    <3>2. k - n > 1 => k > 1 /\ k - 1 \in (n + 1)..(n + TurnLen) /\ (k - 1) - n = (k - n) - 1
      BY <1>1, <2>2
    <3>3. k - n < TurnLen => /\ k < n + TurnLen /\ k + 1 \in (n + 1)..(n + TurnLen)
                             /\ (k + 1) - n = (k - n) + 1
      BY <1>1, <2>2
    <3>4. k - n > 1 => st[k - 1] = [turn |-> u, place |-> (k - n) - 1]
      BY <1>4, <3>2
    <3>5. k - n < TurnLen => st[k + 1] = [turn |-> u, place |-> (k - n) + 1]
      BY <1>4, <3>3
    <3> QED BY <1>2, <3>1, <3>2, <3>3, <3>4, <3>5
  <2> QED BY <1>1, <1>2, <2>1, <2>2
<1>7. ASSUME NEW j \in DOMAIN st, NEW k \in DOMAIN st, st[j] = st[k] PROVE j = k
  <2>1. CASE j \in 1..n /\ k \in 1..n
    BY <1>1, <1>3, <1>7, <2>1 DEF WholeTurns
  <2>2. CASE j \in (n + 1)..(n + TurnLen) /\ k \in (n + 1)..(n + TurnLen)
    <3>1. j - n = k - n
      BY <1>7, <1>9, <2>2
    <3> QED BY <1>1, <2>2, <3>1
  <2>3. ~(j \in 1..n /\ k \in (n + 1)..(n + TurnLen))
    BY <1>5, <1>7, <1>9
  <2>4. ~(k \in 1..n /\ j \in (n + 1)..(n + TurnLen))
    BY <1>5, <1>7, <1>9
  <2> QED BY <1>1, <1>2, <2>1, <2>2, <2>3, <2>4
<1> QED BY <1>6, <1>7 DEF WholeTurns, st

LEMMA TurnInit == Init => TurnInv
BY NoTurns DEF Init, TurnInv, SessionsWhole, StoredOver, RowsOf

\* What a transaction has inserted.
LEMMA RowsStep ==
  ASSUME IInv, TurnInv, NEW p \in Procs, Step(p), NEW q \in Procs
  PROVE  RowsOf(q)'
<1>1. CASE q # p
  <2>1. KeptOf(q) /\ (pc[q] \in InTransaction => UNCHANGED <<sessions, messages>>)
    BY <1>1, OthersKept DEF IInv
  <2> QED BY <2>1 DEF TurnInv, RowsOf, KeptOf, InTransaction, TurnNow
<1>2. CASE q = p
  <2> USE TypeParts DEF IInv, TypeOK, PlaceInv
  <2>1. CASE AppendMessage(p) /\ ~StatementFails(p)
    <3> DEFINE rows == newRows[p]
    <3>1. /\ pc[p] \in {"loop", "append"} /\ pc'[p] # "commit fork"
          /\ newRows'[p] = Append(rows, NextMessage(p)) /\ op'[p] = op[p]
      BY <2>1 DEF AppendMessage, Goto, local
    <3>2. rows \in Seq(Messages) /\ \A k \in DOMAIN rows : rows[k] = [turn |-> TurnNow(p), place |-> k]
      <4>1. pc[p] = "loop" => rows = <<>>
        BY DEF PlaceOf, Copying
      <4>2. rows \in Seq(Messages)
        OBVIOUS
      <4>3. CASE pc[p] = "loop"
        BY <4>1, <4>2, <4>3
      <4>4. CASE pc[p] = "append"
        BY <4>2, <4>4 DEF TurnInv, RowsOf
      <4> QED BY <3>1, <4>3, <4>4
    <3>3. NextMessage(p) = [turn |-> TurnNow(p), place |-> Len(rows) + 1]
      BY DEF NextMessage
    <3>4. TurnNow(p)' = TurnNow(p)
      BY <3>1 DEF TurnNow
    <3> HIDE DEF rows
    <3>5. \A k \in DOMAIN newRows'[p] : newRows'[p][k] = [turn |-> TurnNow(p), place |-> k]
      <4> DEFINE more == newRows'[p]
      <4>1. more = Append(rows, [turn |-> TurnNow(p), place |-> Len(rows) + 1])
        BY <3>1, <3>3
      <4> SUFFICES ASSUME NEW k \in DOMAIN more PROVE more[k] = [turn |-> TurnNow(p), place |-> k]
        OBVIOUS
      <4> HIDE DEF more
      <4>2. Len(rows) \in Nat /\ DOMAIN rows = 1..Len(rows) /\ k \in 1..(Len(rows) + 1)
        BY <3>2, <4>1
      <4>3. CASE k = Len(rows) + 1
        BY <3>2, <4>1, <4>3
      <4>4. CASE k \in DOMAIN rows
        BY <3>2, <4>1, <4>2, <4>4
      <4> QED BY <4>2, <4>3, <4>4
    <3> QED BY <1>2, <3>1, <3>4, <3>5 DEF RowsOf
  <2>2. CASE BeginFork(p) /\ ~StatementFails(p)
    BY <1>2, <2>2 DEF BeginFork, Goto, RowsOf, db, local
  <2>3. CASE StatementFails(p) \/ (~AppendMessage(p) /\ ~BeginFork(p))
    <3>1. pc'[p] \notin {"append", "commit append", "commit fork"}
      BY <2>3 DEF Step, Start, CreateIfMissing, Find, Read, EndUnsaved, CommitAppend, FindSource,
         FindFork, CommitFork, BeginClear, CommitClear, Delete, Crash, StatementFails,
         Goto, Return
    <3> QED BY <1>2, <3>1 DEF RowsOf
  <2> QED BY <2>1, <2>2, <2>3
<1> QED BY <1>1, <1>2

\* A turn is saved whole, once, behind turns that are over.
LEMMA SaveWhole ==
  ASSUME IInv, TurnInv, NEW p \in Procs, SavesTurn(p)
  PROVE  WholeTurns(messages[sid[p]] \o newRows[p])
<1> DEFINE s == messages[sid[p]]
           t == newRows[p]
           u == TurnNow(p)
<1>1. pc[p] = "commit append" /\ sid[p] \in RowIds /\ Len(t) = TurnLen
  BY DEF IInv, PlaceInv, PlaceOf, SavesTurn, Ids
<1>2. s \in Seq(Messages) /\ t \in Seq(Messages)
  BY <1>1 DEF IInv, TypeOK
<1>3. \A k \in DOMAIN t : t[k] = [turn |-> u, place |-> k]
  BY <1>1 DEF TurnInv, RowsOf
<1>4. ~Over(u)
  <2>1. u.proc = p /\ u.num = op[p].num
    BY DEF TurnNow
  <2>2. op[p].num \in Nat /\ pc[p] # "idle"
    BY <1>1 DEF IInv, PlaceInv, PlaceOf
  <2> HIDE DEF u
  <2> QED BY <2>1, <2>2 DEF Over
<1>5. \A k \in DOMAIN s : s[k].turn # u
  BY <1>1, <1>4 DEF TurnInv, StoredOver
<1>6. WholeTurns(s)
  BY <1>1 DEF TurnInv, SessionsWhole
<1> HIDE DEF s, t, u
<1>7. WholeTurns(s \o t)
  BY <1>1, <1>2, <1>3, <1>5, <1>6, OneMoreTurn
<1> QED BY <1>7 DEF s, t

\* Where the stored messages of a session come from.
LEMMA StoredKinds ==
  ASSUME IInv, TurnInv, NEW p \in Procs, Step(p), NEW i \in RowIds
  PROVE  \/ messages'[i] = <<>>
         \/ \E j \in RowIds : messages'[i] = messages[j]
         \/ SavesTurn(p) /\ i = sid[p] /\ messages'[i] = messages[i] \o newRows[p]
<1> USE DEF IInv, PlaceInv, TypeOK
<1>1. CASE UNCHANGED db \/ Creates(p)
  BY <1>1 DEF db, Creates
<1>2. CASE Copies(p)
  <2>1. newRows[p] = messages[sid[p]] /\ sid[p] \in RowIds
    BY <1>2 DEF Copies, TurnInv, RowsOf, PlaceOf, LookedUp
  <2> QED BY <1>2, <2>1 DEF Copies
<1>3. CASE SavesTurn(p)
  BY <1>3 DEF SavesTurn
<1>4. CASE Clears(p)
  BY <1>4 DEF Clears
<1>5. CASE Removes(p)
  BY <1>5 DEF Removes
<1> QED BY <1>1, <1>2, <1>3, <1>4, <1>5, TableKinds

LEMMA BehindElement ==
  ASSUME NEW s \in Seq(Messages), NEW t \in Seq(Messages),
         NEW k \in DOMAIN (s \o t), k \notin DOMAIN s
  PROVE  k - Len(s) \in DOMAIN t /\ (s \o t)[k] = t[k - Len(s)]
<1>1. /\ Len(s) \in Nat /\ Len(t) \in Nat /\ DOMAIN s = 1..Len(s) /\ DOMAIN t = 1..Len(t)
      /\ DOMAIN (s \o t) = 1..(Len(s) + Len(t))
  OBVIOUS
<1>2. k \in (Len(s) + 1)..(Len(s) + Len(t))
  BY <1>1
<1> QED BY <1>1, <1>2

LEMMA StoredStep ==
  ASSUME IInv, TurnInv, NEW p \in Procs, Step(p)
  PROVE  StoredOver' /\ \A i \in RowIds : WholeTurns(messages'[i])
<1> SUFFICES ASSUME NEW i \in RowIds
             PROVE  WholeTurns(messages'[i]) /\ \A k \in DOMAIN messages'[i] :
                       \A t \in Turn : t = messages'[i][k].turn => Over(t)'
  <2>1. ASSUME NEW j \in RowIds, NEW k \in DOMAIN messages'[j] PROVE messages'[j][k].turn \in Turn
    <3>1. messages'[j][k] \in Messages
      BY TypeStep DEF IInv, PlaceInv, TypeOK
    <3> QED BY <3>1 DEF Messages
  <2> QED BY <2>1 DEF StoredOver, Over
<1>1. CASE messages'[i] = <<>>
  BY <1>1, NoTurns
<1>2. \A j \in RowIds : \A k \in DOMAIN messages[j] :
         \A t \in Turn : t = messages[j][k].turn => Over(t)'
  BY StaysOver DEF IInv, TurnInv, StoredOver
<1>3. CASE \E j \in RowIds : messages'[i] = messages[j]
  <2>1. PICK j \in RowIds : messages'[i] = messages[j]
    BY <1>3
  <2>2. WholeTurns(messages[j])
    BY DEF TurnInv, SessionsWhole
  <2> QED BY <1>2, <2>1, <2>2
<1>4. CASE SavesTurn(p) /\ i = sid[p] /\ messages'[i] = messages[i] \o newRows[p]
  <2>1. WholeTurns(messages'[i])
    BY <1>4, SaveWhole
  <2>2. pc'[p] = "idle" /\ op'[p] = op[p] /\ pc[p] = "commit append"
    <3>1. pc[p] = "commit append"
      BY <1>4 DEF SavesTurn
    <3> QED BY <3>1 DEF Step, Start, CreateIfMissing, Find, Read, EndUnsaved, AppendMessage,
         CommitAppend, FindSource, FindFork, BeginFork, CommitFork, BeginClear, CommitClear,
         Delete, Crash, StatementFails, Goto, Return, IInv, TypeOK, local
  <2>3. ASSUME NEW k \in DOMAIN messages'[i], NEW t \in Turn, t = messages'[i][k].turn
        PROVE  Over(t)'
    <3>1. messages[i] \in Seq(Messages) /\ newRows[p] \in Seq(Messages)
      BY DEF IInv, TypeOK
    <3>2. CASE k \in DOMAIN messages[i]
      <4>1. messages'[i][k] = messages[i][k]
        BY <1>4, <3>1, <3>2
      <4> QED BY <1>2, <2>3, <3>2, <4>1
    <3>3. CASE k \notin DOMAIN messages[i]
      <4> DEFINE m == k - Len(messages[i])
      <4>0. k \in DOMAIN (messages[i] \o newRows[p])
        BY <1>4, <2>3
      <4>1. m \in DOMAIN newRows[p] /\ messages'[i][k] = newRows[p][m]
        <5> DEFINE both == messages[i] \o newRows[p]
        <5>1. m \in DOMAIN newRows[p] /\ both[k] = newRows[p][m]
          BY <3>1, <3>3, <4>0, BehindElement
        <5>2. messages'[i] = both
          BY <1>4
        <5> HIDE DEF both, m
        <5> QED BY <5>1, <5>2
      <4>2. newRows[p][m] = [turn |-> TurnNow(p), place |-> m]
        BY <2>2, <4>1 DEF TurnInv, RowsOf
      <4>3. t = TurnNow(p)
        BY <2>3, <4>1, <4>2
      <4>4. t.proc = p /\ t.num = op[p].num
        BY <4>3 DEF TurnNow
      <4> QED BY <2>2, <4>4 DEF Over
    <3> QED BY <3>2, <3>3
  <2> QED BY <2>1, <2>3
<1> QED BY <1>1, <1>2, <1>3, <1>4, StoredKinds

LEMMA HistoryStep ==
  ASSUME IInv, TurnInv, NEW p \in Procs, Step(p), NEW q \in Procs
  PROVE  WholeTurns(history'[q])
<1> USE DEF IInv, TypeOK, PlaceInv, TurnInv, SessionsWhole
<1>1. CASE q # p
  BY <1>1, OthersKept DEF KeptOf
<1>2. CASE q = p
  <2>1. \/ history'[p] = history[p] \/ history'[p] = <<>>
        \/ sid[p] \in RowIds /\ history'[p] = messages[sid[p]]
    BY DEF Step, Start, CreateIfMissing, Find, Read, EndUnsaved, AppendMessage, CommitAppend,
       FindSource, FindFork, BeginFork, CommitFork, BeginClear, CommitClear, Delete, Crash,
       StatementFails, local, PlaceOf, LookedUp
  <2> QED BY <1>2, <2>1, NoTurns
<1> QED BY <1>1, <1>2

LEMMA TurnStep == IInv /\ TurnInv /\ [Next]_vars => TurnInv'
<1> SUFFICES ASSUME IInv, TurnInv, [Next]_vars PROVE TurnInv'
  OBVIOUS
<1>1. CASE UNCHANGED vars
  BY <1>1 DEF vars, TurnInv, SessionsWhole, StoredOver, Over, RowsOf, TurnNow
<1>2. CASE Next
  <2>1. PICK p \in Procs : Step(p)
    BY <1>2, Steps
  <2>2. StoredOver' /\ \A i \in RowIds : WholeTurns(messages'[i])
    BY <2>1, StoredStep
  <2>3. \A q \in Procs : RowsOf(q)'
    BY <2>1, RowsStep
  <2>4. \A q \in Procs : WholeTurns(history'[q])
    BY <2>1, HistoryStep
  <2> QED BY <2>2, <2>3, <2>4 DEF TurnInv, SessionsWhole, WholeTurns
<1> QED BY <1>1, <1>2

\* However many invocations interleave, fail or are killed, sessions and what a run
\* loads hold whole turns only, for turns of every length (AppendMessages, Fork).
THEOREM SessionsAlwaysWhole == Spec => []SessionsWhole
<1>1. TurnInv => SessionsWhole
  BY DEF TurnInv
<1> QED BY <1>1, TurnInit, TurnStep, Invariance, PTL DEF Spec

=============================================================================
