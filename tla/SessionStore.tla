---------------------------- MODULE SessionStore ----------------------------
(***************************************************************************)
(* The session store of internal/session/session.go, shared by the         *)
(* invocations of several terminals: one SQLite file in WAL mode, opened   *)
(* by every invocation with one connection and no busy timeout             *)
(* (store.OpenDB).                                                         *)
(*                                                                         *)
(* An action is one SQL statement.  A statement outside a transaction      *)
(* commits by itself.  A transaction takes the file's write lock with its  *)
(* first statement, which is a write in all of them, and holds it to its   *)
(* end; a write that finds the lock taken fails at once.  Readers see what *)
(* is committed.  A new row gets the largest id in the table plus one      *)
(* (INTEGER PRIMARY KEY without AUTOINCREMENT), so the id of a deleted     *)
(* session can be given out again.                                         *)
(*                                                                         *)
(* A message keeps the turn it belongs to and its place in it.  Times and  *)
(* run ids are left out.                                                   *)
(*                                                                         *)
(* A name with a suffix after "_" is a faulty variant of the definition    *)
(* below it, and a property of this module tells the two apart.            *)
(***************************************************************************)
EXTENDS ExitCodes, Sequences, FiniteSets

CONSTANTS
    Procs,      \* terminals; each has one invocation running at a time
    Names,      \* session names
    NoName,     \* stands for "no row"
    NoOne,      \* stands for "no process"
    Commands,   \* the kinds of operation they perform
    MaxOps,     \* bound: invocations of a terminal
    MaxId,      \* bound: the largest session row id
    TurnLen     \* bound: messages of a turn

ASSUME CommandsAssumption == Commands \subseteq {"run", "fork", "clear", "delete", "show"}
ASSUME BoundsAssumption   == MaxOps \in Nat /\ MaxId \in Nat /\ TurnLen \in Nat \ {0}
ASSUME NullsAssumption    == NoName \notin Names /\ NoOne \notin Procs

VARIABLES
    sessions,   \* the sessions table: the name in the row of each id, or NoName
    messages,   \* the messages table: the rows that refer to each session id
    deleted,    \* history: the names that a session has ever been deleted of
    writer,     \* the process holding the write lock, or NoOne
    pc,         \* pc[p]: the statement p executes next
    op,         \* op[p]: the operation p performs: [cmd, name, source, num]
    sid,        \* sid[p]: the session id p's last lookup returned, 0 before any
    newRows,    \* newRows[p]: what p's open transaction has inserted so far
    history,    \* history[p]: the messages p has read
    result      \* result[p]: how p's last operation ended

db    == <<sessions, messages, deleted>>
local == <<op, sid, history>>
vars  == <<sessions, messages, deleted, writer, pc, op, sid, newRows, history, result>>

RowIds    == 1..MaxId
Operation == [cmd : Commands, name : Names, source : Names, num : 1..MaxOps]
NoOp      == [cmd |-> "none", name |-> NoName, source |-> NoName, num |-> 0]
Turn      == [proc : Procs, num : 1..MaxOps, name : Names]
Messages  == [turn : Turn, place : 1..TurnLen]
Killed    == -1

Ids == {i \in RowIds : sessions[i] # NoName}

\* lookup(name): SELECT ... WHERE name = n, at most one row.
IdsNamed(n) == {i \in Ids : sessions[i] = n}

\* The id SQLite gives to the next session row.
NextId == CHOOSE i \in 1..(MaxId + 1) :
             (\A j \in Ids : j < i) /\ (i = 1 \/ i - 1 \in Ids)

TurnNow(p) == [proc |-> p, num |-> op[p].num, name |-> op[p].name]

Init ==
    /\ sessions = [i \in RowIds |-> NoName]
    /\ messages = [i \in RowIds |-> <<>>]
    /\ deleted = {}
    /\ writer = NoOne
    /\ pc = [p \in Procs |-> "idle"]
    /\ op = [p \in Procs |-> NoOp]
    /\ sid = [p \in Procs |-> 0]
    /\ newRows = [p \in Procs |-> <<>>]
    /\ history = [p \in Procs |-> <<>>]
    /\ result = [p \in Procs |-> ExitSuccess]

Goto(p, label) == pc' = [pc EXCEPT ![p] = label]

\* Early returns leave the transaction open.
Return_NoRollback(p, code) ==
    /\ Goto(p, "idle")
    /\ result' = [result EXCEPT ![p] = code]
    /\ writer' = IF writer = p /\ code = ExitSuccess THEN NoOne ELSE writer
    /\ newRows' = [newRows EXCEPT ![p] = <<>>]

\* The operation ends; an open transaction is rolled back (defer tx.Rollback()).
Return(p, code) ==
    /\ Goto(p, "idle")
    /\ result' = [result EXCEPT ![p] = code]
    /\ writer' = IF writer = p THEN NoOne ELSE writer
    /\ newRows' = [newRows EXCEPT ![p] = <<>>]

\* A statement that fails: the lock is taken, or the file cannot be accessed.
StatementFails(p) ==
    /\ Return(p, ExitSessionFailure)
    /\ UNCHANGED <<db, local>>

-----------------------------------------------------------------------------
\* A terminal starts its next invocation.
Start(p) ==
    /\ pc[p] = "idle"
    /\ op[p].num < MaxOps
    /\ \E o \in Operation :
          /\ o.num = op[p].num + 1
          /\ o.cmd # "fork" => o.source = o.name
          /\ op' = [op EXCEPT ![p] = o]
          /\ Goto(p, CASE o.cmd = "run"    -> "create"
                       [] o.cmd = "fork"   -> "find source"
                       [] o.cmd = "delete" -> "delete"
                       [] OTHER            -> "find")
    /\ sid' = [sid EXCEPT ![p] = 0]
    /\ history' = [history EXCEPT ![p] = <<>>]
    /\ UNCHANGED <<db, writer, newRows, result>>

(***************************************************************************)
(* LoadOrCreate and GetMessages.                                           *)
(***************************************************************************)
\* INSERT OR IGNORE: takes the write lock even when the row is there.
CreateIfMissing(p) ==
    /\ pc[p] = "create"
    /\ \/ /\ writer = NoOne
          /\ IF IdsNamed(op[p].name) = {}
             THEN NextId \in RowIds /\ sessions' = [sessions EXCEPT ![NextId] = op[p].name]
             ELSE UNCHANGED sessions
          /\ Goto(p, "find")
          /\ UNCHANGED <<messages, deleted, writer, local, newRows, result>>
       \/ StatementFails(p)

\* The lookup of LoadOrCreate, Clear and Show.
Find(p) ==
    /\ pc[p] = "find"
    /\ \/ /\ IdsNamed(op[p].name) = {}
          /\ Return(p, ExitCLIUsage)
          /\ UNCHANGED <<db, local>>
       \/ \E i \in IdsNamed(op[p].name) :
             /\ sid' = [sid EXCEPT ![p] = i]
             /\ Goto(p, IF op[p].cmd = "clear" THEN "begin clear" ELSE "read")
             /\ UNCHANGED <<db, writer, op, history, newRows, result>>
       \/ StatementFails(p)

\* GetMessages of a run, and the query of Show.
Read(p) ==
    /\ pc[p] = "read"
    /\ \/ /\ history' = [history EXCEPT ![p] = messages[sid[p]]]
          /\ IF op[p].cmd = "show"
             THEN Return(p, ExitSuccess)
             ELSE Goto(p, "loop") /\ UNCHANGED <<writer, newRows, result>>
          /\ UNCHANGED <<db, op, sid>>
       \/ StatementFails(p)

\* The run fails, or is not to be saved.
EndUnsaved(p) ==
    /\ pc[p] = "loop"
    /\ \E code \in {ExitSuccess, ExitRuntime} : Return(p, code)
    /\ UNCHANGED <<db, local>>

(***************************************************************************)
(* AppendMessages: one INSERT a message, then the commit.  The foreign key *)
(* refuses an id that names no session.                                    *)
(***************************************************************************)
NextMessage(p) == [turn |-> TurnNow(p), place |-> Len(newRows[p]) + 1]

\* Each message is committed by itself.
AppendMessage_NoTx(p) ==
    /\ pc[p] \in {"loop", "append"}
    /\ sid[p] \in Ids
    /\ messages' = [messages EXCEPT ![sid[p]] = Append(@, NextMessage(p))]
    /\ IF NextMessage(p).place < TurnLen
       THEN /\ newRows' = [newRows EXCEPT ![p] = Append(@, NextMessage(p))]
            /\ Goto(p, "append")
            /\ UNCHANGED <<writer, result>>
       ELSE Return(p, ExitSuccess)
    /\ UNCHANGED <<sessions, deleted, local>>

AppendMessage(p) ==
    /\ pc[p] \in {"loop", "append"}
    /\ \/ /\ writer \in {NoOne, p}
          /\ sid[p] \in Ids
          /\ writer' = p
          /\ newRows' = [newRows EXCEPT ![p] = Append(@, NextMessage(p))]
          /\ Goto(p, IF Len(newRows'[p]) < TurnLen THEN "append" ELSE "commit append")
          /\ UNCHANGED <<db, local, result>>
       \/ StatementFails(p)

\* The touch of updated_at and the commit.
CommitAppend(p) ==
    /\ pc[p] = "commit append"
    /\ \/ /\ messages' = [messages EXCEPT ![sid[p]] = @ \o newRows[p]]
          /\ Return(p, ExitSuccess)
          /\ UNCHANGED <<sessions, deleted, local>>
       \/ StatementFails(p)

(***************************************************************************)
(* Fork: both lookups come before the transaction.                         *)
(***************************************************************************)
FindSource(p) ==
    /\ pc[p] = "find source"
    /\ \/ /\ IdsNamed(op[p].source) = {}
          /\ Return(p, ExitCLIUsage)
          /\ UNCHANGED <<db, local>>
       \/ \E i \in IdsNamed(op[p].source) :
             /\ sid' = [sid EXCEPT ![p] = i]
             /\ Goto(p, "find fork")
             /\ UNCHANGED <<db, writer, op, history, newRows, result>>
       \/ StatementFails(p)

FindFork(p) ==
    /\ pc[p] = "find fork"
    /\ \/ /\ IdsNamed(op[p].name) # {}
          /\ Return(p, ExitCLIUsage)
          /\ UNCHANGED <<db, local>>
       \/ /\ IdsNamed(op[p].name) = {}
          /\ Goto(p, "begin fork")
          /\ UNCHANGED <<db, writer, local, newRows, result>>
       \/ StatementFails(p)

\* The new row and the copies are the transaction's own until the commit, and
\* nobody else commits before it.  The name is unique.  What is copied is found by
\* the id the lookup returned, which may be the id of the new row by now.
BeginFork(p) ==
    /\ pc[p] = "begin fork"
    /\ \/ /\ writer = NoOne
          /\ IdsNamed(op[p].name) = {}
          /\ NextId \in RowIds
          /\ writer' = p
          /\ newRows' = [newRows EXCEPT ![p] = messages[sid[p]]]
          /\ Goto(p, "commit fork")
          /\ UNCHANGED <<db, local, result>>
       \/ StatementFails(p)

\* The copied messages are filed under the source's id.
CommitFork_SourceId(p) ==
    /\ pc[p] = "commit fork"
    /\ sessions' = [sessions EXCEPT ![NextId] = op[p].name]
    /\ messages' = [messages EXCEPT ![sid[p]] = @ \o newRows[p]]
    /\ sid' = [sid EXCEPT ![p] = NextId]
    /\ writer' = NoOne
    /\ newRows' = [newRows EXCEPT ![p] = <<>>]
    /\ Goto(p, "read")
    /\ UNCHANGED <<deleted, op, history, result>>

\* The run goes on in the new session.
CommitFork(p) ==
    /\ pc[p] = "commit fork"
    /\ \/ /\ sessions' = [sessions EXCEPT ![NextId] = op[p].name]
          /\ messages' = [messages EXCEPT ![NextId] = newRows[p]]
          /\ sid' = [sid EXCEPT ![p] = NextId]
          /\ writer' = NoOne
          /\ newRows' = [newRows EXCEPT ![p] = <<>>]
          /\ Goto(p, "read")
          /\ UNCHANGED <<deleted, op, history, result>>
       \/ StatementFails(p)

(***************************************************************************)
(* Clear and Delete.                                                       *)
(***************************************************************************)
BeginClear(p) ==
    /\ pc[p] = "begin clear"
    /\ \/ /\ writer = NoOne
          /\ writer' = p
          /\ Goto(p, "commit clear")
          /\ UNCHANGED <<db, local, newRows, result>>
       \/ StatementFails(p)

CommitClear(p) ==
    /\ pc[p] = "commit clear"
    /\ \/ /\ messages' = [messages EXCEPT ![sid[p]] = <<>>]
          /\ Return(p, ExitSuccess)
          /\ UNCHANGED <<sessions, deleted, local>>
       \/ StatementFails(p)

\* The messages of a deleted session stay (foreign keys off).
Delete_NoCascade(p) ==
    /\ pc[p] = "delete"
    /\ writer = NoOne
    /\ sessions' = [i \in RowIds |-> IF i \in IdsNamed(op[p].name) THEN NoName ELSE sessions[i]]
    /\ Return(p, ExitSuccess)
    /\ deleted' = deleted \cup {op[p].name}
    /\ UNCHANGED <<messages, local>>

\* DELETE by name; the messages go with the session.
Delete(p) ==
    /\ pc[p] = "delete"
    /\ \/ /\ writer = NoOne
          /\ LET gone == IdsNamed(op[p].name)
             IN  /\ sessions' = [i \in RowIds |-> IF i \in gone THEN NoName ELSE sessions[i]]
                 /\ messages' = [i \in RowIds |-> IF i \in gone THEN <<>> ELSE messages[i]]
                 /\ deleted' = IF gone = {} THEN deleted ELSE deleted \cup {op[p].name}
                 /\ Return(p, IF gone = {} THEN ExitCLIUsage ELSE ExitSuccess)
          /\ UNCHANGED local
       \/ StatementFails(p)

\* The process is killed: its connection goes, and what it had not committed.
Crash(p) ==
    /\ pc[p] # "idle"
    /\ Return(p, Killed)
    /\ UNCHANGED <<db, local>>

-----------------------------------------------------------------------------
Next == \E p \in Procs :
    \/ Start(p)
    \/ CreateIfMissing(p) \/ Find(p) \/ Read(p) \/ EndUnsaved(p)
    \/ AppendMessage(p) \/ CommitAppend(p)
    \/ FindSource(p) \/ FindFork(p) \/ BeginFork(p) \/ CommitFork(p)
    \/ BeginClear(p) \/ CommitClear(p) \/ Delete(p)
    \/ Crash(p)

Spec == Init /\ [][Next]_vars

-----------------------------------------------------------------------------
(***************************************************************************)
(* Properties.                                                             *)
(***************************************************************************)
InTransaction == {"append", "commit append", "commit fork", "commit clear"}

Statement == {"idle", "create", "find", "read", "loop", "find source", "find fork",
              "begin fork", "begin clear", "delete"} \cup InTransaction

\* Types; the write lock is held in a transaction and nowhere else.
TypeOK ==
    /\ sessions \in [RowIds -> Names \cup {NoName}]
    /\ messages \in [RowIds -> Seq(Messages)]
    /\ deleted \subseteq Names
    /\ writer \in Procs \cup {NoOne}
    /\ pc \in [Procs -> Statement]
    /\ op \in [Procs -> Operation \cup {NoOp}]
    /\ sid \in [Procs -> RowIds \cup {0}]
    /\ newRows \in [Procs -> Seq(Messages)]
    /\ history \in [Procs -> Seq(Messages)]
    /\ result \in [Procs -> ExitCode \cup {Killed}]
    /\ \A p \in Procs : writer = p <=> pc[p] \in InTransaction

\* Whole turns, one after the other, none of them twice.
WholeTurns(s) ==
    /\ \A k \in DOMAIN s :
          /\ s[k].place > 1 => k > 1 /\ s[k - 1] = [s[k] EXCEPT !.place = @ - 1]
          /\ s[k].place < TurnLen => k < Len(s) /\ s[k + 1] = [s[k] EXCEPT !.place = @ + 1]
    /\ \A j, k \in DOMAIN s : s[j] = s[k] => j = k

\* However invocations interleave, fail or are killed, a session holds whole
\* turns, and that is what a run loads: a provider is never sent half a turn.
SessionsWhole ==
    /\ \A i \in RowIds : WholeTurns(messages[i])
    /\ \A p \in Procs : WholeTurns(history[p])

\* A name has one session, and a new session does not come with the messages of
\* a deleted one whose id it got.
NothingInherited ==
    /\ \A i, j \in Ids : sessions[i] = sessions[j] => i = j
    /\ \A i \in RowIds \ Ids : messages[i] = <<>>

\* The turns runs may save, as Sessions sees them.
Turns == {[name |-> t.name, messages |-> [k \in 1..TurnLen |-> [turn |-> t, place |-> k]]] :
             t \in Turn}

ByName == [n \in {sessions[i] : i \in Ids} |-> messages[CHOOSE i \in Ids : sessions[i] = n]]

Conversations == INSTANCE Sessions WITH store <- ByName

\* Every statement that commits is one of the promised operations on the session of
\* the name given, whole, or nothing; only a command whose own session has been deleted
\* acts on another one, for the code keeps row ids and SQLite gives them out again.
ImplementsSessions == Conversations!Spec

\* Saving a turn.
Saves(p) == pc[p] = "commit append" /\ messages' # messages

\* The help of --session: "Select persistent conversation state".  The turn goes
\* to the session the run was started for.
SavedWhereAsked ==
    [][\A p \in Procs : Saves(p) => sessions[sid[p]] = op[p].name]_vars

=============================================================================
