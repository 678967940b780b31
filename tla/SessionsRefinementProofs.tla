---------------------- MODULE SessionsRefinementProofs ----------------------
(***************************************************************************)
(* SessionStore implements Sessions: the statements of any number of       *)
(* terminals, over row ids that are given out again, amount to commands on *)
(* named conversations.                                                    *)
(***************************************************************************)
EXTENDS SessionStoreProofs, WellFoundedInduction

(***************************************************************************)
(* The next row id is free.                                                *)
(***************************************************************************)
Less == {ss \in Nat \X Nat : ss[1] < ss[2]}

LEMMA LessWellFounded == IsWellFoundedOn(Less, Nat)
BY NatLessThanWellFounded DEF OpToRel, Less

LEMMA SmallestOf ==
  ASSUME NEW S, S \subseteq Nat, S # {}
  PROVE  \E x \in S : \A y \in S : x <= y
<1>1. PICK x \in S : \A y \in S : <<y, x>> \notin Less
  BY LessWellFounded, WFMin, Zenon
<1>2. \A y \in S : x <= y
  <2> TAKE y \in S
  <2>1. x \in Nat /\ y \in Nat
    OBVIOUS
  <2>2. <<y, x>> \notin Less
    BY <1>1
  <2> QED BY <2>1, <2>2 DEF Less
<1> QED BY <1>2

LEMMA FreshId == NextId \notin Ids
<1> DEFINE Above == {i \in 1..(MaxId + 1) : \A j \in Ids : j < i}
<1>1. MaxId \in Nat /\ Ids \subseteq 1..MaxId
  BY BoundsAssumption DEF Ids, RowIds
<1>2. MaxId + 1 \in Above /\ Above \subseteq Nat
  BY <1>1
<1>3. PICK i \in Above : \A k \in Above : i <= k
  BY <1>2, SmallestOf
<1>4. i = 1 \/ i - 1 \in Ids
  <2> SUFFICES ASSUME i # 1 PROVE i - 1 \in Ids
    OBVIOUS
  <2>1. i - 1 \in 1..(MaxId + 1) /\ i - 1 \notin Above
    BY <1>1, <1>3
  <2>2. PICK j \in Ids : ~(j < i - 1)
    BY <2>1
  <2>3. j \in Nat /\ i \in Nat /\ j < i
    BY <1>1
  <2>4. j = i - 1
    BY <2>2, <2>3
  <2> QED BY <2>4
<1>5. \A j \in Ids : j < NextId
  BY <1>4 DEF NextId
<1>6. \A j \in Ids : j \in Nat
  BY <1>1
<1> QED BY <1>5, <1>6

-----------------------------------------------------------------------------
(***************************************************************************)
(* ByName.                                                                 *)
(***************************************************************************)
Existing == {sessions[i] : i \in Ids}

LEMMA ByNameDomain == DOMAIN ByName = Existing
BY DEF ByName, Existing

LEMMA ByNameAt ==
  NothingInherited => \A i \in Ids : sessions[i] \in Existing /\ ByName[sessions[i]] = messages[i]
<1> SUFFICES ASSUME NothingInherited, NEW i \in Ids
             PROVE  sessions[i] \in Existing /\ ByName[sessions[i]] = messages[i]
  OBVIOUS
<1> DEFINE j == CHOOSE j \in Ids : sessions[j] = sessions[i]
<1>1. j \in Ids /\ sessions[j] = sessions[i]
  OBVIOUS
<1>2. j = i
  BY <1>1 DEF NothingInherited
<1>3. sessions[i] \in Existing
  BY DEF Existing
<1>4. ByName[sessions[i]] = messages[j]
  BY <1>3 DEF ByName, Existing
<1> QED BY <1>2, <1>3, <1>4

LEMMA ByNameNext ==
  /\ (DOMAIN ByName = Existing)'
  /\ NothingInherited' =>
        (\A i \in Ids : sessions[i] \in Existing /\ ByName[sessions[i]] = messages[i])'
BY ByNameDomain, ByNameAt, PTL

LEMMA ByNameIsFunction == ByName = [n \in Existing |-> ByName[n]]
BY DEF ByName, Existing

LEMMA ByNameIsFunctionNext == (ByName = [n \in Existing |-> ByName[n]])'
BY ByNameIsFunction, PTL

\* One row is written, that of the name n.
LEMMA PutName ==
  ASSUME TypeOK, NothingInherited, NothingInherited', NEW i \in RowIds, NEW n \in Names,
         sessions[i] \in {n, NoName}, sessions[i] = NoName => n \notin Existing,
         sessions' = [sessions EXCEPT ![i] = n],
         \A j \in RowIds \ {i} : messages'[j] = messages[j]
  PROVE  ByName' = Conversations!With(n, messages'[i])
<1> USE NullsAssumption DEF Tables, Ids
<1>t. sessions \in [RowIds -> Names \cup {NoName}]
  BY DEF TypeOK
<1>1. Ids' = Ids \cup {i}
  BY <1>t
<1>2. Existing' = Existing \cup {n}
  BY <1>t, <1>1 DEF Existing
<1>3. ByName'[n] = messages'[i]
  BY <1>t, <1>1, ByNameNext
<1>4. ASSUME NEW m \in Existing, m # n PROVE ByName'[m] = ByName[m]
  <2>1. PICK j \in Ids : sessions[j] = m
    BY DEF Existing
  <2>2. j # i /\ j \in RowIds /\ j \in Ids'
    BY <1>1, <1>4, <2>1
  <2>3. sessions'[j] = m /\ messages'[j] = messages[j]
    BY <1>t, <2>1, <2>2
  <2> QED BY <2>1, <2>2, <2>3, ByNameAt, ByNameNext
<1>5. ByName' = [m \in Existing \cup {n} |-> ByName'[m]]
  BY <1>2, ByNameIsFunctionNext
<1>6. Conversations!With(n, messages'[i])
        = [m \in Existing \cup {n} |-> IF m = n THEN messages'[i] ELSE ByName[m]]
  BY ByNameDomain DEF Conversations!With, Conversations!Existing
<1> QED BY <1>3, <1>4, <1>5, <1>6

-----------------------------------------------------------------------------
(***************************************************************************)
(* An invocation that has looked up a row id acts on the session of its    *)
(* name, unless that has been deleted since.                               *)
(***************************************************************************)
LookedFor(p) == IF pc[p] \in {"find fork", "begin fork", "commit fork"} THEN op[p].source
                ELSE op[p].name

TargetOf(p) == pc[p] \in LookedUp =>
                  sessions[sid[p]] = LookedFor(p) \/ LookedFor(p) \in deleted

TargetInv == \A p \in Procs : TargetOf(p)

Inv == IInv /\ TurnInv /\ TargetInv

LEMMA TargetInit == Init => TargetInv
BY DEF Init, TargetInv, TargetOf, LookedUp

\* A row of the sessions table keeps its name, is deleted under it, or was free.
LEMMA RowKinds ==
  ASSUME IInv, NEW p \in Procs, Step(p), NEW i \in RowIds
  PROVE  /\ deleted \subseteq deleted'
         /\ \/ sessions'[i] = sessions[i]
            \/ sessions[i] = NoName
            \/ sessions[i] \in deleted'
<1> USE DEF IInv, PlaceInv, TypeOK
<1>1. CASE UNCHANGED db
  BY <1>1 DEF db
<1>2. CASE Creates(p) \/ Copies(p)
  BY <1>2, FreshId DEF Creates, Copies, Ids
<1>3. CASE SavesTurn(p) \/ Clears(p)
  BY <1>3 DEF SavesTurn, Clears
<1>4. CASE Removes(p)
  BY <1>4 DEF Removes, IdsNamed, Ids
<1> QED BY <1>1, <1>2, <1>3, <1>4, TableKinds

LEMMA TargetStep ==
  ASSUME IInv, TargetInv, NEW p \in Procs, Step(p), NEW q \in Procs
  PROVE  TargetOf(q)'
<1> USE DEF IInv, PlaceInv, TypeOK
<1>0. pc[q] \in LookedUp => op[q].name \in Names /\ op[q].source \in Names
  BY DEF PlaceOf, LookedUp, Operation
<1>k. ASSUME pc[q] \in LookedUp, pc'[q] \in LookedUp, sid'[q] = sid[q],
             LookedFor(q)' = LookedFor(q)
      PROVE  TargetOf(q)'
  <2>1. sid[q] \in RowIds
    BY <1>k DEF PlaceOf
  <2>2. LookedFor(q) \in Names
    BY <1>0, <1>k DEF LookedFor
  <2>3. sessions[sid[q]] = LookedFor(q) \/ LookedFor(q) \in deleted
    BY <1>k DEF TargetInv, TargetOf
  <2> QED BY <1>k, <2>1, <2>2, <2>3, RowKinds, NullsAssumption DEF TargetOf
<1>1. CASE q # p
  <2>1. KeptOf(q)
    BY <1>1, OthersKept
  <2>2. CASE pc[q] \in LookedUp
    BY <1>k, <2>1, <2>2 DEF KeptOf, LookedFor
  <2> QED BY <2>1, <2>2 DEF TargetOf, KeptOf
<1>2. CASE q = p
  <2>i. CASE pc'[p] \notin LookedUp
    BY <1>2, <2>i DEF TargetOf
  <2> SUFFICES ASSUME pc'[p] \in LookedUp, ~StatementFails(p) PROVE TargetOf(p)'
    BY <1>2, <2>i DEF StatementFails, Return, Goto, LookedUp
  <2>1. CASE Find(p) \/ FindSource(p)
    BY <2>1 DEF Find, FindSource, Goto, Return, IdsNamed, db, TargetOf, LookedFor, LookedUp
  <2>2. CASE CommitFork(p)
    <3>1. NextId \in RowIds
      BY <2>2 DEF CommitFork, PlaceOf
    <3>2. /\ pc'[p] = "read" /\ sid'[p] = NextId /\ op'[p] = op[p]
          /\ sessions'[NextId] = op[p].name
      BY <2>2, <3>1 DEF CommitFork, Goto
    <3> QED BY <3>2 DEF TargetOf, LookedFor
  <2>3. CASE Read(p) \/ AppendMessage(p) \/ FindFork(p) \/ BeginFork(p) \/ BeginClear(p)
    <3>1. pc[p] \in LookedUp /\ sid'[p] = sid[p] /\ LookedFor(p)' = LookedFor(p)
      BY <2>3 DEF Read, AppendMessage, FindFork, BeginFork, BeginClear, Goto, Return, local,
                  LookedUp, LookedFor
    <3> QED BY <1>2, <1>k, <3>1
  <2>4. CASE Start(p) \/ CreateIfMissing(p) \/ EndUnsaved(p) \/ CommitAppend(p)
             \/ CommitClear(p) \/ Delete(p) \/ Crash(p)
    BY <2>4 DEF Start, CreateIfMissing, EndUnsaved, CommitAppend, CommitClear, Delete, Crash,
                Goto, Return, LookedUp
  <2> QED BY <2>1, <2>2, <2>3, <2>4 DEF Step
<1> QED BY <1>1, <1>2

LEMMA InvStep == Inv /\ [Next]_vars => Inv'
<1> SUFFICES ASSUME Inv, [Next]_vars PROVE TargetInv'
  BY StepInv, TurnStep DEF Inv
<1>1. CASE UNCHANGED vars
  BY <1>1 DEF vars, Inv, TargetInv, TargetOf, LookedFor
<1>2. CASE Next
  BY <1>2, Steps, TargetStep DEF Inv, TargetInv
<1> QED BY <1>1, <1>2

-----------------------------------------------------------------------------
(***************************************************************************)
(* Each way the tables change is a command of Sessions, or nothing.        *)
(***************************************************************************)
Unchanged == UNCHANGED <<ByName, deleted>>

LEMMA SameTables == UNCHANGED <<sessions, messages, deleted>> => Unchanged
BY DEF Unchanged, ByName, Ids

\* The session an invocation acts on is one of its targets.
LEMMA TargetFound ==
  ASSUME Inv, NEW p \in Procs, pc[p] \in LookedUp, sid[p] \in Ids
  PROVE  sessions[sid[p]] \in Conversations!Targets(LookedFor(p))
<1>1. sessions[sid[p]] \in Existing \cap Names
  BY DEF Existing, Ids, Inv, IInv, TypeOK
<1>2. sessions[sid[p]] = LookedFor(p) \/ LookedFor(p) \in deleted
  BY DEF Inv, TargetInv, TargetOf
<1> QED BY <1>1, <1>2, ByNameDomain DEF Conversations!Targets, Conversations!Existing

LEMMA CreatesImplements ==
  ASSUME Inv, NothingInherited', NEW p \in Procs, op[p].name \in Names, Creates(p)
  PROVE  Conversations!Create(op[p].name)
<1> DEFINE n == op[p].name
<1>1. n \notin Existing
  BY DEF Creates, IdsNamed, Existing
<1>2. sessions[NextId] = NoName /\ messages[NextId] = <<>>
  BY FreshId DEF Creates, Inv, IInv, NothingInherited, Ids
<1>3. ByName' = Conversations!With(n, messages'[NextId])
  BY <1>1, <1>2, PutName DEF Creates, Inv, IInv
<1>4. messages'[NextId] = <<>>
  BY <1>2 DEF Creates
<1> QED BY <1>1, <1>3, <1>4, ByNameDomain DEF Creates, Conversations!Create, Conversations!Existing

LEMMA CopiesImplements ==
  ASSUME Inv, NothingInherited', NEW p \in Procs, Copies(p)
  PROVE  Conversations!Fork(op[p].source, op[p].name) /\ op[p].source \in Names
<1> DEFINE n == op[p].name
           rows == newRows[p]
<1>0. op[p].name \in Names /\ op[p].source \in Names /\ sid[p] \in RowIds
  BY DEF Copies, Inv, IInv, PlaceInv, PlaceOf, LookedUp, Operation
<1>1. n \notin Existing
  BY DEF Copies, IdsNamed, Existing
<1>2. sessions[NextId] = NoName
  BY FreshId DEF Copies, Ids
<1>3. messages'[NextId] = rows /\ \A j \in RowIds \ {NextId} : messages'[j] = messages[j]
  BY DEF Copies, Inv, IInv, TypeOK
<1>4. ByName' = Conversations!With(n, rows)
  BY <1>0, <1>1, <1>2, <1>3, PutName DEF Copies, Inv, IInv
<1>5. rows = messages[sid[p]] /\ LookedFor(p) = op[p].source /\ pc[p] \in LookedUp
  BY DEF Copies, Inv, TurnInv, RowsOf, LookedFor, LookedUp
<1>6. CASE sid[p] \in Ids
  <2>1. sessions[sid[p]] \in Conversations!Targets(op[p].source)
    BY <1>5, <1>6, TargetFound
  <2>2. ByName[sessions[sid[p]]] = rows
    BY <1>5, <1>6, ByNameAt DEF Inv, IInv
  <2> QED BY <1>0, <1>1, <1>4, <2>1, <2>2, ByNameDomain
          DEF Copies, Conversations!Fork, Conversations!Existing
<1>7. CASE sid[p] \notin Ids
  <2>1. rows = <<>>
    BY <1>0, <1>5, <1>7 DEF Inv, IInv, NothingInherited
  <2>2. op[p].source \in deleted
    BY <1>0, <1>5, <1>7, NullsAssumption DEF Ids, Inv, TargetInv, TargetOf
  <2> QED BY <1>0, <1>1, <1>4, <2>1, <2>2, ByNameDomain
          DEF Copies, Conversations!Fork, Conversations!Existing
<1> QED BY <1>6, <1>7

LEMMA ClearsImplements ==
  ASSUME Inv, NothingInherited', NEW p \in Procs, Clears(p)
  PROVE  Unchanged \/ (op[p].name \in Names /\ Conversations!Clear(op[p].name))
<1>0. op[p].name \in Names /\ LookedFor(p) = op[p].name /\ pc[p] \in LookedUp
  BY DEF Clears, Inv, IInv, PlaceInv, PlaceOf, LookedUp, LookedFor, Operation
<1>1. CASE sid[p] \in Ids
  <2> DEFINE m == sessions[sid[p]]
  <2>1. m \in Conversations!Targets(op[p].name)
    BY <1>0, <1>1, TargetFound
  <2>2. m \in Names /\ sessions' = [sessions EXCEPT ![sid[p]] = m]
    BY <1>1 DEF Clears, Ids, Inv, IInv, TypeOK
  <2>3. messages'[sid[p]] = <<>> /\ \A j \in RowIds \ {sid[p]} : messages'[j] = messages[j]
    BY DEF Clears, Inv, IInv, TypeOK
  <2>4. ByName' = Conversations!With(m, <<>>)
    BY <1>1, <2>2, <2>3, PutName DEF Clears, Ids, Inv, IInv
  <2> QED BY <1>0, <2>1, <2>4 DEF Clears, Conversations!Clear
<1>2. CASE sid[p] \notin Ids
  <2>1. messages[sid[p]] = <<>>
    BY <1>2 DEF Clears, Inv, IInv, NothingInherited
  <2>2. messages' = messages
    BY <2>1 DEF Clears, Inv, IInv, TypeOK
  <2> QED BY <2>2, SameTables DEF Clears
<1> QED BY <1>1, <1>2

LEMMA SavesImplements ==
  ASSUME Inv, NothingInherited', NEW p \in Procs, SavesTurn(p)
  PROVE  \E t \in Turns : Conversations!SaveTurn(t)
<1> DEFINE t == [name |-> op[p].name, messages |-> newRows[p]]
           m == sessions[sid[p]]
<1>0. /\ op[p] \in Operation /\ LookedFor(p) = op[p].name /\ pc[p] \in LookedUp
      /\ Len(newRows[p]) = TurnLen /\ newRows[p] \in Seq(Messages) /\ sid[p] \in RowIds
  BY DEF SavesTurn, Inv, IInv, TypeOK, PlaceInv, PlaceOf, LookedUp, LookedFor, Ids
<1>1. \A k \in DOMAIN newRows[p] : newRows[p][k] = [turn |-> TurnNow(p), place |-> k]
  BY DEF SavesTurn, Inv, TurnInv, RowsOf
<1>2. newRows[p] = [k \in 1..TurnLen |-> [turn |-> TurnNow(p), place |-> k]]
  <2>1. newRows[p] = [k \in 1..TurnLen |-> newRows[p][k]] /\ DOMAIN newRows[p] = 1..TurnLen
    BY <1>0
  <2> QED BY <1>1, <2>1
<1>3. TurnNow(p) \in Turn /\ TurnNow(p).name = op[p].name
  BY <1>0 DEF TurnNow, Turn, Operation
<1>4. t \in Turns
  BY <1>2, <1>3 DEF Turns
<1>5. m \in Conversations!Targets(t.name)
  BY <1>0, TargetFound DEF SavesTurn
<1>6. m \in Names /\ sessions' = [sessions EXCEPT ![sid[p]] = m]
  BY <1>0 DEF SavesTurn, Ids, Inv, IInv, TypeOK
<1>7. /\ messages'[sid[p]] = messages[sid[p]] \o newRows[p]
      /\ \A j \in RowIds \ {sid[p]} : messages'[j] = messages[j]
  BY <1>0 DEF SavesTurn, Inv, IInv, TypeOK
<1>8. ByName' = Conversations!With(m, messages'[sid[p]])
  BY <1>0, <1>6, <1>7, PutName DEF SavesTurn, Ids, Inv, IInv
<1>9. ByName[m] = messages[sid[p]]
  BY ByNameAt DEF SavesTurn, Inv, IInv
<1> QED BY <1>4, <1>5, <1>7, <1>8, <1>9 DEF SavesTurn, Conversations!SaveTurn

LEMMA RemovesImplements ==
  ASSUME Inv, NothingInherited', NEW p \in Procs, op[p].name \in Names, Removes(p)
  PROVE  Unchanged \/ Conversations!Delete(op[p].name)
<1> DEFINE n == op[p].name
<1>t. sessions \in [RowIds -> Names \cup {NoName}] /\ messages \in [RowIds -> Seq(Messages)]
  BY DEF Inv, IInv, TypeOK
<1>1. CASE IdsNamed(n) = {}
  <2>1. sessions' = sessions /\ messages' = messages /\ deleted' = deleted
    BY <1>t, <1>1 DEF Removes
  <2> QED BY <2>1, SameTables
<1>2. CASE IdsNamed(n) # {}
  <2>1. n \in Existing
    BY <1>2 DEF IdsNamed, Existing
  <2>2. Ids' = Ids \ IdsNamed(n) /\ \A i \in Ids' : sessions'[i] = sessions[i] /\ messages'[i] = messages[i]
    BY <1>t DEF Removes, Ids, IdsNamed
  <2>3. Existing' = Existing \ {n}
    BY <2>2 DEF Existing, IdsNamed
  <2>4. ASSUME NEW m \in Existing \ {n} PROVE ByName'[m] = ByName[m]
    <3>1. PICK j \in Ids : sessions[j] = m
      BY DEF Existing
    <3>2. j \in Ids'
      BY <2>2, <2>4, <3>1 DEF IdsNamed
    <3> QED BY <2>2, <3>1, <3>2, ByNameAt, ByNameNext DEF Inv, IInv
  <2>5. ByName' = [m \in Existing \ {n} |-> ByName'[m]]
    BY <2>3, ByNameIsFunctionNext
  <2>6. ByName' = [m \in Existing \ {n} |-> ByName[m]]
    BY <2>4, <2>5
  <2> QED BY <1>2, <2>1, <2>6, ByNameDomain
          DEF Removes, Conversations!Delete, Conversations!Existing
<1> QED BY <1>1, <1>2

LEMMA StepImplements ==
  ASSUME Inv, [Next]_vars PROVE [Conversations!Next]_(Conversations!vars)
<1>u. Unchanged => [Conversations!Next]_(Conversations!vars)
  BY DEF Unchanged, Conversations!vars
<1>1. CASE UNCHANGED vars
  BY <1>1, <1>u, SameTables DEF vars
<1>2. CASE Next
  <2>1. PICK p \in Procs : Step(p)
    BY <1>2, Steps
  <2>2. NothingInherited' /\ TypeOK /\ PlaceOf(p)
    BY StepInv DEF Inv, IInv, PlaceInv
  <2>3. CASE UNCHANGED db
    BY <1>u, <2>3, SameTables DEF db
  <2>4. CASE op[p].name \in Names /\ Creates(p)
    BY <2>2, <2>4, CreatesImplements DEF Conversations!Next
  <2>5. CASE op[p].name \in Names /\ Copies(p)
    BY <2>2, <2>5, CopiesImplements DEF Conversations!Next
  <2>6. CASE SavesTurn(p)
    BY <2>2, <2>6, SavesImplements DEF Conversations!Next
  <2>7. CASE Clears(p)
    BY <1>u, <2>2, <2>7, ClearsImplements DEF Conversations!Next
  <2>8. CASE op[p].name \in Names /\ Removes(p)
    BY <1>u, <2>2, <2>8, RemovesImplements DEF Conversations!Next
  <2> QED BY <2>1, <2>2, <2>3, <2>4, <2>5, <2>6, <2>7, <2>8, TableKinds
<1> QED BY <1>1, <1>2

LEMMA InitImplements == Init => Conversations!Init
<1> SUFFICES ASSUME Init PROVE Conversations!Init
  OBVIOUS
<1>1. Existing = {}
  BY DEF Init, Existing, Ids
<1>2. ByName = [n \in {} |-> <<>>]
  BY <1>1, ByNameIsFunction
<1> QED BY <1>2 DEF Init, Conversations!Init

\* The session commands of any number of terminals, statement by statement, with
\* failures and killed processes, implement commands on named conversations: each
\* takes effect whole, on the session of its name, or not at all; only if that
\* session is deleted meanwhile may it be another one.
THEOREM StoreImplementsSessions == Spec => ImplementsSessions
<1>1. Init => Inv
  BY InitInv, TurnInit, TargetInit DEF Inv
<1>2. Inv /\ [Next]_vars => [Conversations!Next]_(Conversations!vars)
  BY StepImplements
<1> QED BY <1>1, <1>2, InitImplements, InvStep, PTL
        DEF Spec, ImplementsSessions, Conversations!Spec

=============================================================================
