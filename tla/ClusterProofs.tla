--------------------------- MODULE ClusterProofs ---------------------------
(***************************************************************************)
(* The worker ids of WorkerIdAssigner and the uids of Cluster, for every   *)
(* number of callers, sessions and keys and every deployment, as long as   *)
(* no MySQL session is shared (SessionsSupported): no id is assigned       *)
(* twice, the row of every assigned id is in the table, and with SQLite a  *)
(* failed call leaves no row; and of all generators over one table, for    *)
(* every layout, no two issue the same uid, unless a worker id that the    *)
(* layout does not hold has spilled into it.                               *)
(*                                                                         *)
(* The table is reasoned about first, one effect on it at a time: commit,  *)
(* rollback, insert and the restart of the server.  Then the callers, with *)
(* the inductive invariant StoreInv of WorkerIdAssigner.  Then the         *)
(* generators, with ClusterInv of Cluster.                                 *)
(***************************************************************************)
EXTENDS Cluster, BitsAllocatorProofs, SequenceTheorems

\* What StoreInv says of the database alone.
TableTypeOK ==
  /\ Dialect \in {"sqlite", "mysql"}
  /\ {connected, inTxn} \subseteq [Sessions -> BOOLEAN]
  /\ pending \in [Sessions -> SUBSET Rows]
  /\ committed \subseteq Rows
  /\ nextKey \in FirstKey .. MaxKey + 1

TableInv ==
  /\ deployment \in SharedTable
  /\ TableTypeOK
  /\ KeysAreUnique /\ PendingIsApart /\ OneWriter

\* And of the callers' variables.
CallTypeOK ==
  /\ at \in [Callers -> Places]
  /\ machine \in [Sessions -> StartedOn]
  /\ entity \in [Callers -> Entities \union {None}]
  /\ key \in [Callers -> Keys \union {0}]
  /\ assigned \in Seq(Rows)

-----------------------------------------------------------------------------
(* Numbers, rows and deployments *)

\* A set of naturals below a bound has a greatest element: Max is one of it.
LEMMA MaxOfBounded ==
  ASSUME NEW n \in Nat, NEW S \in SUBSET (0 .. n), S # {}
  PROVE  Max(S) \in S /\ \A x \in S : x <= Max(S)
  <1> DEFINE T == {n - x : x \in S}
  <1>1. T \subseteq Nat /\ T # {}
    <2>1. \A x \in S : n - x \in Nat
      OBVIOUS
    <2> QED BY <2>1, Zenon
  <1>2. PICK y \in T : \A z \in T : ~(<<z, y>> \in OpToRel(<, Nat))
    BY <1>1, NatLessThanWellFounded, WFMin, Zenon
  <1>3. PICK m \in S : y = n - m
    OBVIOUS
  <1>4. \A x \in S : n - x \in Nat /\ n - x \in T
    OBVIOUS
  <1>5. \A x \in S : ~(n - x < n - m)
    <2> TAKE x \in S
    <2>1. ~(<<n - x, n - m>> \in OpToRel(<, Nat))
      BY <1>2, <1>3, <1>4
    <2> QED BY <1>3, <1>4, <2>1 DEF OpToRel
  <1>6. \A x \in S : m >= x
    BY <1>5
  <1>7. Max(S) \in S /\ \A x \in S : Max(S) >= x
    BY <1>6 DEF Max
  <1> QED BY <1>7

\* The least element of a set of one number is that number.
LEMMA MinOfOne ==
  ASSUME NEW x \in Int
  PROVE  Min({x}) = x
  BY DEF Min

\* A row is its key and its node.
LEMMA RowProperties ==
  /\ \A id, node : Row(id, node).id = id /\ Row(id, node).node = node
  /\ \A row \in Rows : row.id \in Keys /\ row.node \in Entities
                         /\ row = Row(row.id, row.node)
  /\ \A id \in Keys : \A node \in Entities : Row(id, node) \in Rows
  BY DEF Row, Rows

\* Every deployment has a dialect, and a session for each caller.
LEMMA DeploymentProperties ==
  ASSUME deployment \in SharedTable
  PROVE  Dialect \in {"sqlite", "mysql"} /\ SessionOf \in [Callers -> Sessions]
  BY AssignerAssumption DEF SharedTable, Deployed, Dialect, SessionOf

\* What is fixed with the deployment.
LEMMA DeploymentFixes ==
  ASSUME deployment' = deployment
  PROVE  /\ Dialect' = Dialect /\ SessionOf' = SessionOf /\ Rows' = Rows
         /\ StartedOn' = StartedOn /\ Entities' = Entities
         /\ SessionsInUse' = SessionsInUse
  BY DEF Dialect, SessionOf, SessionsInUse, Rows, StartedOn, Entities

\* A caller's process builds an entity that a row may hold.
LEMMA EntityIsBuilt ==
  ASSUME NEW s \in Sessions, machine \in [Sessions -> StartedOn],
         NEW stamp \in Stamps
  PROVE  buildWorkerNode(machine[s], stamp) \in Entities
  BY DEF Entities

-----------------------------------------------------------------------------
(* What each command does to the table *)

\* A commit moves rows; it adds none and takes none away.
LEMMA CommitKeepsTable ==
  ASSUME TableInv, NEW s \in Sessions, NEW open \in BOOLEAN,
         open => connected[s],
         CommitPending(s, open), deployment' = deployment, connected' = connected, nextKey' = nextKey
  PROVE  TableInv' /\ committed \subseteq committed'
  <1>1. /\ committed' = committed \union pending[s]
        /\ pending' = [pending EXCEPT ![s] = {}]
        /\ inTxn' = [inTxn EXCEPT ![s] = open]
        /\ Rows' = Rows /\ Dialect' = Dialect
    BY DeploymentFixes DEF CommitPending
  <1>2. TableTypeOK /\ TableTypeOK'
    BY <1>1 DEF TableInv, TableTypeOK
  <1>3. InTable' \subseteq InTable
    BY <1>1, <1>2 DEF InTable, TableTypeOK
  <1>4. KeysAreUnique'
    BY <1>3 DEF TableInv, KeysAreUnique
  <1>5. PendingIsApart'
    BY <1>1, <1>2 DEF TableInv, PendingIsApart, TableTypeOK
  <1>6. OneWriter'
    BY <1>1, <1>2 DEF TableInv, OneWriter, TableTypeOK
  <1> QED BY <1>1, <1>2, <1>4, <1>5, <1>6 DEF TableInv

\* A rollback, and the connection may be opened or closed with it.
LEMMA RollbackKeepsTable ==
  ASSUME TableInv, NEW s \in Sessions,
         \/ connected' = connected
         \/ \E open \in BOOLEAN : connected' = [connected EXCEPT ![s] = open],
         RollbackPending(s), deployment' = deployment
  PROVE  TableInv'
  <1>1. /\ pending' = [pending EXCEPT ![s] = {}]
        /\ inTxn' = [inTxn EXCEPT ![s] = FALSE]
        /\ committed' = committed
        /\ nextKey' = KeyAfterRollback(s)
        /\ Rows' = Rows /\ Dialect' = Dialect
    BY DeploymentFixes DEF RollbackPending
  <1>2. TableTypeOK /\ FirstKey \in Nat /\ MaxKey \in Nat
    BY AssignerAssumption DEF TableInv
  <1>3. /\ \A t \in Sessions \ {s} : pending'[t] = pending[t] /\ inTxn'[t] = inTxn[t]
        /\ pending'[s] = {} /\ inTxn'[s] = FALSE
        /\ pending' \in [Sessions -> SUBSET Rows] /\ inTxn' \in [Sessions -> BOOLEAN]
    BY <1>1, <1>2 DEF TableTypeOK
  <1>4. InTable' \subseteq InTable
    BY <1>1, <1>3 DEF InTable
  <1>5. nextKey' = nextKey \/
          (/\ Dialect = "sqlite" /\ nextKey' = nextKey - 1
           /\ \E row \in pending[s] : row.id = nextKey - 1)
    <2>1. CASE Dialect = "sqlite" /\ pending[s] # {}
      <3>1. {row.id : row \in pending[s]} = {nextKey - 1}
        BY <2>1 DEF TableInv, OneWriter
      <3>2. nextKey' = nextKey - 1
        BY <1>1, <1>2, <2>1, <3>1, MinOfOne DEF KeyAfterRollback, TableTypeOK
      <3> QED BY <2>1, <3>1, <3>2
    <2>2. CASE ~(Dialect = "sqlite" /\ pending[s] # {})
      BY <1>1, <2>2 DEF KeyAfterRollback
    <2> QED BY <2>1, <2>2
  <1>6. /\ nextKey' \in FirstKey .. MaxKey + 1
        /\ \A row \in InTable' : row.id < nextKey'
    <2>1. CASE nextKey' = nextKey
      BY <1>2, <1>4, <2>1 DEF TableInv, KeysAreUnique, TableTypeOK
    <2>2. CASE nextKey' # nextKey
      <3>1. PICK row \in pending[s] : row.id = nextKey - 1
        BY <1>5, <2>2
      <3>2. row \in Rows /\ row.id \in Keys /\ row \in InTable
        BY <1>2, <3>1, RowProperties DEF TableTypeOK, InTable
      <3>3. InTable' = committed
        <4>1. \A t \in Sessions \ {s} : pending[t] = {}
          BY <1>5, <2>2, <3>1 DEF TableInv, OneWriter
        <4> QED BY <1>1, <1>3, <4>1 DEF InTable
      <3>4. row \notin committed
        BY <3>1 DEF TableInv, PendingIsApart
      <3>5. \A r \in committed : r.id # nextKey - 1
        BY <3>1, <3>2, <3>4 DEF TableInv, KeysAreUnique, InTable
      <3>6. \A r \in committed : r.id < nextKey /\ r.id \in Int
        BY <1>2, RowProperties DEF TableInv, KeysAreUnique, InTable, TableTypeOK, Keys
      <3>7. nextKey' = nextKey - 1 /\ nextKey \in FirstKey .. MaxKey + 1
        BY <1>2, <1>5, <2>2 DEF TableTypeOK
      <3>8. nextKey' \in FirstKey .. MaxKey + 1
        BY <1>2, <3>1, <3>2, <3>7 DEF Keys
      <3>9. \A r \in committed : r.id < nextKey'
        BY <1>2, <3>5, <3>6, <3>7
      <3> QED BY <3>3, <3>8, <3>9
    <2> QED BY <2>1, <2>2
  <1>7. TableTypeOK' /\ \A t \in Sessions \ {s} : connected'[t] = connected[t]
    BY <1>1, <1>2, <1>3, <1>6 DEF TableTypeOK
  <1>8. KeysAreUnique'
    BY <1>4, <1>6 DEF TableInv, KeysAreUnique
  <1>9. PendingIsApart'
    BY <1>1, <1>3, <1>7 DEF TableInv, PendingIsApart
  <1>10. OneWriter'
    <2> SUFFICES ASSUME Dialect = "sqlite" PROVE OneWriter'
      BY <1>1 DEF OneWriter
    <2>1. \A t, u \in Sessions : pending'[t] # {} /\ pending'[u] # {} => t = u
      BY <1>3 DEF TableInv, OneWriter
    <2>2. \A t \in Sessions : \A row \in pending'[t] : row.id = nextKey' - 1
      <3> TAKE t \in Sessions
      <3>1. CASE nextKey' = nextKey
        BY <1>3, <3>1 DEF TableInv, OneWriter
      <3>2. CASE nextKey' # nextKey
        <4>1. pending[s] # {}
          BY <1>5, <3>2
        <4>2. pending'[t] = {}
          BY <1>3, <4>1 DEF TableInv, OneWriter
        <4> QED BY <4>2
      <3> QED BY <3>1, <3>2
    <2> QED BY <2>1, <2>2 DEF OneWriter
  <1> QED BY <1>1, <1>7, <1>8, <1>9, <1>10 DEF TableInv

\* An insert in a transaction: with SQLite no other writer has one.
LEMMA InsertKeepsTable ==
  ASSUME TableInv, NEW c \in Callers, NEW s \in Sessions,
         entity'[c] \in Entities, connected[s],
         InsertRow(c, s, TRUE),
         inTxn' = [inTxn EXCEPT ![s] = TRUE],
         Dialect = "sqlite" => \A t \in Sessions : pending[t] = {},
         deployment' = deployment, connected' = connected
  PROVE  /\ TableInv' /\ committed' = committed
         /\ key' = [key EXCEPT ![c] = nextKey] /\ nextKey \in Keys
         /\ Row(nextKey, entity'[c]) \in pending'[s]
         /\ \A t \in Sessions \ {s} : pending'[t] = pending[t]
  <1> DEFINE row == Row(nextKey, entity'[c])
  <1>1. /\ nextKey <= MaxKey /\ nextKey' = nextKey + 1
        /\ key' = [key EXCEPT ![c] = nextKey]
        /\ committed' = committed
        /\ pending' = [pending EXCEPT ![s] = @ \union {row}]
    BY DEF InsertRow
  <1>2. Rows' = Rows /\ Dialect' = Dialect
    BY DeploymentFixes
  <1>3. TableTypeOK /\ FirstKey \in Nat /\ MaxKey \in Nat
    BY AssignerAssumption DEF TableInv
  <1>4. nextKey \in Keys /\ nextKey' \in FirstKey .. MaxKey + 1
    BY <1>1, <1>3 DEF TableTypeOK, Keys
  <1>5. row \in Rows /\ row.id = nextKey
    BY <1>4, RowProperties
  <1> HIDE DEF row
  <1>6. /\ pending'[s] = pending[s] \union {row}
        /\ \A t \in Sessions \ {s} : pending'[t] = pending[t] /\ inTxn'[t] = inTxn[t]
        /\ inTxn'[s] = TRUE
        /\ TableTypeOK'
    BY <1>1, <1>2, <1>3, <1>4, <1>5 DEF TableTypeOK
  <1>7. InTable' \subseteq InTable \union {row}
    BY <1>1, <1>6 DEF InTable
  <1>8. \A r \in InTable : r.id < nextKey /\ r.id \in Int
    BY <1>3, RowProperties DEF TableInv, KeysAreUnique, InTable, TableTypeOK, Keys
  <1>9. row \notin InTable
    BY <1>3, <1>5, <1>8
  <1>10. KeysAreUnique'
    BY <1>1, <1>3, <1>5, <1>7, <1>8 DEF TableInv, KeysAreUnique, TableTypeOK
  <1>11. PendingIsApart'
    <2>1. \A t \in Sessions : row \notin pending[t]
      BY <1>9 DEF InTable
    <2>2. row \notin committed
      BY <1>9 DEF InTable
    <2> QED BY <1>1, <1>6, <2>1, <2>2 DEF TableInv, PendingIsApart
  <1>12. OneWriter'
    <2> SUFFICES ASSUME Dialect = "sqlite" PROVE OneWriter'
      BY <1>2 DEF OneWriter
    <2>1. \A t \in Sessions \ {s} : pending'[t] = {}
      BY <1>6
    <2>2. pending'[s] = {row}
      BY <1>6
    <2>3. nextKey' - 1 = nextKey
      BY <1>1, <1>3 DEF TableTypeOK
    <2> QED BY <1>5, <2>1, <2>2, <2>3 DEF OneWriter
  <1>13. TableInv'
    BY <1>6, <1>10, <1>11, <1>12 DEF TableInv
  <1> QED BY <1>1, <1>4, <1>6, <1>13 DEF row

\* The server drops what is pending; the counter stays ahead of what is left.
LEMMA RestartKeepsTable ==
  ASSUME TableInv, ServerRestarts
  PROVE  TableInv'
  <1> DEFINE ids == {row.id : row \in committed} \union {FirstKey - 1}
  <1>1. /\ connected' = [s \in Sessions |-> FALSE]
        /\ inTxn' = [s \in Sessions |-> FALSE]
        /\ pending' = [s \in Sessions |-> {}]
        /\ nextKey' \in {nextKey, Max(ids) + 1}
        /\ deployment' = deployment /\ committed' = committed
        /\ Dialect = "mysql" /\ Dialect' = Dialect /\ Rows' = Rows
    BY DeploymentFixes DEF ServerRestarts, process
  <1>2. TableTypeOK /\ FirstKey \in Nat \ {0} /\ MaxKey \in Nat
    BY AssignerAssumption DEF TableInv
  <1>3. \A row \in committed : /\ row.id \in Keys /\ row.id < nextKey
                               /\ row.id \in ids /\ row \in InTable
    BY <1>2, RowProperties DEF TableInv, KeysAreUnique, InTable, TableTypeOK
  <1>4. /\ nextKey' \in FirstKey .. MaxKey + 1
        /\ \A row \in committed : row.id < nextKey'
    <2>1. CASE nextKey' = nextKey
      BY <1>2, <1>3, <2>1 DEF TableTypeOK
    <2>2. CASE nextKey' = Max(ids) + 1
      <3>1. ids \subseteq FirstKey - 1 .. nextKey - 1 /\ FirstKey - 1 \in ids
        BY <1>2, <1>3 DEF TableTypeOK, Keys
      <3> HIDE DEF ids
      <3>2. ids \in SUBSET (0 .. MaxKey) /\ MaxKey \in Nat /\ ids # {}
        BY <1>2, <3>1 DEF TableTypeOK
      <3>3. Max(ids) \in ids /\ \A x \in ids : x <= Max(ids)
        BY <3>2, MaxOfBounded
      <3>4. Max(ids) \in FirstKey - 1 .. MaxKey
        <4>1. Max(ids) \in FirstKey - 1 .. nextKey - 1
          BY <3>1, <3>3, Zenon
        <4>2. nextKey \in FirstKey .. MaxKey + 1
          BY <1>2 DEF TableTypeOK
        <4> QED BY <1>2, <4>1, <4>2
      <3> QED BY <1>2, <1>3, <2>2, <3>3, <3>4 DEF Keys
    <2> QED BY <1>1, <2>1, <2>2
  <1>5. TableTypeOK'
    BY <1>1, <1>2, <1>4 DEF TableTypeOK
  <1>6. InTable' = committed /\ committed \subseteq InTable
    BY <1>1 DEF InTable
  <1>7. KeysAreUnique'
    BY <1>4, <1>6 DEF TableInv, KeysAreUnique
  <1>8. PendingIsApart' /\ OneWriter'
    BY <1>1 DEF PendingIsApart, OneWriter
  <1> QED BY <1>1, <1>5, <1>7, <1>8 DEF TableInv

-----------------------------------------------------------------------------
(* What a step does to the callers *)

\* The invariant is what it says of the table, of the callers and of the history.
LEMMA StoreParts ==
  ASSUME StoreInv
  PROVE  TableInv /\ CallTypeOK /\ CallInv /\ AssignedInv
  BY DEF StoreInv, TypeOK, TableInv, TableTypeOK, CallTypeOK

\* After a step too: it follows from its parts.
LEMMA StoreOfParts ==
  ASSUME TableInv', CallTypeOK', CallInv', AssignedInv'
  PROVE  StoreInv'
  BY DEF StoreInv, TypeOK, TableInv, TableTypeOK, CallTypeOK

\* No other caller of c's session is in a transaction.
Alone(c) ==
  connected[SessionOf[c]] =>
    \A d \in InTransaction : SessionOf[d] = SessionOf[c] => d = c

\* A caller in a transaction is alone, and so is every caller of MySQL.
LEMMA CallersAreAlone ==
  ASSUME SessionsSupported, StoreInv, NEW c \in Callers,
         \/ c \in InTransaction \/ Dialect = "mysql" \/ ~inTxn[SessionOf[c]]
  PROVE  Alone(c)
  <1>1. CASE c \in InTransaction
    BY <1>1 DEF StoreInv, CallInv, OneCaller, Alone
  <1>2. CASE Dialect = "mysql"
    BY <1>2 DEF StoreInv, SessionsSupported, Dialect, SessionOf, Alone, InTransaction
  <1>3. CASE ~inTxn[SessionOf[c]]
    BY <1>3 DEF StoreInv, CallInv, CallerInv, Alone, InTransaction
  <1> QED BY <1>1, <1>2, <1>3

\* A step of c keeps what holds of the others: it leaves the table to them, or
\* none of them is in a transaction.
LEMMA CallersKeepInv ==
  ASSUME StoreInv, NEW c \in Callers,
         process' = process, connected' = connected,
         \A d \in Callers \ {c} :
           at'[d] = at[d] /\ entity'[d] = entity[d] /\ key'[d] = key[d],
         \A t \in Sessions \ {SessionOf[c]} :
           pending'[t] = pending[t] /\ inTxn'[t] = inTxn[t],
         Alone(c) \/ (db' = db /\ at'[c] \notin {"inserting", "committing"}),
         CallerInv(c)'
  PROVE  CallInv'
  <1>1. /\ Dialect' = Dialect /\ SessionOf' = SessionOf /\ Entities' = Entities
        /\ connected' = connected
    BY DeploymentFixes DEF process
  <1>2. CallInv /\ SessionOf \in [Callers -> Sessions]
    BY DeploymentProperties DEF StoreInv
  <1>3. \A d \in Callers \ {c} : d \in InTransaction' <=> d \in InTransaction
    BY DEF InTransaction
  <1>4. \A d \in Callers \ {c} : CallerInv(d)'
    <2> TAKE d \in Callers \ {c}
    <2>1. CallerInv(d) /\ SessionOf[d] \in Sessions
      BY <1>2 DEF CallInv
    <2>2. CASE SessionOf[d] # SessionOf[c]
      BY <1>1, <1>3, <2>1, <2>2 DEF CallerInv
    <2>3. CASE SessionOf[d] = SessionOf[c] /\ Alone(c)
      <3>1. connected[SessionOf[d]] => d \notin InTransaction
        BY <2>3 DEF Alone
      <3>2. connected[SessionOf[d]] => at[d] \notin {"inserting", "committing"}
        BY <3>1 DEF InTransaction
      <3> QED BY <1>1, <1>3, <2>1, <2>3, <3>1, <3>2 DEF CallerInv
    <2>4. CASE db' = db
      BY <1>1, <1>3, <2>1, <2>4 DEF CallerInv, db
    <2> QED BY <2>2, <2>3, <2>4
  <1>5. OneCaller'
    <2>1. CASE Alone(c)
      BY <1>1, <1>2, <1>3, <2>1 DEF CallInv, OneCaller, Alone, InTransaction
    <2>2. CASE at'[c] \notin {"inserting", "committing"}
      BY <1>1, <1>2, <1>3, <2>2 DEF CallInv, OneCaller, InTransaction
    <2> QED BY <2>1, <2>2
  <1> QED BY <1>4, <1>5, <1>1 DEF CallInv

\* The session s, closed or without a caller in a transaction, keeps nothing of
\* its callers; the other sessions and their callers do not notice.
LEMMA SessionKeepsInv ==
  ASSUME StoreInv, NEW s \in Sessions, deployment' = deployment,
         \A t \in Sessions \ {s} : /\ pending'[t] = pending[t] /\ inTxn'[t] = inTxn[t]
                                   /\ connected'[t] = connected[t],
         \A c \in Callers :
           IF SessionOf[c] = s
             THEN /\ ~connected'[s] \/ c \notin InTransaction'
                  /\ at'[c] = "idle" \/ (at'[c] = at[c] /\ entity'[c] = entity[c])
             ELSE at'[c] = at[c] /\ entity'[c] = entity[c] /\ key'[c] = key[c]
  PROVE  CallInv'
  <1>1. /\ Dialect' = Dialect /\ SessionOf' = SessionOf /\ Entities' = Entities
    BY DeploymentFixes
  <1>2. CallInv /\ SessionOf \in [Callers -> Sessions]
    BY DeploymentProperties DEF StoreInv
  <1>3. \A c \in Callers : CallerInv(c)'
    <2> TAKE c \in Callers
    <2>1. CallerInv(c) /\ SessionOf[c] \in Sessions
      BY <1>2 DEF CallInv
    <2>2. CASE SessionOf[c] = s
      BY <1>1, <2>1, <2>2 DEF CallerInv, InTransaction
    <2>3. CASE SessionOf[c] # s
      BY <1>1, <2>1, <2>3 DEF CallerInv, InTransaction
    <2> QED BY <2>2, <2>3
  <1>4. OneCaller'
    BY <1>1, <1>2 DEF CallInv, OneCaller, InTransaction
  <1> QED BY <1>1, <1>3, <1>4 DEF CallInv

-----------------------------------------------------------------------------
(* What a step does to the ids that are assigned *)

\* A row that is stored stays so; with SQLite none is stored but by a return.
LEMMA AssignedStay ==
  ASSUME AssignedInv, committed \subseteq committed',
         deployment' = deployment, assigned' = assigned,
         Dialect = "sqlite" => committed' = committed
  PROVE  AssignedInv'
  BY DeploymentFixes DEF AssignedInv, DistinctWorkerIds, WorkerIds

\* A commit whose caller returns: the row it commits is a new one, and with
\* SQLite there is no other.
LEMMA ReturnAssigns ==
  ASSUME StoreInv, NEW c \in Callers, at[c] = "committing",
         connected[SessionOf[c]],
         CommitPending(SessionOf[c], FALSE), Return(c), deployment' = deployment
  PROVE  /\ AssignedInv' /\ assigned' \in Seq(Rows)
         /\ entity' \in [Callers -> Entities \union {None}]
  <1> DEFINE s == SessionOf[c]
             row == Row(key[c], entity[c])
             n == Len(assigned)
  <1>1. /\ committed' = committed \union pending[s]
        /\ assigned' = Append(assigned, row)
        /\ entity' = [entity EXCEPT ![c] = None]
        /\ Dialect' = Dialect /\ SessionOf \in [Callers -> Sessions]
    BY DeploymentFixes, DeploymentProperties DEF CommitPending, Return, StoreInv
  <1>2. /\ row \in pending[s] /\ s \in Sessions
        /\ pending[s] \subseteq Rows /\ pending[s] \subseteq InTable
        /\ committed \subseteq InTable
    BY <1>1 DEF StoreInv, CallInv, CallerInv, TypeOK, InTable
  <1>3. /\ assigned \in Seq(Rows) /\ n \in Nat /\ row \in Rows
        /\ \A i \in 1 .. n : assigned[i] \in committed
    BY <1>2 DEF StoreInv, TypeOK, AssignedInv
  <1> HIDE DEF row
  <1>4. /\ assigned' \in Seq(Rows) /\ DOMAIN assigned' = 1 .. n + 1
        /\ \A i \in 1 .. n : assigned'[i] = assigned[i]
        /\ assigned'[n + 1] = row /\ DOMAIN assigned = 1 .. n
    BY <1>1, <1>3, AppendProperties
  <1>5. \A i \in 1 .. n : assigned[i].id # row.id
    <2>1. row \notin committed
      BY <1>2 DEF StoreInv, PendingIsApart
    <2>2. \A r \in committed : r.id # row.id
      BY <1>2, <2>1 DEF StoreInv, KeysAreUnique
    <2> QED BY <1>3, <2>2
  <1> HIDE DEF n
  <1>6. \A i \in DOMAIN assigned' : assigned'[i] \in committed'
    BY <1>1, <1>2, <1>3, <1>4
  <1>7. DistinctWorkerIds'
    <2> SUFFICES ASSUME NEW i \in 1 .. n + 1, NEW j \in 1 .. n + 1,
                        assigned'[i].id = assigned'[j].id
                 PROVE  i = j
      BY <1>4 DEF DistinctWorkerIds
    <2>1. /\ i \in 1 .. n \/ i = n + 1
          /\ j \in 1 .. n \/ j = n + 1
      BY <1>3
    <2>2. CASE i \in 1 .. n /\ j \in 1 .. n
      BY <1>4, <2>2 DEF StoreInv, AssignedInv, DistinctWorkerIds
    <2>3. CASE i = n + 1 \/ j = n + 1
      BY <1>4, <1>5, <2>1, <2>3
    <2> QED BY <2>1, <2>2, <2>3
  <1>8. Dialect' = "sqlite" => \A r \in committed' : r.id \in WorkerIds'
    <2> SUFFICES ASSUME Dialect = "sqlite", NEW r \in committed'
                 PROVE  r.id \in WorkerIds'
      BY <1>1
    <2>1. WorkerIds' = {e.id : e \in Range(assigned')}
      BY DEF WorkerIds
    <2>2. \A i \in 1 .. n + 1 : assigned'[i].id \in WorkerIds'
      BY <1>4, <2>1 DEF Range
    <2>3. CASE r \in committed
      <3>1. r.id \in WorkerIds
        BY <2>3 DEF StoreInv, AssignedInv
      <3>2. PICK i \in 1 .. n : assigned[i].id = r.id
        BY <1>4, <3>1 DEF WorkerIds, Range
      <3>3. i \in 1 .. n + 1 /\ assigned'[i].id = r.id
        BY <1>3, <1>4, <3>2
      <3> QED BY <2>2, <3>3
    <2>4. CASE r \in pending[s]
      <3>1. r.id = nextKey - 1 /\ row.id = nextKey - 1
        BY <1>2, <2>4 DEF StoreInv, OneWriter
      <3>2. n + 1 \in 1 .. n + 1
        BY <1>3
      <3> QED BY <1>4, <2>2, <3>1, <3>2
    <2> QED BY <1>1, <2>3, <2>4
  <1>9. entity' \in [Callers -> Entities \union {None}]
    BY <1>1 DEF StoreInv, TypeOK
  <1> QED BY <1>4, <1>6, <1>7, <1>8, <1>9 DEF AssignedInv

-----------------------------------------------------------------------------
(* The steps of a caller *)

\* Of the four parts of the invariant, the types of the callers' variables.
LEMMA CallTypesStep ==
  ASSUME CallTypeOK, NEW c \in Callers, NEW place \in Places,
         Goto(c, place), process' = process,
         entity' \in [Callers -> Entities \union {None}],
         key' = key \/ key' = [key EXCEPT ![c] = nextKey], nextKey \in Keys \/ key' = key,
         assigned' \in Seq(Rows)
  PROVE  CallTypeOK'
  <1>1. /\ Entities' = Entities /\ StartedOn' = StartedOn /\ Rows' = Rows
        /\ machine' = machine
    BY DeploymentFixes DEF process
  <1> QED BY <1>1 DEF CallTypeOK, Goto

\* A step that only moves the caller: a failure that does nothing more.
LEMMA FailureKeepsStore ==
  ASSUME StoreInv, NEW c \in Callers, NEW place \in {"thrown", "rollingBack"},
         Goto(c, place), place = "rollingBack" => Dialect = "mysql",
         entity' = entity, key' = key, db' = db, assigned' = assigned, process' = process
  PROVE  StoreInv'
  <1>1. TableInv /\ CallTypeOK /\ CallInv /\ AssignedInv
    BY StoreParts
  <1>2. /\ deployment' = deployment /\ connected' = connected /\ inTxn' = inTxn
        /\ pending' = pending /\ committed' = committed /\ nextKey' = nextKey
        /\ assigned' = assigned /\ entity' = entity /\ key' = key
        /\ Rows' = Rows /\ Dialect' = Dialect /\ process' = process
    BY DeploymentFixes DEF db, process
  <1>3. TableInv'
    BY <1>1, <1>2
    DEF TableInv, TableTypeOK, KeysAreUnique, PendingIsApart, OneWriter, InTable
  <1>4. CallTypeOK'
    <2>1. place \in Places
      BY DEF Places
    <2>2. entity' \in [Callers -> Entities \union {None}] /\ assigned' \in Seq(Rows)
      BY <1>1, <1>2 DEF CallTypeOK
    <2> QED BY <1>1, <1>2, <2>1, <2>2, CallTypesStep
  <1>5. /\ at'[c] = place
        /\ \A d \in Callers \ {c} : at'[d] = at[d]
    BY <1>1 DEF Goto, CallTypeOK
  <1>6. CallInv'
    <2>1. CallerInv(c)'
      BY <1>2, <1>5 DEF CallerInv, InTransaction
    <2> QED BY <1>2, <1>5, <2>1, CallersKeepInv
  <1>7. AssignedInv'
    BY <1>1, <1>2, AssignedStay
  <1> QED BY <1>3, <1>4, <1>6, <1>7, StoreOfParts

\* The transaction of c ends, committed or rolled back, and c goes elsewhere.
LEMMA EndKeepsCallers ==
  ASSUME StoreInv, NEW c \in Callers,
         NEW place \in {"returned", "thrown", "rollingBack"}, Goto(c, place),
         place = "rollingBack" => Dialect = "mysql", Alone(c),
         pending' = [pending EXCEPT ![SessionOf[c]] = {}],
         inTxn' = [inTxn EXCEPT ![SessionOf[c]] = FALSE],
         entity' = entity \/ entity' = [entity EXCEPT ![c] = None],
         assigned' \in Seq(Rows),
         process' = process, connected' = connected, key' = key
  PROVE  CallTypeOK' /\ CallInv'
  <1>1. TableInv /\ CallTypeOK /\ CallInv /\ AssignedInv
    BY StoreParts
  <1>2. /\ SessionOf \in [Callers -> Sessions] /\ Dialect' = Dialect
        /\ deployment' = deployment /\ process' = process
    BY <1>1, DeploymentProperties, DeploymentFixes DEF TableInv, process
  <1>3. CallTypeOK'
    <2>1. place \in Places
      BY DEF Places
    <2>2. entity' \in [Callers -> Entities \union {None}]
      BY <1>1 DEF CallTypeOK
    <2> QED BY <1>1, <1>2, <2>1, <2>2, CallTypesStep
  <1>4. /\ at'[c] = place
        /\ \A d \in Callers \ {c} :
             at'[d] = at[d] /\ entity'[d] = entity[d] /\ key'[d] = key[d]
    BY <1>1 DEF Goto, CallTypeOK
  <1>5. \A t \in Sessions \ {SessionOf[c]} :
          pending'[t] = pending[t] /\ inTxn'[t] = inTxn[t]
    BY <1>1 DEF TableInv, TableTypeOK
  <1>6. CallerInv(c)'
    BY <1>2, <1>4 DEF CallerInv, InTransaction
  <1> QED BY <1>2, <1>3, <1>4, <1>5, <1>6, CallersKeepInv

\* COMMIT, answered: with either dialect.
LEMMA CommitKeepsStore ==
  ASSUME SessionsSupported, StoreInv, NEW c \in Callers, at[c] = "committing",
         connected[SessionOf[c]], CommitPending(SessionOf[c], FALSE), Return(c),
         process' = process, connected' = connected, nextKey' = nextKey
  PROVE  StoreInv'
  <1>1. /\ TableInv /\ SessionOf[c] \in Sessions
        /\ deployment' = deployment /\ connected' = connected /\ nextKey' = nextKey
        /\ process' = process
    BY StoreParts, DeploymentProperties DEF TableInv, process
  <1>2. TableInv'
    BY <1>1, CommitKeepsTable
  <1>3. AssignedInv' /\ assigned' \in Seq(Rows)
    BY <1>1, ReturnAssigns
  <1>4. Alone(c)
    BY CallersAreAlone DEF InTransaction
  <1>5. CallTypeOK' /\ CallInv'
    <2>1. /\ Goto(c, "returned") /\ key' = key
          /\ entity' = [entity EXCEPT ![c] = None]
      BY DEF Return
    <2>2. /\ pending' = [pending EXCEPT ![SessionOf[c]] = {}]
          /\ inTxn' = [inTxn EXCEPT ![SessionOf[c]] = FALSE]
      BY DEF CommitPending
    <2> QED BY <1>1, <1>3, <1>4, <2>1, <2>2, EndKeepsCallers
  <1> QED BY <1>2, <1>3, <1>5, StoreOfParts

\* ROLLBACK, or the commit whose answer is lost: the caller fails.
LEMMA RollbackKeepsStore ==
  ASSUME SessionsSupported, StoreInv, NEW c \in Callers,
         at[c] = "rollingBack" \/ at[c] = "committing",
         RollbackPending(SessionOf[c]), Goto(c, "thrown"),
         process' = process, entity' = entity, key' = key,
         connected' = connected, assigned' = assigned
  PROVE  StoreInv'
  <1>1. /\ TableInv /\ CallTypeOK /\ AssignedInv /\ SessionOf[c] \in Sessions
        /\ deployment' = deployment /\ connected' = connected /\ process' = process
        /\ committed' = committed /\ assigned' = assigned
    BY StoreParts, DeploymentProperties DEF TableInv, process, RollbackPending
  <1>2. TableInv'
    BY <1>1, RollbackKeepsTable
  <1>3. AssignedInv' /\ assigned' \in Seq(Rows)
    BY <1>1, AssignedStay DEF CallTypeOK
  <1>4. Alone(c)
    <2>1. c \in InTransaction \/ Dialect = "mysql"
      BY <1>1, DeploymentProperties
         DEF InTransaction, StoreInv, CallInv, CallerInv
    <2> QED BY <2>1, CallersAreAlone
  <1>5. CallTypeOK' /\ CallInv'
    <2>1. /\ pending' = [pending EXCEPT ![SessionOf[c]] = {}]
          /\ inTxn' = [inTxn EXCEPT ![SessionOf[c]] = FALSE]
      BY DEF RollbackPending
    <2> QED BY <1>1, <1>3, <1>4, <2>1, EndKeepsCallers
  <1> QED BY <1>2, <1>3, <1>5, StoreOfParts

\* The row is inserted, in the transaction of c.
LEMMA InsertKeepsStore ==
  ASSUME SessionsSupported, StoreInv, NEW c \in Callers, Alone(c),
         entity'[c] \in Entities, connected[SessionOf[c]],
         entity' \in [Callers -> Entities \union {None}],
         \A d \in Callers \ {c} : entity'[d] = entity[d],
         InsertRow(c, SessionOf[c], TRUE),
         inTxn' = [inTxn EXCEPT ![SessionOf[c]] = TRUE],
         Dialect = "sqlite" => \A t \in Sessions : pending[t] = {},
         Goto(c, "committing"),
         process' = process, connected' = connected, assigned' = assigned
  PROVE  StoreInv'
  <1>1. /\ TableInv /\ CallTypeOK /\ AssignedInv
        /\ SessionOf[c] \in Sessions /\ SessionOf \in [Callers -> Sessions]
        /\ deployment' = deployment /\ connected' = connected /\ process' = process
        /\ assigned' = assigned /\ SessionOf' = SessionOf
    BY StoreParts, DeploymentProperties, DeploymentFixes DEF TableInv, process
  <1>2. /\ TableInv' /\ committed' = committed
        /\ key' = [key EXCEPT ![c] = nextKey] /\ nextKey \in Keys
        /\ Row(nextKey, entity'[c]) \in pending'[SessionOf[c]]
        /\ \A t \in Sessions \ {SessionOf[c]} : pending'[t] = pending[t]
    BY <1>1, InsertKeepsTable
  <1>3. AssignedInv' /\ assigned' \in Seq(Rows)
    BY <1>1, <1>2, AssignedStay DEF CallTypeOK
  <1>4. CallTypeOK'
    <2>1. "committing" \in Places
      BY DEF Places
    <2> QED BY <1>1, <1>2, <1>3, <2>1, CallTypesStep
  <1>5. /\ at'[c] = "committing" /\ key'[c] = nextKey
        /\ \A d \in Callers \ {c} : at'[d] = at[d] /\ key'[d] = key[d]
    BY <1>1, <1>2 DEF Goto, CallTypeOK
  <1>6. /\ inTxn'[SessionOf[c]] = TRUE
        /\ \A t \in Sessions \ {SessionOf[c]} : inTxn'[t] = inTxn[t]
    BY <1>1 DEF TableInv, TableTypeOK
  <1>7. CallerInv(c)'
    BY <1>1, <1>2, <1>5, <1>6 DEF CallerInv
  <1>8. CallInv'
    BY <1>1, <1>2, <1>5, <1>6, <1>7, CallersKeepInv
  <1> QED BY <1>2, <1>3, <1>4, <1>8, StoreOfParts

\* BEGIN of MySQL: it commits what a refused rollback has left open.
LEMMA BeginKeepsStore ==
  ASSUME SessionsSupported, StoreInv, NEW c \in Callers, MysqlBegin(c),
         process' = process
  PROVE  StoreInv'
  <1>1. /\ TableInv /\ CallTypeOK /\ AssignedInv /\ Dialect = "mysql"
        /\ SessionOf[c] \in Sessions /\ connected[SessionOf[c]]
        /\ deployment' = deployment /\ connected' = connected /\ nextKey' = nextKey
        /\ assigned' = assigned /\ key' = key
        /\ CommitPending(SessionOf[c], TRUE) /\ Goto(c, "inserting")
    BY StoreParts, DeploymentProperties DEF TableInv, process, MysqlBegin
  <1>2. TableInv' /\ committed \subseteq committed'
    BY <1>1, CommitKeepsTable
  <1>3. AssignedInv' /\ assigned' \in Seq(Rows)
    BY <1>1, <1>2, AssignedStay DEF CallTypeOK
  <1>4. PICK stamp \in Stamps :
          entity' = [entity EXCEPT ![c] = buildWorkerNode(machine[SessionOf[c]], stamp)]
    BY DEF MysqlBegin, BuildWorkerNode
  <1>5. buildWorkerNode(machine[SessionOf[c]], stamp) \in Entities
    BY <1>1, EntityIsBuilt DEF CallTypeOK
  <1>6. /\ entity' \in [Callers -> Entities \union {None}] /\ entity'[c] \in Entities
        /\ at'[c] = "inserting"
        /\ \A d \in Callers \ {c} :
             at'[d] = at[d] /\ entity'[d] = entity[d] /\ key'[d] = key[d]
    BY <1>1, <1>4, <1>5 DEF CallTypeOK, Goto
  <1>7. CallTypeOK'
    <2>1. "inserting" \in Places
      BY DEF Places
    <2> QED BY <1>1, <1>3, <1>6, <2>1, CallTypesStep
  <1>8. /\ inTxn'[SessionOf[c]] = TRUE
        /\ \A t \in Sessions \ {SessionOf[c]} :
             pending'[t] = pending[t] /\ inTxn'[t] = inTxn[t]
    BY <1>1 DEF CommitPending, TableInv, TableTypeOK
  <1>9. CallerInv(c)'
    BY <1>1, <1>6, <1>8, DeploymentFixes DEF CallerInv
  <1>10. Alone(c)
    BY <1>1, CallersAreAlone
  <1>11. CallInv'
    BY <1>1, <1>6, <1>8, <1>9, <1>10, CallersKeepInv
  <1> QED BY <1>2, <1>3, <1>7, <1>11, StoreOfParts

\* The commit is done, but the caller does not hear of it.
LEMMA UnansweredKeepsStore ==
  ASSUME SessionsSupported, StoreInv, NEW c \in Callers, MysqlCommitUnanswered(c),
         process' = process
  PROVE  StoreInv'
  <1>1. /\ TableInv /\ CallTypeOK /\ AssignedInv /\ Dialect = "mysql"
        /\ SessionOf[c] \in Sessions
        /\ deployment' = deployment /\ connected' = connected /\ nextKey' = nextKey
        /\ assigned' = assigned /\ key' = key /\ entity' = entity
        /\ CommitPending(SessionOf[c], FALSE) /\ Goto(c, "rollingBack")
    BY StoreParts, DeploymentProperties DEF TableInv, process, MysqlCommitUnanswered
  <1>2. TableInv' /\ committed \subseteq committed'
    BY <1>1, CommitKeepsTable
  <1>3. AssignedInv' /\ assigned' \in Seq(Rows)
    BY <1>1, <1>2, AssignedStay DEF CallTypeOK
  <1>4. Alone(c)
    BY <1>1, CallersAreAlone
  <1>5. CallTypeOK' /\ CallInv'
    <2>1. /\ pending' = [pending EXCEPT ![SessionOf[c]] = {}]
          /\ inTxn' = [inTxn EXCEPT ![SessionOf[c]] = FALSE]
      BY <1>1 DEF CommitPending
    <2> QED BY <1>1, <1>3, <1>4, <2>1, EndKeepsCallers
  <1> QED BY <1>2, <1>3, <1>5, StoreOfParts

\* INSERT of MySQL, in the transaction that its BEGIN has opened.
LEMMA MysqlInsertKeepsStore ==
  ASSUME SessionsSupported, StoreInv, NEW c \in Callers, MysqlInsert(c),
         process' = process
  PROVE  StoreInv'
  <1>1. /\ Dialect = "mysql" /\ at[c] = "inserting" /\ connected[SessionOf[c]]
        /\ entity' = entity /\ connected' = connected /\ inTxn' = inTxn
        /\ assigned' = assigned /\ Goto(c, "committing")
        /\ InsertRow(c, SessionOf[c], inTxn[SessionOf[c]])
    BY DEF MysqlInsert
  <1>2. /\ CallTypeOK /\ TableInv /\ CallerInv(c)
    BY StoreParts DEF CallInv
  <1>3. inTxn[SessionOf[c]] = TRUE /\ entity'[c] \in Entities
    <2>1. inTxn[SessionOf[c]] /\ entity[c] \in Entities
      BY <1>1, <1>2 DEF CallerInv, InTransaction
    <2>2. inTxn[SessionOf[c]] \in BOOLEAN
      BY <1>2, DeploymentProperties DEF TableInv, TableTypeOK
    <2> QED BY <1>1, <2>1, <2>2
  <1>4. /\ inTxn' = [inTxn EXCEPT ![SessionOf[c]] = TRUE]
        /\ entity' \in [Callers -> Entities \union {None}]
        /\ \A d \in Callers \ {c} : entity'[d] = entity[d]
    BY <1>1, <1>2, <1>3 DEF TableInv, TableTypeOK, CallTypeOK
  <1>5. InsertRow(c, SessionOf[c], TRUE)
    BY <1>1, <1>3
  <1>6. Alone(c)
    BY <1>1, CallersAreAlone
  <1>7. Dialect = "sqlite" => \A t \in Sessions : pending[t] = {}
    BY <1>1
  <1> QED BY <1>1, <1>3, <1>4, <1>5, <1>6, <1>7, InsertKeepsStore

\* BEGIN and INSERT of SQLite: nobody else is writing.
LEMMA SqliteInsertKeepsStore ==
  ASSUME SessionsSupported, StoreInv, NEW c \in Callers, SqliteBeginAndInsert(c),
         process' = process
  PROVE  StoreInv'
  <1>1. /\ Dialect = "sqlite" /\ at[c] = "idle" /\ connected[SessionOf[c]]
        /\ ~inTxn[SessionOf[c]] /\ ~WriteLocked(SessionOf[c])
        /\ connected' = connected /\ assigned' = assigned /\ Goto(c, "committing")
        /\ InsertRow(c, SessionOf[c], TRUE)
        /\ inTxn' = [inTxn EXCEPT ![SessionOf[c]] = TRUE]
    BY DEF SqliteBeginAndInsert
  <1>2. /\ CallTypeOK /\ TableInv /\ SessionOf[c] \in Sessions
    BY StoreParts, DeploymentProperties DEF TableInv
  <1>3. PICK stamp \in Stamps :
          entity' = [entity EXCEPT ![c] = buildWorkerNode(machine[SessionOf[c]], stamp)]
    BY DEF SqliteBeginAndInsert, BuildWorkerNode
  <1>4. buildWorkerNode(machine[SessionOf[c]], stamp) \in Entities
    BY <1>2, EntityIsBuilt DEF CallTypeOK
  <1>5. /\ entity' \in [Callers -> Entities \union {None}] /\ entity'[c] \in Entities
        /\ \A d \in Callers \ {c} : entity'[d] = entity[d]
    BY <1>2, <1>3, <1>4 DEF CallTypeOK
  <1>6. \A t \in Sessions : pending[t] = {}
    BY <1>1, <1>2 DEF WriteLocked, TableInv, PendingIsApart
  <1>7. Alone(c)
    BY <1>1, CallersAreAlone
  <1> QED BY <1>1, <1>5, <1>6, <1>7, InsertKeepsStore

\* Every step of a call keeps the invariant.
LEMMA CallerStepKeepsStore ==
  ASSUME SessionsSupported, StoreInv, NEW c \in Callers, CallerStep(c),
         process' = process
  PROVE  StoreInv'
  <1>1. CASE MysqlBegin(c)
    BY <1>1, BeginKeepsStore
  <1>2. CASE \/ MysqlBeginFails(c) \/ MysqlCommandFails(c) \/ MysqlRollbackFails(c)
             \/ SqliteBeginOrInsertFails(c)
    <2>1. /\ entity' = entity /\ key' = key /\ db' = db /\ assigned' = assigned
          /\ Goto(c, "thrown") \/ (Dialect = "mysql" /\ Goto(c, "rollingBack"))
      BY <1>2 DEF MysqlBeginFails, MysqlCommandFails, MysqlRollbackFails,
                  SqliteBeginOrInsertFails
    <2> QED BY <2>1, FailureKeepsStore
  <1>3. CASE MysqlInsert(c)
    BY <1>3, MysqlInsertKeepsStore
  <1>4. CASE MysqlCommit(c) \/ SqliteCommit(c)
    BY <1>4, CommitKeepsStore DEF MysqlCommit, SqliteCommit
  <1>5. CASE MysqlCommitUnanswered(c)
    BY <1>5, UnansweredKeepsStore
  <1>6. CASE MysqlRollback(c) \/ SqliteCommitFails(c)
    BY <1>6, RollbackKeepsStore DEF MysqlRollback, SqliteCommitFails
  <1>7. CASE SqliteBeginAndInsert(c)
    BY <1>7, SqliteInsertKeepsStore
  <1> QED BY <1>1, <1>2, <1>3, <1>4, <1>5, <1>6, <1>7 DEF CallerStep

-----------------------------------------------------------------------------
(* The steps of a session, of the server, and a new call *)

\* A new call begins with nothing in hand.
LEMMA CallAgainKeepsStore ==
  ASSUME StoreInv, NEW c \in Callers, CallAgain(c), process' = process
  PROVE  StoreInv'
  <1>1. TableInv /\ CallTypeOK /\ CallInv /\ AssignedInv
    BY StoreParts
  <1>2. /\ deployment' = deployment /\ machine' = machine
        /\ db' = db /\ connected' = connected /\ inTxn' = inTxn
        /\ pending' = pending /\ committed' = committed /\ nextKey' = nextKey
        /\ assigned' = assigned /\ Rows' = Rows /\ Dialect' = Dialect
        /\ Entities' = Entities /\ StartedOn' = StartedOn
    BY DeploymentFixes DEF CallAgain, db, process
  <1>3. /\ at' = [d \in Callers |-> IF d = c THEN "idle" ELSE at[d]]
        /\ entity' = [d \in Callers |-> IF d = c THEN None ELSE entity[d]]
        /\ key' = [d \in Callers |-> IF d = c THEN 0 ELSE key[d]]
    BY DEF CallAgain, BackToIdle
  <1>4. TableInv'
    BY <1>1, <1>2
       DEF TableInv, TableTypeOK, KeysAreUnique, PendingIsApart, OneWriter, InTable
  <1>5. CallTypeOK'
    BY <1>1, <1>2, <1>3 DEF CallTypeOK, Places
  <1>6. CallInv'
    <2>1. CallerInv(c)'
      BY <1>3 DEF CallerInv, InTransaction
    <2>2. at'[c] \notin {"inserting", "committing"}
      BY <1>3
    <2>3. \A d \in Callers \ {c} :
            at'[d] = at[d] /\ entity'[d] = entity[d] /\ key'[d] = key[d]
      BY <1>3
    <2> QED BY <1>2, <2>1, <2>2, <2>3, CallersKeepInv
  <1>7. AssignedInv'
    BY <1>1, <1>2, AssignedStay
  <1> QED BY <1>4, <1>5, <1>6, <1>7, StoreOfParts

\* close(): what is pending is rolled back, and its caller is in no transaction
\* of an open connection any more.
LEMMA CloseKeepsStore ==
  ASSUME StoreInv, NEW s \in Sessions, Close(s)
  PROVE  StoreInv'
  <1>1. TableInv /\ CallTypeOK /\ CallInv /\ AssignedInv
    BY StoreParts
  <1>2. /\ deployment' = deployment /\ machine' = machine
        /\ at' = at /\ entity' = entity /\ key' = key /\ assigned' = assigned
        /\ connected' = [connected EXCEPT ![s] = FALSE]
        /\ RollbackPending(s) /\ committed' = committed
        /\ Rows' = Rows /\ Dialect' = Dialect
        /\ Entities' = Entities /\ StartedOn' = StartedOn
    BY DeploymentFixes DEF Close, call, process, RollbackPending
  <1>3. TableInv'
    BY <1>1, <1>2, RollbackKeepsTable
  <1>4. CallTypeOK'
    BY <1>1, <1>2 DEF CallTypeOK
  <1>5. CallInv'
    <2>1. /\ ~connected'[s]
          /\ \A t \in Sessions \ {s} : /\ pending'[t] = pending[t] /\ inTxn'[t] = inTxn[t]
                                     /\ connected'[t] = connected[t]
      BY <1>1, <1>2 DEF RollbackPending, TableInv, TableTypeOK
    <2> QED BY <1>2, <2>1, SessionKeepsInv
  <1>6. AssignedInv'
    BY <1>1, <1>2, AssignedStay
  <1> QED BY <1>3, <1>4, <1>5, <1>6, StoreOfParts

\* A session is opened again when none of its callers is in a transaction.
LEMMA ReopenKeepsStore ==
  ASSUME StoreInv, NEW s \in Sessions, Reopen(s)
  PROVE  StoreInv'
  <1>1. TableInv /\ CallTypeOK /\ CallInv /\ AssignedInv
    BY StoreParts
  <1>2. /\ deployment' = deployment /\ machine' = machine
        /\ at' = at /\ entity' = entity /\ key' = key /\ assigned' = assigned
        /\ connected' = [connected EXCEPT ![s] = TRUE]
        /\ inTxn' = inTxn /\ pending' = pending /\ committed' = committed
        /\ nextKey' = nextKey
        /\ Rows' = Rows /\ Dialect' = Dialect
        /\ Entities' = Entities /\ StartedOn' = StartedOn
    BY DeploymentFixes DEF Reopen, call, process
  <1>3. \A t \in Sessions \ {s} : connected'[t] = connected[t]
    BY <1>1, <1>2 DEF TableInv, TableTypeOK
  <1>4. TableInv'
    <2>1. TableTypeOK'
      BY <1>1, <1>2 DEF TableInv, TableTypeOK
    <2>2. KeysAreUnique' /\ OneWriter'
      BY <1>1, <1>2 DEF TableInv, KeysAreUnique, OneWriter, InTable
    <2>3. PendingIsApart'
      BY <1>1, <1>2 DEF TableInv, TableTypeOK, PendingIsApart
    <2> QED BY <1>1, <1>2, <2>1, <2>2, <2>3 DEF TableInv
  <1>5. CallTypeOK'
    BY <1>1, <1>2 DEF CallTypeOK
  <1>6. CallInv'
    <2>1. \A c \in Callers : SessionOf[c] = s => c \notin InTransaction'
      BY <1>2 DEF Reopen, InTransaction
    <2> QED BY <1>2, <1>3, <2>1, SessionKeepsInv
  <1>7. AssignedInv'
    BY <1>1, <1>2, AssignedStay
  <1> QED BY <1>4, <1>5, <1>6, <1>7, StoreOfParts

\* A process dies in the middle of anything, and starts again.
LEMMA CrashKeepsStore ==
  ASSUME StoreInv, NEW s \in Sessions, Crash(s)
  PROVE  StoreInv'
  <1>1. TableInv /\ CallTypeOK /\ CallInv /\ AssignedInv
    BY StoreParts
  <1>2. /\ deployment' = deployment /\ assigned' = assigned
        /\ connected' = [connected EXCEPT ![s] = TRUE]
        /\ RollbackPending(s) /\ committed' = committed
        /\ Rows' = Rows /\ Dialect' = Dialect
        /\ Entities' = Entities /\ StartedOn' = StartedOn
    BY DeploymentFixes DEF Crash, RollbackPending
  <1>3. \A c \in Callers :
          IF SessionOf[c] = s
            THEN at'[c] = "idle" /\ entity'[c] = None /\ key'[c] = 0
            ELSE at'[c] = at[c] /\ entity'[c] = entity[c] /\ key'[c] = key[c]
    BY DEF Crash, BackToIdle
  <1>4. TableInv'
    BY <1>1, <1>2, RollbackKeepsTable
  <1>5. CallTypeOK'
    <2>1. machine' \in [Sessions -> StartedOn]
      BY <1>1 DEF CallTypeOK, Crash
    <2>2. /\ at' \in [Callers -> Places] /\ entity' \in [Callers -> Entities \union {None}]
          /\ key' \in [Callers -> Keys \union {0}]
      BY <1>1 DEF CallTypeOK, Crash, BackToIdle, Places
    <2> QED BY <1>1, <1>2, <2>1, <2>2 DEF CallTypeOK
  <1>6. CallInv'
    <2>1. \A t \in Sessions \ {s} : /\ pending'[t] = pending[t] /\ inTxn'[t] = inTxn[t]
                                  /\ connected'[t] = connected[t]
      BY <1>1, <1>2 DEF RollbackPending, TableInv, TableTypeOK
    <2>2. \A c \in Callers : SessionOf[c] = s => c \notin InTransaction'
      BY <1>3 DEF InTransaction
    <2> QED BY <1>2, <1>3, <2>1, <2>2, SessionKeepsInv
  <1>7. AssignedInv'
    BY <1>1, <1>2, AssignedStay
  <1> QED BY <1>4, <1>5, <1>6, <1>7, StoreOfParts

\* The server restarts: no connection is left, so no transaction.
LEMMA RestartKeepsStore ==
  ASSUME StoreInv, ServerRestarts
  PROVE  StoreInv'
  <1>1. TableInv /\ CallTypeOK /\ CallInv /\ AssignedInv
    BY StoreParts
  <1>2. /\ deployment' = deployment /\ machine' = machine
        /\ at' = at /\ entity' = entity /\ key' = key /\ assigned' = assigned
        /\ connected' = [s \in Sessions |-> FALSE] /\ committed' = committed
        /\ Rows' = Rows /\ Dialect' = Dialect /\ SessionOf' = SessionOf
        /\ Entities' = Entities /\ StartedOn' = StartedOn
        /\ SessionOf \in [Callers -> Sessions]
    BY <1>1, DeploymentFixes, DeploymentProperties
       DEF ServerRestarts, call, process, TableInv
  <1>3. TableInv'
    BY <1>1, RestartKeepsTable
  <1>4. CallTypeOK'
    BY <1>1, <1>2 DEF CallTypeOK
  <1>5. \A c \in Callers : ~connected'[SessionOf'[c]]
    BY <1>2
  <1>6. CallInv'
    BY <1>1, <1>2, <1>5 DEF CallInv, CallerInv, OneCaller, InTransaction
  <1>7. AssignedInv'
    BY <1>1, <1>2, AssignedStay
  <1> QED BY <1>3, <1>4, <1>6, <1>7, StoreOfParts

-----------------------------------------------------------------------------
(* The invariant *)

\* At the start the table is empty, and nobody has called.
LEMMA InitialStore ==
  ASSUME Init
  PROVE  StoreInv
  <1> USE AssignerAssumption DEF Init
  <1>1. Dialect \in {"sqlite", "mysql"}
    BY DeploymentProperties
  <1>2. InTable = {} /\ nextKey \in FirstKey .. MaxKey + 1
    <2>1. UNION {pending[s] : s \in Sessions} = {}
      OBVIOUS
    <2> QED BY <2>1 DEF InTable
  <1>3. TypeOK
    BY <1>1, <1>2 DEF TypeOK, Places
  <1>4. KeysAreUnique /\ PendingIsApart /\ OneWriter
    BY <1>2 DEF KeysAreUnique, PendingIsApart, OneWriter
  <1>5. CallInv
    BY DEF CallInv, CallerInv, OneCaller, InTransaction
  <1>6. AssignedInv
    BY DEF AssignedInv, DistinctWorkerIds
  <1> QED BY <1>3, <1>4, <1>5, <1>6 DEF StoreInv

\* A step in which nothing of the assigner changes.
LEMMA StoreStutters ==
  ASSUME StoreInv, vars' = vars
  PROVE  StoreInv'
  <1>1. /\ deployment' = deployment /\ machine' = machine
        /\ at' = at /\ entity' = entity /\ key' = key /\ assigned' = assigned
        /\ connected' = connected /\ inTxn' = inTxn
        /\ pending' = pending /\ committed' = committed /\ nextKey' = nextKey
    BY DEF vars, process, call, db
  <1> QED
    BY <1>1
       DEF StoreInv, TypeOK, KeysAreUnique, PendingIsApart, OneWriter, InTable,
           CallInv, CallerInv, OneCaller, InTransaction, AssignedInv,
           DistinctWorkerIds, WorkerIds, Dialect, SessionOf, Rows, Entities,
           StartedOn, SharedTable, Deployed

\* The invariant is inductive: every step of a call, a session or the server
\* keeps it.
LEMMA StoreStep ==
  ASSUME SessionsSupported, StoreInv, [Next]_vars
  PROVE  StoreInv'
  <1>1. CASE \E c \in Callers : (CallerStep(c) \/ CallAgain(c)) /\ UNCHANGED process
    BY <1>1, CallerStepKeepsStore, CallAgainKeepsStore
  <1>2. CASE \E s \in SessionsInUse : Close(s) \/ Reopen(s) \/ Crash(s)
    <2>1. SessionsInUse \subseteq Sessions
      BY DeploymentProperties DEF StoreInv, SessionsInUse, Range
    <2> QED BY <1>2, <2>1, CloseKeepsStore, ReopenKeepsStore, CrashKeepsStore
  <1>3. CASE ServerRestarts
    BY <1>3, RestartKeepsStore
  <1>4. CASE UNCHANGED vars
    BY <1>4, StoreStutters
  <1> QED BY <1>1, <1>2, <1>3, <1>4 DEF Next

\* Every key is used once, what is pending belongs to one caller, and every
\* assigned row is stored, in every reachable state.
THEOREM StoreInvariant ==
  ASSUME SessionsSupported
  PROVE  Spec => []StoreInv
  <1>1. Init => StoreInv
    BY InitialStore
  <1>2. StoreInv /\ [Next]_vars => StoreInv'
    BY StoreStep
  <1> QED BY <1>1, <1>2, PTL DEF Spec

\* No worker id is ever assigned twice (assignWorkerId() over a table that all
\* processes share).
THEOREM WorkerIdsAreDistinct ==
  ASSUME SessionsSupported
  PROVE  Spec => []DistinctWorkerIds
  <1>1. StoreInv => DistinctWorkerIds
    BY DEF StoreInv, AssignedInv
  <1> QED BY <1>1, StoreInvariant, PTL

\* The entity of every assigned worker id is found by its host and port
\* (transaction() commits before it returns).
THEOREM AssignedIdsStayStored ==
  ASSUME SessionsSupported
  PROVE  Spec => []AssignedIdsAreStored
  <1>1. StoreInv => AssignedIdsAreStored
    <2> SUFFICES ASSUME StoreInv, NEW entry \in Range(assigned)
                 PROVE  entry \in getWorkerNodeByHostPort(entry.node.hostName,
                                                         entry.node.port)
      BY DEF AssignedIdsAreStored
    <2>1. entry \in committed
      BY DEF StoreInv, AssignedInv, Range
    <2>2. entry \in RowsByHostPort(entry.node.hostName, entry.node.port)
      BY <2>1 DEF RowsByHostPort
    <2> QED BY <2>2 DEF getWorkerNodeByHostPort, selectOne
  <1> QED BY <1>1, StoreInvariant, PTL

\* With SQLite every row that is stored is an assigned one: a call that threw
\* has left none (transaction() rolls back before it throws).
THEOREM FailuresLeaveNoRow ==
  ASSUME SessionsSupported
  PROVE  Spec => []ThrownLeavesNoRow
  <1>1. StoreInv => ThrownLeavesNoRow
    BY DEF StoreInv, AssignedInv, ThrownLeavesNoRow
  <1> QED BY <1>1, StoreInvariant, PTL

-----------------------------------------------------------------------------
(* The layout *)

\* LayoutSeparates: whatever it is, the layout keeps worker ids apart.
THEOREM EveryLayoutSeparates == LayoutSeparates
  <1> SUFFICES ASSUME NEW i \in IdsThatFit, NEW j \in IdsThatFit,
                      NEW n \in 0 .. MaxUid, NEW m \in 0 .. MaxUid, uid(n, i) = uid(m, j)
               PROVE  i = j
    BY DEF LayoutSeparates
  <1>1. maxWorkerId \in Nat /\ maxSequence \in Nat /\ UidsPerSecond = maxSequence + 1
    BY LargestValues DEF UidsPerSecond
  <1>2. i \in 0 .. maxWorkerId /\ j \in 0 .. maxWorkerId
    BY <1>1, AssignerAssumption DEF IdsThatFit, Keys
  <1>3. UidsPerSecond \in Nat \ {0} /\ n \in Int /\ m \in Int
    BY <1>1, ClusterAssumption
  <1>4. /\ n \div UidsPerSecond \in Int /\ n % UidsPerSecond \in 0 .. maxSequence
        /\ m \div UidsPerSecond \in Int /\ m % UidsPerSecond \in 0 .. maxSequence
    <2> HIDE DEF UidsPerSecond
    <2>1. /\ n \div UidsPerSecond \in Int /\ n % UidsPerSecond \in 0 .. UidsPerSecond - 1
          /\ m \div UidsPerSecond \in Int /\ m % UidsPerSecond \in 0 .. UidsPerSecond - 1
      BY <1>3, Quotient
    <2> QED BY <1>1, <2>1
  <1> QED BY <1>2, <1>4, WorkerIdsSeparate DEF uid

-----------------------------------------------------------------------------
(* The cluster is an assigner *)

\* Every step of the cluster is one of the assigner, or leaves it alone.
LEMMA ClusterStepsAssign ==
  ASSUME [ClusterNext]_clusterVars
  PROVE  [Next]_vars
  <1>1. CASE \E c \in Callers : TakesWorkerId(c) \/ BeginsAgain(c) \/ GetUID(c)
    BY <1>1 DEF TakesWorkerId, BeginsAgain, GetUID, Next
  <1>2. CASE \E s \in SessionsInUse :
               \/ ProcessCrashes(s)
               \/ (Close(s) \/ Reopen(s)) /\ UNCHANGED <<generators, history>>
    BY <1>2 DEF ProcessCrashes, Next
  <1>3. CASE ServerRestarts /\ UNCHANGED <<generators, history>>
    BY <1>3 DEF Next
  <1>4. CASE UNCHANGED clusterVars
    BY <1>4 DEF clusterVars
  <1> QED BY <1>1, <1>2, <1>3, <1>4 DEF ClusterNext

\* The generators of a cluster take their worker ids as WorkerIdAssigner says:
\* what is proved of it holds of them.
THEOREM ClusterImplementsAssigner ==
  ClusterSpec => Spec
  <1>1. ClusterInit => Init
    BY DEF ClusterInit
  <1>2. [ClusterNext]_clusterVars => [Next]_vars
    BY ClusterStepsAssign
  <1> QED BY <1>1, <1>2, PTL DEF ClusterSpec, Spec

-----------------------------------------------------------------------------
(* What a step of the assigner does to the ids that are assigned *)

\* A step of a call assigns the key of its caller, a new one, as it returns;
\* any other assigns nothing.
LEMMA AssignsAsItReturns ==
  ASSUME StoreInv, StoreInv', NEW c \in Callers, CallerStep(c)
  PROVE  IF at'[c] = "returned"
           THEN /\ key[c] \in Keys /\ key[c] \notin WorkerIds
                /\ WorkerIds' = WorkerIds \union {key[c]}
           ELSE WorkerIds' = WorkerIds
  <1>1. CASE Return(c)
    <2> DEFINE row == Row(key[c], entity[c])
               n == Len(assigned)
    <2>1. /\ at'[c] = "returned" /\ assigned' = Append(assigned, row)
          /\ row.id = key[c]
      BY <1>1, RowProperties DEF Return, Goto, StoreInv, TypeOK
    <2> HIDE DEF row
    <2>2. /\ assigned \in Seq(Rows) /\ n \in Nat
      BY DEF StoreInv, TypeOK
    <2>3. /\ DOMAIN assigned' = 1 .. n + 1 /\ DOMAIN assigned = 1 .. n
          /\ \A i \in 1 .. n : assigned'[i] = assigned[i]
          /\ assigned'[n + 1] = row
      BY <2>1, <2>2
    <2> HIDE DEF n
    <2>4. /\ 1 .. n + 1 = (1 .. n) \union {n + 1} /\ n + 1 \notin 1 .. n
          /\ n + 1 \in 1 .. n + 1
      BY <2>2
    <2>5. WorkerIds = {assigned[i].id : i \in 1 .. n}
      BY <2>3 DEF WorkerIds, Range
    <2>6. WorkerIds' = {assigned'[i].id : i \in 1 .. n + 1}
      BY <2>3 DEF WorkerIds, Range
    <2>7. WorkerIds' = WorkerIds \union {key[c]}
      BY <2>1, <2>3, <2>4, <2>5, <2>6
    <2>8. key[c] \notin WorkerIds
      <3> SUFFICES ASSUME NEW i \in 1 .. n, assigned[i].id = key[c]
                   PROVE  FALSE
        BY <2>5
      <3>1. DistinctWorkerIds'
        BY DEF StoreInv, AssignedInv
      <3>2. assigned'[i].id = assigned'[n + 1].id
        BY <2>1, <2>3
      <3> QED BY <2>3, <2>4, <3>1, <3>2 DEF DistinctWorkerIds
    <2>9. key[c] \in Keys
      <3>1. assigned'[n + 1] \in Rows'
        BY <2>3, <2>4 DEF StoreInv, TypeOK
      <3>2. \A r \in Rows' : r.id \in Keys
        BY DEF Rows, Row
      <3> QED BY <2>1, <2>3, <3>1, <3>2
    <2> QED BY <2>1, <2>7, <2>8, <2>9
  <1>2. CASE \E place \in Places \ {"returned"} : Goto(c, place) /\ assigned' = assigned
    <2>1. at'[c] # "returned"
      BY <1>2 DEF Goto, StoreInv, TypeOK
    <2> QED BY <1>2, <2>1 DEF WorkerIds
  <1>3. Return(c) \/ \E place \in Places \ {"returned"} : Goto(c, place) /\ assigned' = assigned
    BY DEF CallerStep, Places, MysqlBegin, MysqlBeginFails, MysqlInsert, MysqlCommandFails,
           MysqlCommit, MysqlCommitUnanswered, MysqlRollback, MysqlRollbackFails,
           SqliteBeginAndInsert, SqliteBeginOrInsertFails, SqliteCommit, SqliteCommitFails
  <1> QED BY <1>1, <1>2, <1>3

\* No other step of the assigner assigns anything.
LEMMA OthersAssignNothing ==
  ASSUME \/ \E c \in Callers : CallAgain(c)
         \/ \E s \in SessionsInUse : Close(s) \/ Reopen(s) \/ Crash(s)
         \/ ServerRestarts
  PROVE  WorkerIds' = WorkerIds
  BY DEF CallAgain, Close, Reopen, Crash, ServerRestarts, call, WorkerIds

-----------------------------------------------------------------------------
(* The generators *)

\* The parts of the invariant, of the next state.
LEMMA ClusterOfParts ==
  ASSUME StoreInv', workerId' \in [Callers -> Keys \union {0}],
         issued' \in [Callers -> BOOLEAN], watched' \in Watched, owned' \in 0 .. 2,
         early' \in BOOLEAN, spilled' \in BOOLEAN, IdsAreOwned', IssuedOnce'
  PROVE  ClusterInv'
  BY DEF ClusterInv, ClusterTypeOK, StoreInv

\* Generators that keep their id and their uids, or are new ones, while ids that
\* are assigned stay so.
LEMMA GeneratorsKeepInv ==
  ASSUME ClusterInv, StoreInv', WorkerIds' = WorkerIds, history' = history,
         workerId' \in [Callers -> Keys \union {0}], issued' \in [Callers -> BOOLEAN],
         \A c \in Callers :
           \/ workerId'[c] = 0
           \/ workerId'[c] = workerId[c] /\ issued'[c] = issued[c]
  PROVE  ClusterInv'
  <1>1. /\ watched' = watched /\ owned' = owned /\ early' = early /\ spilled' = spilled
        /\ watched \in Watched /\ owned \in 0 .. 2 /\ {early, spilled} \subseteq BOOLEAN
    BY DEF history, ClusterInv, ClusterTypeOK
  <1>2. IdsAreOwned'
    BY DEF ClusterInv, IdsAreOwned
  <1>3. \A id : IsWatched(id)' <=> IsWatched(id)
    BY <1>1 DEF IsWatched
  <1>4. 0 \notin WorkerIds
    BY AssignerAssumption DEF ClusterInv, StoreInv, TypeOK, WorkerIds, Range, Rows, Row, Keys
  <1>5. IssuedOnce'
    BY <1>1, <1>3, <1>4 DEF ClusterInv, IssuedOnce
  <1> QED BY <1>1, <1>2, <1>5, ClusterOfParts

\* A generator that takes the id of a returning call takes one that no other has
\* ever had.
LEMMA TakingKeepsInv ==
  ASSUME ClusterInv, StoreInv', NEW c \in Callers, TakesWorkerId(c)
  PROVE  ClusterInv'
  <1> DEFINE id == key[c]
  <1>1. /\ CallerStep(c) /\ history' = history
        /\ IF at'[c] = "returned" THEN /\ workerId' = [workerId EXCEPT ![c] = id]
                                       /\ issued' = [issued EXCEPT ![c] = FALSE]
                                  ELSE workerId' = workerId /\ issued' = issued
        /\ watched' = watched /\ owned' = owned /\ early' = early /\ spilled' = spilled
    BY DEF TakesWorkerId, history, generators
  <1>2. StoreInv /\ ClusterTypeOK /\ IdsAreOwned /\ IssuedOnce
    BY DEF ClusterInv
  <1>3. CASE at'[c] = "returned"
    <2>1. id \in Keys /\ id \notin WorkerIds /\ WorkerIds' = WorkerIds \union {id}
      BY <1>1, <1>2, <1>3, AssignsAsItReturns
    <2>2. /\ workerId' \in [Callers -> Keys \union {0}] /\ workerId'[c] = id
          /\ issued' \in [Callers -> BOOLEAN]
          /\ \A d \in Callers \ {c} : workerId'[d] = workerId[d] /\ issued'[d] = issued[d]
      BY <1>1, <1>2, <1>3, <2>1 DEF ClusterTypeOK
    <2>3. IdsAreOwned'
      BY <1>2, <2>1, <2>2 DEF IdsAreOwned
    <2>4. \A i : IsWatched(i)' <=> IsWatched(i)
      BY <1>1 DEF IsWatched
    <2>5. IssuedOnce'
      BY <1>1, <1>2, <2>1, <2>2, <2>4 DEF IssuedOnce
    <2>6. watched' \in Watched /\ owned' \in 0 .. 2 /\ early' \in BOOLEAN
          /\ spilled' \in BOOLEAN
      BY <1>1, <1>2 DEF ClusterTypeOK
    <2> QED BY <2>2, <2>3, <2>5, <2>6, ClusterOfParts
  <1>4. CASE at'[c] # "returned"
    <2>1. WorkerIds' = WorkerIds
      BY <1>1, <1>2, <1>4, AssignsAsItReturns
    <2> QED BY <1>1, <1>2, <1>4, <2>1, GeneratorsKeepInv DEF ClusterTypeOK
  <1> QED BY <1>3, <1>4

\* As long as no id has spilled, the uid is issued by the one generator that has
\* its id, which has not issued it yet; or its id is 0, and nobody else's.
LEMMA FitIdIssuesOnce ==
  ASSUME StoreInv, ClusterTypeOK, IdsAreOwned, IssuedOnce,
         NEW c \in Callers, GetUID(c), ~spilled'
  PROVE  IssuedOnce'
  <1>0. PICK id : id = workerId[c]
    OBVIOUS
  <1>1. /\ ~issued[c] /\ issued' = [issued EXCEPT ![c] = TRUE]
        /\ workerId' = workerId /\ watched' = watched /\ WorkerIds' = WorkerIds
        /\ early' = (early \/ id = 0)
        /\ owned' = IF id = 0 THEN owned ELSE Min({owned + 1, 2})
    BY <1>0 DEF GetUID, vars, call, WorkerIds
  <1>2. ~spilled /\ id \in IdsThatFit
    <2>1. ~spilled /\ ~(id > maxWorkerId)
      BY <1>0 DEF GetUID
    <2>2. id \in Keys \union {0}
      BY <1>0 DEF ClusterTypeOK
    <2>3. id \in Int /\ maxWorkerId \in Int
      BY <2>2, LargestValues, AssignerAssumption DEF Keys
    <2> QED BY <2>1, <2>2, <2>3 DEF IdsThatFit
  <1>3. IsWatched(id)
    BY <1>0, <1>2 DEF GetUID, IsWatched
  <1>4. \A i : IsWatched(i) => i = id
    BY <1>3, EveryLayoutSeparates DEF LayoutSeparates, IsWatched
  <1>5. 0 \notin WorkerIds
    BY AssignerAssumption DEF StoreInv, TypeOK, WorkerIds, Range, Rows, Row, Keys
  <1>6. \A i : IsWatched(i)' <=> IsWatched(i)
    BY <1>1 DEF IsWatched
  <1>7. owned = 0
    BY <1>0, <1>1, <1>2, <1>4, <1>5 DEF IssuedOnce
  <1>8. CASE id = 0
    BY <1>1, <1>3, <1>6, <1>7, <1>8 DEF IssuedOnce
  <1>9. CASE id # 0
    <2>1. owned' = 1
      BY <1>1, <1>7, <1>9 DEF Min
    <2>2. ~early'
      <3>1. ~early
        BY <1>2, <1>4, <1>9 DEF IssuedOnce
      <3> QED BY <1>1, <1>9, <3>1
    <2>3. id \in WorkerIds' /\ IsWatched(id)'
      BY <1>0, <1>1, <1>3, <1>6, <1>9 DEF IdsAreOwned
    <2>4. \A d \in Callers : workerId'[d] = id => issued'[d]
      BY <1>0, <1>1, <1>9 DEF IdsAreOwned, ClusterTypeOK
    <2>5. owned' \in 0 .. 1
      BY <2>1
    <2> QED BY <2>2, <2>3, <2>4, <2>5 DEF IssuedOnce
  <1> QED BY <1>8, <1>9

\* A generator that issues a uid; of one whose id has spilled nothing is said.
LEMMA IssuingKeepsInv ==
  ASSUME ClusterInv, StoreInv', NEW c \in Callers, GetUID(c)
  PROVE  ClusterInv'
  <1>1. StoreInv /\ ClusterTypeOK /\ IdsAreOwned /\ IssuedOnce
    BY DEF ClusterInv
  <1>2. /\ issued' \in [Callers -> BOOLEAN] /\ workerId' \in [Callers -> Keys \union {0}]
        /\ watched' \in Watched /\ {early', spilled'} \subseteq BOOLEAN
    BY <1>1, Zenon DEF GetUID, ClusterTypeOK
  <1>3. owned' \in 0 .. 2
    <2>1. owned \in 0 .. 2 /\ (owned' = owned \/ owned' = Min({owned + 1, 2}))
      BY <1>1 DEF GetUID, ClusterTypeOK
    <2>2. \A n \in 0 .. 2 : Min({n + 1, 2}) \in 0 .. 2
      BY DEF Min
    <2> QED BY <2>1, <2>2
  <1>4. IdsAreOwned'
    BY <1>1 DEF GetUID, IdsAreOwned, vars, call, WorkerIds
  <1>5. IssuedOnce'
    BY <1>1, FitIdIssuesOnce DEF IssuedOnce
  <1> QED BY <1>2, <1>3, <1>4, <1>5, ClusterOfParts

\* The invariant is inductive.
LEMMA ClusterStep ==
  ASSUME SessionsSupported, ClusterInv, [ClusterNext]_clusterVars
  PROVE  ClusterInv'
  <1>1. StoreInv'
    BY ClusterStepsAssign, StoreStep DEF ClusterInv
  <1>2. /\ workerId \in [Callers -> Keys \union {0}] /\ issued \in [Callers -> BOOLEAN]
    BY DEF ClusterInv, ClusterTypeOK
  <1>3. ASSUME NEW c \in Callers, TakesWorkerId(c)
        PROVE  ClusterInv'
    BY <1>1, <1>3, TakingKeepsInv
  <1>4. ASSUME NEW c \in Callers, GetUID(c)
        PROVE  ClusterInv'
    BY <1>1, <1>4, IssuingKeepsInv
  <1>5. CASE generators' = generators /\ history' = history /\ WorkerIds' = WorkerIds
    <2>1. workerId' = workerId /\ issued' = issued
      BY <1>5 DEF generators
    <2> QED BY <1>1, <1>2, <1>5, <2>1, GeneratorsKeepInv
  <1>6. ASSUME NEW callers, NewGenerators(callers), history' = history,
               WorkerIds' = WorkerIds
        PROVE  ClusterInv'
    <2>1. /\ workerId' \in [Callers -> Keys \union {0}] /\ issued' \in [Callers -> BOOLEAN]
          /\ \A c \in Callers :
               \/ workerId'[c] = 0
               \/ workerId'[c] = workerId[c] /\ issued'[c] = issued[c]
      BY <1>2, <1>6 DEF NewGenerators
    <2> QED BY <1>1, <1>6, <2>1, GeneratorsKeepInv
  <1>7. ASSUME NEW c \in Callers, BeginsAgain(c)
        PROVE  ClusterInv'
    <2>1. WorkerIds' = WorkerIds /\ history' = history
      BY <1>7, OthersAssignNothing DEF BeginsAgain
    <2> QED BY <1>5, <1>6, <1>7, <2>1 DEF BeginsAgain
  <1>8. ASSUME NEW s \in SessionsInUse, ProcessCrashes(s)
        PROVE  ClusterInv'
    <2>1. WorkerIds' = WorkerIds /\ history' = history
      BY <1>8, OthersAssignNothing DEF ProcessCrashes
    <2> QED BY <1>6, <1>8, <2>1 DEF ProcessCrashes
  <1>9. ASSUME NEW s \in SessionsInUse, Close(s) \/ Reopen(s),
               UNCHANGED <<generators, history>>
        PROVE  ClusterInv'
    <2>1. WorkerIds' = WorkerIds
      BY <1>9, OthersAssignNothing
    <2> QED BY <1>5, <1>9, <2>1
  <1>10. CASE ServerRestarts /\ UNCHANGED <<generators, history>>
    <2>1. WorkerIds' = WorkerIds
      BY <1>10, OthersAssignNothing
    <2> QED BY <1>5, <1>10, <2>1
  <1>11. CASE UNCHANGED clusterVars
    <2>1. WorkerIds' = WorkerIds
      BY <1>11 DEF clusterVars, vars, call, WorkerIds
    <2> QED BY <1>5, <1>11, <2>1 DEF clusterVars
  <1> QED BY <1>3, <1>4, <1>7, <1>8, <1>9, <1>10, <1>11 DEF ClusterNext

-----------------------------------------------------------------------------
(* The theorems *)

\* No two generators have the same id, and the uid looked for is issued by one
\* of them at most, in every reachable state in which no id has spilled into it.
THEOREM ClusterInvariant ==
  ASSUME SessionsSupported
  PROVE  ClusterSpec => []ClusterInv
  <1>1. ClusterInit => ClusterInv
    <2> SUFFICES ASSUME ClusterInit PROVE ClusterInv
      OBVIOUS
    <2>1. Init
      BY DEF ClusterInit
    <2>2. StoreInv
      BY <2>1, InitialStore
    <2>3. ClusterTypeOK
      <3>1. {early, spilled} \subseteq BOOLEAN /\ issued \in [Callers -> BOOLEAN]
        BY DEF ClusterInit
      <3>2. workerId \in [Callers -> Keys \union {0}] /\ owned \in 0 .. 2
        BY DEF ClusterInit
      <3> QED BY <2>2, <3>1, <3>2 DEF ClusterInit, ClusterTypeOK, StoreInv
    <2>4. IdsAreOwned /\ IssuedOnce
      BY DEF ClusterInit, IdsAreOwned, IssuedOnce
    <2> QED BY <2>2, <2>3, <2>4 DEF ClusterInv
  <1>2. ClusterInv /\ [ClusterNext]_clusterVars => ClusterInv'
    BY ClusterStep
  <1> QED BY <1>1, <1>2, PTL DEF ClusterSpec

\* Of all generators there have ever been, over processes that crash and servers
\* that restart, no two issue the same uid ("Get a unique ID"), unless one of them
\* issued it after its afterPropertiesSet() threw "Worker id exceeds the max"; and
\* what one issues before it has its worker id is the uid of no initialised one.
THEOREM UidsAreUniqueInTheCluster ==
  ASSUME SessionsSupported
  PROVE  ClusterSpec => []UniqueInTheCluster
  <1>1. ClusterInv => UniqueInTheCluster
    BY DEF ClusterInv, IssuedOnce, UniqueInTheCluster
  <1> QED BY <1>1, ClusterInvariant, PTL

\* Every variable of the cluster, and of the assigner in it, has its type.
THEOREM ClusterTypeCorrect ==
  ASSUME SessionsSupported
  PROVE  ClusterSpec => []ClusterTypeOK
  <1>1. ClusterInv => ClusterTypeOK
    BY DEF ClusterInv
  <1> QED BY <1>1, ClusterInvariant, PTL
=============================================================================
