-------------------------- MODULE WorkerIdAssigner --------------------------
(***************************************************************************)
(* worker/disposable-worker-id-assigner.ts over dao/sql-worker-node-dao.ts *)
(* and the two SqlSessions, db/sqlite-sql-session.ts and                   *)
(* db/mysql-sql-session.ts: every start of a generator inserts a row into  *)
(* WORKER_NODE, which names its machine (WorkerNode), and takes its        *)
(* auto-increment key as worker id.                                        *)
(*                                                                         *)
(* A session is one connection of one process; several generators of a     *)
(* process may share it.  Their calls interleave at the awaits: with MySQL *)
(* around every command, with SQLite only between INSERT and COMMIT.  It   *)
(* may be closed meanwhile, and is opened as DataSource says.              *)
(*                                                                         *)
(* The database is external: transactions per connection, BEGIN commits an *)
(* open one (MySQL) or fails (SQLite), the key counter survives a rollback *)
(* (InnoDB) or is rolled back with the insert (SQLite AUTOINCREMENT), and  *)
(* SQLite admits one writer at a time.  A MySQL server that restarts drops *)
(* every connection, and may take its counter from the rows that are left. *)
(***************************************************************************)
EXTENDS WorkerNode, Functions

CONSTANTS
  Callers,     \* generators calling assignWorkerId()
  Sessions,
  Deployments, \* [files, sessionOf, machines]: the properties files, which
               \* session a caller uses, where processes may be started
  Stamps,      \* the ports of actual machines
  FirstKey,    \* the key counter when we begin: the table is a shared one
  MaxKey       \* bound on the keys handed out

ASSUME AssignerAssumption ==
  /\ \A d \in Deployments : d.sessionOf \in [Callers -> Sessions]
  /\ FirstKey \in Nat \ {0}
  /\ MaxKey \in Nat /\ FirstKey <= MaxKey + 1

VARIABLES
  deployment, \* fixed: the dialect, the session of each caller, the machines
  machine,    \* session -> what its process was started on
  at,         \* caller -> where its assignWorkerId() is
  entity,     \* caller -> workerNodeEntity, before it has its id
  key,        \* caller -> generatedKey of its insert
  connected,  \* session -> its connection is open
  inTxn,      \* session -> a transaction is open
  pending,    \* session -> rows inserted by the open transaction
  committed,  \* the rows of WORKER_NODE
  nextKey,    \* the auto-increment counter
  assigned    \* history: the entities whose id was returned, in order

db == <<connected, inTxn, pending, committed, nextKey>>
process == <<deployment, machine>>
call == <<at, entity, key, assigned>>
vars == <<process, call, db>>

Dialect == deployment.dialect
SessionOf == deployment.sessionOf
SessionsInUse == Range(SessionOf)

Places == {"idle", "inserting", "committing", "rollingBack", "returned", "thrown"}
Keys == FirstKey .. MaxKey
StartedOn == {m \in deployment.machines : Starts(m)}
Entities == {buildWorkerNode(m, stamp) : m \in StartedOn, stamp \in Stamps}
None == [type |-> 0, hostName |-> Blank, port |-> Blank]

\* A row, or an entity that has been given its id.
Row(id, node) == [node |-> node, id |-> id]
Rows == {Row(id, node) : id \in Keys, node \in Entities}

\* The deployments whose sessions open on a table that outlives its processes.
Deployed ==
  {[dialect |-> openSqlSession(loadProperties(d.files)),
    sessionOf |-> d.sessionOf, machines |-> d.machines] : d \in Deployments}
SharedTable == {d \in Deployed : d.dialect \in {"sqlite", "mysql"}}

TypeOK ==
  /\ Dialect \in {"sqlite", "mysql"}
  /\ at \in [Callers -> Places]
  /\ machine \in [Sessions -> StartedOn]
  /\ entity \in [Callers -> Entities \union {None}]
  /\ key \in [Callers -> Keys \union {0}]
  /\ {connected, inTxn} \subseteq [Sessions -> BOOLEAN]
  /\ pending \in [Sessions -> SUBSET Rows]
  /\ committed \subseteq Rows
  /\ nextKey \in FirstKey .. MaxKey + 1
  /\ assigned \in Seq(Rows)

Init ==
  /\ deployment \in SharedTable
  /\ at = [c \in Callers |-> "idle"]
  /\ machine \in [Sessions -> StartedOn]
  /\ entity = [c \in Callers |-> None]
  /\ key = [c \in Callers |-> 0]
  /\ connected = [s \in Sessions |-> TRUE]
  /\ inTxn = [s \in Sessions |-> FALSE]
  /\ pending = [s \in Sessions |-> {}]
  /\ committed = {}
  /\ nextKey = FirstKey
  /\ assigned = <<>>

Goto(c, place) == at' = [at EXCEPT ![c] = place]

Return(c) ==
  /\ Goto(c, "returned")
  /\ assigned' = Append(assigned, Row(key[c], entity[c]))
  /\ entity' = [entity EXCEPT ![c] = None]
  /\ UNCHANGED key

\* The entity is built before the transaction begins.
BuildWorkerNode(c) ==
  \E stamp \in Stamps :
    entity' = [entity EXCEPT ![c] = buildWorkerNode(machine[SessionOf[c]], stamp)]

-----------------------------------------------------------------------------
(* The database, per connection *)

\* Commit or roll back what is pending on s, leaving a transaction open or not.
CommitPending(s, open) ==
  /\ committed' = committed \union pending[s]
  /\ pending' = [pending EXCEPT ![s] = {}]
  /\ inTxn' = [inTxn EXCEPT ![s] = open]

\* SQLite restores the counter with the rows.
KeyAfterRollback(s) ==
  IF Dialect = "sqlite" /\ pending[s] # {}
    THEN Min({row.id : row \in pending[s]})
    ELSE nextKey

RollbackPending(s) ==
  /\ pending' = [pending EXCEPT ![s] = {}]
  /\ inTxn' = [inTxn EXCEPT ![s] = FALSE]
  /\ nextKey' = KeyAfterRollback(s)
  /\ UNCHANGED committed

\* Mutants: the key is not reported; it is read before the insert; the insert
\* runs outside the transaction.
InsertRowUnreported(c, s, begun) ==
  /\ nextKey <= MaxKey
  /\ nextKey' = nextKey + 1
  /\ pending' = [pending EXCEPT ![s] = @ \union {Row(nextKey, entity'[c])}]
  /\ UNCHANGED <<key, committed>>
InsertRowStale(c, s, begun) ==
  /\ nextKey <= MaxKey
  /\ key' = [key EXCEPT ![c] = IF nextKey = FirstKey THEN FirstKey ELSE nextKey - 1]
  /\ nextKey' = nextKey + 1
  /\ pending' = [pending EXCEPT ![s] = @ \union {Row(nextKey, entity'[c])}]
  /\ UNCHANGED committed
InsertRowAutocommit(c, s, begun) ==
  /\ nextKey <= MaxKey
  /\ key' = [key EXCEPT ![c] = nextKey]
  /\ nextKey' = nextKey + 1
  /\ committed' = committed \union {Row(nextKey, entity'[c])}
  /\ UNCHANGED pending

\* INSERT INTO WORKER_NODE: the driver returns the generated key.
InsertRow(c, s, begun) ==
  LET row == Row(nextKey, entity'[c])
  IN  /\ nextKey <= MaxKey
      /\ key' = [key EXCEPT ![c] = nextKey]
      /\ nextKey' = nextKey + 1
      /\ IF begun
           THEN /\ pending' = [pending EXCEPT ![s] = @ \union {row}]
                /\ UNCHANGED committed
           ELSE /\ committed' = committed \union {row}
                /\ UNCHANGED pending

-----------------------------------------------------------------------------
(* MysqlSqlSession.transaction(): an await around every command *)

MysqlBegin(c) ==
  /\ Dialect = "mysql"
  /\ at[c] = "idle"
  /\ connected[SessionOf[c]]
  /\ BuildWorkerNode(c)
  /\ CommitPending(SessionOf[c], TRUE)
  /\ Goto(c, "inserting")
  /\ UNCHANGED <<connected, key, nextKey, assigned>>

\* beginTransaction() is outside the try: no rollback.
MysqlBeginFails(c) ==
  /\ Dialect = "mysql"
  /\ at[c] = "idle"
  /\ Goto(c, "thrown")
  /\ UNCHANGED <<entity, key, db, assigned>>

MysqlInsert(c) ==
  /\ Dialect = "mysql"
  /\ at[c] = "inserting"
  /\ connected[SessionOf[c]]
  /\ UNCHANGED <<entity, connected, inTxn, assigned>>
  /\ InsertRow(c, SessionOf[c], inTxn[SessionOf[c]])
  /\ Goto(c, "committing")

\* The insert, or the commit, is refused, or the connection is gone.
MysqlCommandFails(c) ==
  /\ Dialect = "mysql"
  /\ at[c] \in {"inserting", "committing"}
  /\ Goto(c, "rollingBack")
  /\ UNCHANGED <<entity, key, db, assigned>>

\* Mutant: commit() is not called.
MysqlReturnsUncommitted(c) ==
  /\ Dialect = "mysql"
  /\ at[c] = "committing"
  /\ Return(c)
  /\ UNCHANGED db

MysqlCommit(c) ==
  /\ Dialect = "mysql"
  /\ at[c] = "committing"
  /\ connected[SessionOf[c]]
  /\ CommitPending(SessionOf[c], FALSE)
  /\ Return(c)
  /\ UNCHANGED <<connected, nextKey>>

\* The commit is done, but its answer is lost: the caller rolls back nothing
\* and throws, and its row stays.
MysqlCommitUnanswered(c) ==
  /\ Dialect = "mysql"
  /\ at[c] = "committing"
  /\ connected[SessionOf[c]]
  /\ CommitPending(SessionOf[c], FALSE)
  /\ Goto(c, "rollingBack")
  /\ UNCHANGED <<entity, key, connected, nextKey, assigned>>

MysqlRollback(c) ==
  /\ at[c] = "rollingBack"
  /\ RollbackPending(SessionOf[c])
  /\ Goto(c, "thrown")
  /\ UNCHANGED <<entity, key, connected, assigned>>

\* rollback() is refused as well: the transaction stays open, and the next
\* BEGIN on the session commits what it holds.
MysqlRollbackFails(c) ==
  /\ at[c] = "rollingBack"
  /\ Goto(c, "thrown")
  /\ UNCHANGED <<entity, key, db, assigned>>

-----------------------------------------------------------------------------
(* SqliteSqlSession.transaction(): BEGIN and INSERT run without a break *)

WriteLocked(s) == \E t \in Sessions \ {s} : pending[t] # {}

SqliteBeginAndInsert(c) ==
  /\ Dialect = "sqlite"
  /\ at[c] = "idle"
  /\ connected[SessionOf[c]]
  /\ ~inTxn[SessionOf[c]]
  /\ ~WriteLocked(SessionOf[c])
  /\ BuildWorkerNode(c)
  /\ InsertRow(c, SessionOf[c], TRUE)
  /\ inTxn' = [inTxn EXCEPT ![SessionOf[c]] = TRUE]
  /\ Goto(c, "committing")
  /\ UNCHANGED <<connected, assigned>>

\* "cannot start a transaction within a transaction", or the database is not
\* open: thrown outside the try, and what another caller began is left alone.
\* Or the insert is refused (the file is locked, or any other error), begun and
\* rolled back in one go.
SqliteBeginOrInsertFails(c) ==
  /\ Dialect = "sqlite"
  /\ at[c] = "idle"
  /\ Goto(c, "thrown")
  /\ UNCHANGED <<entity, key, db, assigned>>

SqliteCommit(c) ==
  /\ Dialect = "sqlite"
  /\ at[c] = "committing"
  /\ connected[SessionOf[c]]
  /\ CommitPending(SessionOf[c], FALSE)
  /\ Return(c)
  /\ UNCHANGED <<connected, nextKey>>

\* On a database closed meanwhile ROLLBACK fails as well, with nothing to undo.
SqliteCommitFails(c) ==
  /\ Dialect = "sqlite"
  /\ at[c] = "committing"
  /\ RollbackPending(SessionOf[c])
  /\ Goto(c, "thrown")
  /\ UNCHANGED <<entity, key, connected, assigned>>

-----------------------------------------------------------------------------
(* SqlWorkerNodeDAO.getWorkerNodeByHostPort(): changes nothing *)

RowsByHostPort(host, port) ==
  {row \in committed : row.node.hostName = host /\ row.node.port = port}

\* The first of the rows, in no order asked for: any of them.
selectOne(rows) == IF rows = {} THEN {Row(0, None)} ELSE rows

getWorkerNodeByHostPort(host, port) == selectOne(RowsByHostPort(host, port))

-----------------------------------------------------------------------------
BackToIdle(callers) ==
  /\ at' = [c \in Callers |-> IF c \in callers THEN "idle" ELSE at[c]]
  /\ entity' = [c \in Callers |-> IF c \in callers THEN None ELSE entity[c]]
  /\ key' = [c \in Callers |-> IF c \in callers THEN 0 ELSE key[c]]

\* assignWorkerId() is called again: a retry, or the next start.
CallAgain(c) ==
  /\ at[c] \in {"returned", "thrown"}
  /\ BackToIdle({c})
  /\ UNCHANGED <<db, assigned>>

\* close(): the server rolls back what was open; a caller in the middle of its
\* transaction finds out with its next command.
Close(s) ==
  /\ connected[s]
  /\ connected' = [connected EXCEPT ![s] = FALSE]
  /\ RollbackPending(s)
  /\ UNCHANGED <<process, call>>

\* A new session in the place of one that is closed: none reconnects by itself.
Reopen(s) ==
  /\ ~connected[s]
  /\ \A c \in Callers :
       SessionOf[c] = s => at[c] \notin {"inserting", "committing", "rollingBack"}
  /\ connected' = [connected EXCEPT ![s] = TRUE]
  /\ UNCHANGED <<process, call, inTxn, pending, committed, nextKey>>

\* The process of session s dies: the server rolls back what was open.  It is
\* started again, perhaps elsewhere.
Crash(s) ==
  /\ \E m \in StartedOn : machine' = [machine EXCEPT ![s] = m]
  /\ BackToIdle({c \in Callers : SessionOf[c] = s})
  /\ connected' = [connected EXCEPT ![s] = TRUE]
  /\ RollbackPending(s)
  /\ UNCHANGED <<deployment, assigned>>

\* The counter is kept (MySQL 8), or follows the last row (before).
ServerRestarts ==
  /\ Dialect = "mysql"
  /\ connected' = [s \in Sessions |-> FALSE]
  /\ inTxn' = [s \in Sessions |-> FALSE]
  /\ pending' = [s \in Sessions |-> {}]
  /\ nextKey' \in {nextKey, Max({row.id : row \in committed} \union {FirstKey - 1}) + 1}
  /\ UNCHANGED <<process, call, committed>>

CallerStep(c) ==
  \/ MysqlBegin(c) \/ MysqlBeginFails(c) \/ MysqlInsert(c)
  \/ MysqlCommandFails(c) \/ MysqlCommit(c)
  \/ MysqlCommitUnanswered(c) \/ MysqlRollback(c) \/ MysqlRollbackFails(c)
  \/ SqliteBeginAndInsert(c) \/ SqliteBeginOrInsertFails(c)
  \/ SqliteCommit(c) \/ SqliteCommitFails(c)

Next ==
  \/ \E c \in Callers : (CallerStep(c) \/ CallAgain(c)) /\ UNCHANGED process
  \/ \E s \in SessionsInUse : Close(s) \/ Reopen(s) \/ Crash(s)
  \/ ServerRestarts

Spec == Init /\ [][Next]_vars

-----------------------------------------------------------------------------
(* Properties *)

WorkerIds == {entry.id : entry \in Range(assigned)}

\* No worker id is assigned twice, over all processes, failures and restarts:
\* what the uniqueness of uids across nodes rests on.
DistinctWorkerIds ==
  \A i, j \in DOMAIN assigned : assigned[i].id = assigned[j].id => i = j

\* "committing on return": the row of every assigned worker id is in the table,
\* and a look-up by the host and port of its node may find it, though the
\* process has since been started elsewhere.
AssignedIdsAreStored ==
  \A entry \in Range(assigned) :
    entry \in getWorkerNodeByHostPort(entry.node.hostName, entry.node.port)

\* "rolling back on throw": a caller whose transaction failed leaves no row,
\* not even one of another caller of its session. (SQLite; with MySQL a lost
\* answer to the commit, or a refused rollback, leaves the row.)
ThrownLeavesNoRow ==
  Dialect = "sqlite" => \A row \in committed :
    \/ row.id \in WorkerIds
    \/ \E c \in Callers : key[c] = row.id /\ at[c] # "thrown"

-----------------------------------------------------------------------------
(* What these rest on, of the sessions that are supported *)

\* A MySQL session has one caller.  No line of the code asks for it: transaction()
\* takes callers as they come, and on a connection in a transaction the server
\* commits that one at the next BEGIN.
SessionsSupported ==
  \A d \in SharedTable : d.dialect = "mysql" =>
    \A b, c \in Callers : d.sessionOf[b] = d.sessionOf[c] => b = c

InTable == committed \union UNION {pending[s] : s \in Sessions}

\* Every key is used once, and the counter is ahead of all that are used.
KeysAreUnique ==
  /\ \A r1, r2 \in InTable : r1.id = r2.id => r1 = r2
  /\ \A row \in InTable : row.id < nextKey

\* What is pending belongs to one transaction, of an open connection.
PendingIsApart ==
  /\ \A s \in Sessions : pending[s] \intersect committed = {}
  /\ \A s, t \in Sessions : s # t => pending[s] \intersect pending[t] = {}
  /\ \A s \in Sessions : pending[s] # {} => inTxn[s]
  /\ \A s \in Sessions : inTxn[s] => connected[s]

\* SQLite: what is pending is the last row of one writer, so that a rollback
\* takes the counter back behind no other row.
OneWriter ==
  Dialect = "sqlite" =>
    /\ \A s, t \in Sessions : pending[s] # {} /\ pending[t] # {} => s = t
    /\ \A s \in Sessions : \A row \in pending[s] : row.id = nextKey - 1

\* A caller between BEGIN and COMMIT is the only one of its session, its
\* transaction is open, and its row, once inserted, is pending.
InTransaction == {c \in Callers : at[c] \in {"inserting", "committing"}}

CallerInv(c) ==
  /\ at[c] = "inserting" => entity[c] \in Entities
  /\ Dialect = "sqlite" => at[c] \notin {"inserting", "rollingBack"}
  /\ connected[SessionOf[c]] =>
       /\ c \in InTransaction => inTxn[SessionOf[c]]
       /\ at[c] = "committing" => Row(key[c], entity[c]) \in pending[SessionOf[c]]

OneCaller ==
  \A b, c \in InTransaction :
    SessionOf[b] = SessionOf[c] /\ connected[SessionOf[c]] => b = c

CallInv == (\A c \in Callers : CallerInv(c)) /\ OneCaller

AssignedInv ==
  /\ \A i \in DOMAIN assigned : assigned[i] \in committed
  /\ DistinctWorkerIds
  /\ Dialect = "sqlite" => \A row \in committed : row.id \in WorkerIds

StoreInv ==
  /\ deployment \in SharedTable
  /\ TypeOK
  /\ KeysAreUnique /\ PendingIsApart /\ OneWriter
  /\ CallInv
  /\ AssignedInv
=============================================================================
