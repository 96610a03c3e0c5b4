------------------------------ MODULE Storage ------------------------------
(***************************************************************************)
(* The run database (storage.py): several Storage objects, each with one   *)
(* SQLite connection, usually in processes of their own, on one file.      *)
(*                                                                         *)
(* Python's sqlite3 begins a transaction before the first INSERT, and ends *)
(* it only at commit() or when the connection is closed: a save_run that   *)
(* raises leaves it open.  SQLite locks the whole file: a statement reads  *)
(* under SHARED, an INSERT needs RESERVED, which one connection can hold,  *)
(* and a commit needs the file for itself; a commit that has to give up    *)
(* keeps PENDING, which lets no new reader in.  A statement that cannot    *)
(* have its lock within the busy timeout raises OperationalError.          *)
(***************************************************************************)
EXTENDS Integers, Sequences

CONSTANTS
  Client,    \* the Storage objects
  Counts,    \* the numbers of iterations of the runs that are saved
  MaxSaves,  \* bound: the number of save_run calls
  None       \* Python's None

ASSUME StorageAssumption ==
  /\ Counts \subseteq Nat \ {0}
  /\ MaxSaves \in Nat

VARIABLES
  pc,        \* what the client does next: "closed" | "create runs" |
             \* "create iterations" | "idle" | "insert run" |
             \* "insert iterations" | "commit" | "select iterations"
  lock,      \* "none" | "shared" | "reserved" | "pending"
  in_transaction,
  rows,      \* the runs of the open transaction
  job,       \* the run a client is saving
  run_id,    \* save_run's local: cursor.lastrowid
  run_row,   \* get_run's local: the id asked for and its row
  record,    \* what get_run last returned
  file,      \* the committed runs: the index is the id
  tables,    \* how many of the two tables of _SCHEMA the file has
  saves,     \* history: the save_run calls made so far
  failed,    \* history: the runs whose save_run raised
  returned,  \* history: the runs whose save_run returned, and their ids
  spoilt     \* history: the clients that have seen a save_run raise since
             \* they opened the file

connection == <<lock, in_transaction, rows>>
locals     == <<job, run_id, run_row, record>>
history    == <<saves, failed, returned, spoilt>>
vars       == <<pc, connection, locals, file, tables, history>>

Run == [run : 1..MaxSaves, iteration_count : Counts]

\* A run's row of agent_runs, and how many rows it has in agent_iterations:
\* they are numbered from 1.
Row == [run : 1..MaxSaves, iteration_count : Counts, iterations : Nat]

Found == [id : Nat \ {0}, row : Row]

Busy == {"create runs", "create iterations", "insert run", "insert iterations",
         "commit", "select iterations"}

TypeOK ==
  /\ pc \in [Client -> Busy \cup {"closed", "idle"}]
  /\ lock \in [Client -> {"none", "shared", "reserved", "pending"}]
  /\ in_transaction \in [Client -> BOOLEAN]
  /\ rows \in [Client -> Seq(Row)]
  /\ job \in [Client -> Run \cup {None}]
  /\ run_id \in [Client -> Nat]
  /\ run_row \in [Client -> Found \cup {None}]
  /\ record \in [Client -> Found \cup {None}]
  /\ file \in Seq(Row)
  /\ tables \in 0..2
  /\ saves \in 0..MaxSaves
  /\ failed \subseteq 1..MaxSaves
  /\ returned \subseteq [id : Nat, job : Run]
  /\ spoilt \subseteq Client

-----------------------------------------------------------------------------
(***************************************************************************)
(* SQLite: who may do what.                                                *)
(***************************************************************************)
Others(c) == Client \ {c}

Readable(c)  == lock[c] # "none" \/ \A d \in Others(c) : lock[d] # "pending"
Writable(c)  == \A d \in Others(c) : lock[d] \notin {"reserved", "pending"}
Exclusive(c) == \A d \in Others(c) : lock[d] = "none"

\* The lock an INSERT ends up with.
WriteLock(c) == IF lock[c] = "pending" THEN "pending" ELSE "reserved"

ReadBegins(c) ==   \* mutant: a SELECT begins a transaction too
  /\ Readable(c)
  /\ lock' = [lock EXCEPT ![c] = IF @ = "none" THEN "shared" ELSE @]
  /\ in_transaction' = [in_transaction EXCEPT ![c] = TRUE]
  /\ UNCHANGED rows

\* A SELECT gives its lock back, unless a transaction is open.
Read(c) ==
  /\ Readable(c)
  /\ lock' = [lock EXCEPT ![c] = IF in_transaction[c] /\ @ = "none" THEN "shared" ELSE @]
  /\ UNCHANGED <<in_transaction, rows>>

\* The transaction is over, and with it the rows that were not committed.
Rollback(c) ==
  /\ lock' = [lock EXCEPT ![c] = "none"]
  /\ in_transaction' = [in_transaction EXCEPT ![c] = FALSE]
  /\ rows' = [rows EXCEPT ![c] = <<>>]

\* A statement raises, as locks[c] may show; SQLite itself rolls back after
\* some errors (a full disk), never after "database is locked".
StatementRaises(c, locks) ==
  \/ /\ lock' \in {[lock EXCEPT ![c] = l] : l \in locks}
     /\ in_transaction' = [in_transaction EXCEPT ![c] = TRUE]
     /\ UNCHANGED rows
  \/ Rollback(c)

\* What the connection sees: the file, and its own transaction.
View(c) == file \o rows[c]

-----------------------------------------------------------------------------
Init ==
  /\ pc = [c \in Client |-> "closed"]
  /\ lock = [c \in Client |-> "none"]
  /\ in_transaction = [c \in Client |-> FALSE]
  /\ rows = [c \in Client |-> <<>>]
  /\ job = [c \in Client |-> None]
  /\ run_id = [c \in Client |-> 0]
  /\ run_row = [c \in Client |-> None]
  /\ record = [c \in Client |-> None]
  /\ file = <<>> /\ tables = 0
  /\ saves = 0 /\ failed = {} /\ returned = {} /\ spoilt = {}

GoTo(c, l) == pc' = [pc EXCEPT ![c] = l]

(***************************************************************************)
(* Storage.__init__: connect, then two CREATE TABLE IF NOT EXISTS, each a  *)
(* transaction of its own.                                                 *)
(***************************************************************************)
Open(c) ==
  /\ pc[c] = "closed" /\ GoTo(c, "create runs")
  /\ UNCHANGED <<connection, locals, file, tables, history>>

CreateTable(c, k) ==
  /\ IF tables < k THEN Exclusive(c) /\ tables' = k ELSE Readable(c) /\ UNCHANGED tables
  /\ UNCHANGED <<connection, locals, file, history>>

SkipIfRunsExist(c) ==   \* mutant: the schema is there when its first table is
  /\ pc[c] = "create runs"
  /\ \/ tables = 0 /\ GoTo(c, "create iterations") /\ CreateTable(c, 1)
     \/ tables > 0 /\ GoTo(c, "idle") /\ CreateTable(c, 1)

CreateRuns(c) ==
  pc[c] = "create runs" /\ GoTo(c, "create iterations") /\ CreateTable(c, 1)

CreateIterations(c) ==
  pc[c] = "create iterations" /\ GoTo(c, "idle") /\ CreateTable(c, 2)

\* A connection is gone, and everything its process knew.
Disconnected(c) ==
  /\ GoTo(c, "closed") /\ Rollback(c)
  /\ job' = [job EXCEPT ![c] = None] /\ run_id' = [run_id EXCEPT ![c] = 0]
  /\ run_row' = [run_row EXCEPT ![c] = None] /\ record' = [record EXCEPT ![c] = None]
  /\ spoilt' = spoilt \ {c}
  /\ UNCHANGED <<file, tables, saves, failed, returned>>

\* A statement of the schema raises; there is no Storage object then.
OpenRaises(c) == pc[c] \in {"create runs", "create iterations"} /\ Disconnected(c)

\* Storage.close.
Close(c) == pc[c] = "idle" /\ Disconnected(c)

\* The process dies in the middle of a call.
Crash(c) == pc[c] \in Busy /\ Disconnected(c)

-----------------------------------------------------------------------------
(***************************************************************************)
(* Storage.save_run.                                                       *)
(***************************************************************************)
SaveRun(c, n) ==
  /\ pc[c] = "idle" /\ saves < MaxSaves
  /\ GoTo(c, "insert run") /\ saves' = saves + 1
  /\ job' = [job EXCEPT ![c] = [run |-> saves + 1, iteration_count |-> n]]
  /\ UNCHANGED <<connection, run_id, run_row, record, file, tables, failed, returned, spoilt>>

NewRow(c) == [run |-> job[c].run, iteration_count |-> job[c].iteration_count, iterations |-> 0]

\* AUTOINCREMENT: one more than the last id the connection sees.
NextId(c) == Len(View(c)) + 1

\* The INSERT of agent_runs, which begins the transaction unless one is open.
InsertRun(c) ==
  /\ pc[c] = "insert run" /\ Writable(c)
  /\ GoTo(c, "insert iterations")
  /\ lock' = [lock EXCEPT ![c] = WriteLock(c)]
  /\ in_transaction' = [in_transaction EXCEPT ![c] = TRUE]
  /\ rows' = [rows EXCEPT ![c] = Append(@, NewRow(c))]
  /\ run_id' = [run_id EXCEPT ![c] = NextId(c)]
  /\ UNCHANGED <<job, run_row, record, file, tables, history>>

LastRow(c) == rows[c][Len(rows[c])]

\* The INSERT of the next row of agent_iterations.
InsertIteration(c) ==
  /\ pc[c] = "insert iterations"
  /\ LastRow(c).iterations < LastRow(c).iteration_count
  /\ rows' = [rows EXCEPT ![c][Len(rows[c])].iterations = @ + 1]
  /\ UNCHANGED <<pc, lock, in_transaction, locals, file, tables, history>>

\* The loop over the iterations is left.
IterationsInserted(c) ==
  /\ pc[c] = "insert iterations"
  /\ LastRow(c).iterations = LastRow(c).iteration_count
  /\ GoTo(c, "commit")
  /\ UNCHANGED <<connection, locals, file, tables, history>>

\* A save_run is over.
SaveEnds(c) ==
  /\ GoTo(c, "idle") /\ job' = [job EXCEPT ![c] = None]
  /\ run_id' = [run_id EXCEPT ![c] = 0]
  /\ UNCHANGED <<run_row, record, tables, saves>>

ReturnUncommitted(c) ==   \* mutant: save_run forgets to commit
  /\ pc[c] = "commit" /\ SaveEnds(c)
  /\ returned' = returned \cup {[id |-> run_id[c], job |-> job[c]]}
  /\ UNCHANGED <<connection, file, failed, spoilt>>

\* The commit, of everything the transaction holds, and the return.
Commit(c) ==
  /\ pc[c] = "commit" /\ Exclusive(c) /\ SaveEnds(c)
  /\ file' = View(c) /\ Rollback(c)
  /\ returned' = returned \cup {[id |-> run_id[c], job |-> job[c]]}
  /\ UNCHANGED <<failed, spoilt>>

CommitAnyway(c, locks) ==   \* mutant: finally: self._conn.commit()
  /\ SaveEnds(c) /\ Exclusive(c)
  /\ file' = View(c) /\ Rollback(c)
  /\ failed' = failed \cup {job[c].run} /\ spoilt' = spoilt \cup {c}
  /\ UNCHANGED returned

\* The exception of a statement leaves save_run, which does not roll back.
SaveFails(c, locks) ==
  /\ StatementRaises(c, locks) /\ SaveEnds(c)
  /\ failed' = failed \cup {job[c].run} /\ spoilt' = spoilt \cup {c}
  /\ UNCHANGED <<file, returned>>

WaitForWriter(c) ==   \* mutant: no busy timeout
  pc[c] = "insert run" /\ Writable(c) /\ SaveFails(c, {lock[c], WriteLock(c)})

\* Another connection writes until the timeout, or the statement fails.
InsertRunRaises(c) ==
  pc[c] = "insert run" /\ SaveFails(c, {lock[c]} \cup (IF Writable(c) THEN {WriteLock(c)} ELSE {}))

SkipIteration(c) ==   \* mutant: the exception is caught, and the run committed
  /\ pc[c] = "insert iterations" /\ LastRow(c).iterations < LastRow(c).iteration_count
  /\ GoTo(c, "commit")
  /\ UNCHANGED <<connection, locals, file, tables, history>>

\* A row cannot be written, or cannot be built (model_dump_json, encoding).
InsertIterationRaises(c) ==
  /\ pc[c] = "insert iterations" /\ LastRow(c).iterations < LastRow(c).iteration_count
  /\ SaveFails(c, {lock[c]})

\* Another connection reads until the timeout, or the disk fails.
CommitRaises(c) == pc[c] = "commit" /\ SaveFails(c, {lock[c], "pending"})

-----------------------------------------------------------------------------
(***************************************************************************)
(* The readers.  A SELECT that raises because the file is locked ends the  *)
(* call and changes nothing.                                               *)
(***************************************************************************)
NotFound(c, id) ==
  /\ id > Len(View(c)) /\ UNCHANGED <<pc, run_row>>
  /\ record' = [record EXCEPT ![c] = None]

\* get_run: the SELECT on agent_runs.
GetRun(c, id) ==
  /\ pc[c] = "idle" /\ Read(c)
  /\ \/ NotFound(c, id)
     \/ /\ id <= Len(View(c)) /\ GoTo(c, "select iterations")
        /\ run_row' = [run_row EXCEPT ![c] = [id |-> id, row |-> View(c)[id]]]
        /\ UNCHANGED record
  /\ UNCHANGED <<job, run_id, file, tables, history>>

\* The SELECT on agent_iterations, which other connections may have written
\* to since, and the return.
GetIterations(c) ==
  /\ pc[c] = "select iterations" /\ GoTo(c, "idle") /\ Read(c)
  /\ record' = [record EXCEPT ![c] =
       [run_row[c] EXCEPT !.row.iterations = View(c)[run_row[c].id].iterations]]
  /\ run_row' = [run_row EXCEPT ![c] = None]
  /\ UNCHANGED <<job, run_id, file, tables, history>>

GetIterationsRaises(c) ==
  /\ pc[c] = "select iterations" /\ ~ Readable(c) /\ GoTo(c, "idle")
  /\ run_row' = [run_row EXCEPT ![c] = None]
  /\ UNCHANGED <<connection, job, run_id, record, file, tables, history>>

\* list_runs: one SELECT, of which only the lock stays.
ListRuns(c) ==
  /\ pc[c] = "idle" /\ Read(c)
  /\ UNCHANGED <<pc, locals, file, tables, history>>

-----------------------------------------------------------------------------
\* The steps of a call that is under way.
Work(c) ==
  \/ CreateRuns(c) \/ CreateIterations(c) \/ OpenRaises(c)
  \/ InsertRun(c) \/ InsertIteration(c) \/ IterationsInserted(c) \/ Commit(c)
  \/ InsertRunRaises(c) \/ InsertIterationRaises(c) \/ CommitRaises(c)
  \/ GetIterations(c) \/ GetIterationsRaises(c)

\* A client may call, close or die whenever it likes.
Next == \E c \in Client :
  \/ Open(c) \/ Close(c) \/ Crash(c)
  \/ \E n \in Counts : SaveRun(c, n)
  \/ \E id \in 1..(MaxSaves + 1) : GetRun(c, id)
  \/ ListRuns(c)
  \/ Work(c)

\* A call that has begun is a thread that runs until it is done, and no
\* statement waits longer than the busy timeout.
Spec == Init /\ [][Next]_vars /\ \A c \in Client : WF_vars(Work(c))

-----------------------------------------------------------------------------
(***************************************************************************)
(* Properties.                                                             *)
(***************************************************************************)
\* A run that save_run returned is in the file for good, under the id it
\* returned, with all its iterations: whoever else writes, fails, closes or
\* crashes, and although ids of transactions rolled back are used again.
SavedForGood ==
  \A s \in returned :
    /\ s.id \in 1..Len(file)
    /\ file[s.id] = [run |-> s.job.run, iteration_count |-> s.job.iteration_count,
                     iterations |-> s.job.iteration_count]

\* "agent_runs / agent_iterations map onto RunResult / Iteration": a run in
\* the file without all its iterations is one whose save_run raised, and whose
\* rows a later save_run on the same connection committed with its own.
WholeUnlessFailed ==
  \A id \in 1..Len(file) :
    file[id].iterations # file[id].iteration_count => file[id].run \in failed

\* What get_run returned stays true: the run is in the file, as it was returned
\* and for good, although get_run reads the two tables in two statements.  On
\* a connection on which a save_run raised it may also be one that is not
\* committed, and that get_run does not tell from the others: then it is the
\* run of a save_run that raised, and never one that is just being saved.
RecordCommitted ==
  \A c \in Client :
    record[c] # None =>
      \/ record[c].id \in 1..Len(file) /\ file[record[c].id] = record[c].row
      \/ c \in spoilt /\ record[c].row.run \in failed

\* A client that is not in a call keeps no lock and no rows, so that it blocks
\* nobody and loses nothing, unless a save_run of its connection raised: then
\* it may block every other until it saves a run or closes, but what it keeps
\* are runs whose save_run raised, none that a caller believes to be saved.
IdleHoldsNothing ==
  \A c \in Client :
    pc[c] = "idle" =>
      /\ c \notin spoilt => lock[c] = "none" /\ rows[c] = <<>>
      /\ \A k \in 1..Len(rows[c]) : rows[c][k].run \in failed

\* An open Storage finds both tables, whoever made them: two clients may
\* create them at once, and one may die between the two.
TablesThere ==
  \A c \in Client :
    pc[c] \notin {"closed", "create runs", "create iterations"} => tables = 2

Table == INSTANCE RunTable

\* Whatever the statements of several connections, their locks, failures and
\* crashes, save_run is atomic: it adds its run to the file in one step or
\* raises and adds nothing, although what it leaves behind may come in with a
\* later run of its connection; and no run gets in twice.
KeepsTable == Table!Spec

\* A call returns or raises (or its process dies), even while another
\* connection keeps a lock forever.
CallsEnd == \A c \in Client : pc[c] \in Busy ~> pc[c] \in {"idle", "closed"}
=============================================================================
