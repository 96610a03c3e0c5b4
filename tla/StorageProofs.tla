--------------------------- MODULE StorageProofs ---------------------------
(***************************************************************************)
(* Proofs about Storage, for any clients and any number of saves.          *)
(***************************************************************************)
EXTENDS Storage, SequenceTheorems, TLAPS

Writer(c) == lock[c] \in {"reserved", "pending"}

Saving(c) == pc[c] \in {"insert iterations", "commit"}

\* One writer at a time, only a writer has rows, and every lock that is kept
\* belongs to a transaction.
LockInv ==
  /\ \A c, d \in Client : Writer(c) /\ Writer(d) => c = d
  /\ \A c \in Client : rows[c] # <<>> => Writer(c)
  /\ \A c \in Client : lock[c] # "none" => in_transaction[c]

\* What a call knows between two of its statements.
CallOf(c) ==
  /\ pc[c] = "insert run" \/ Saving(c) => job[c] \in Run
  /\ Saving(c) =>
       /\ rows[c] # <<>>
       /\ run_id[c] = Len(file) + Len(rows[c])
       /\ LastRow(c).run = job[c].run
       /\ LastRow(c).iteration_count = job[c].iteration_count
       /\ LastRow(c).iterations <= LastRow(c).iteration_count
       /\ pc[c] = "commit" => LastRow(c).iterations = LastRow(c).iteration_count
  /\ pc[c] = "select iterations" =>
       run_row[c] \in Found /\ run_row[c].id <= Len(file) + Len(rows[c])

\* A row that waits for a commit without all its iterations is being written,
\* or was given up.
RowsOf(c) ==
  \A k \in 1..Len(rows[c]) :
    rows[c][k].iterations # rows[c][k].iteration_count =>
      rows[c][k].run \in failed \/ (k = Len(rows[c]) /\ Saving(c))

\* A connection on which nothing went wrong has no transaction outside save_run.
CleanOf(c) ==
  c \notin spoilt /\ ~ Saving(c) => lock[c] = "none" /\ ~ in_transaction[c] /\ rows[c] = <<>>

TablesOf(c) ==
  /\ pc[c] = "create iterations" => tables >= 1
  /\ pc[c] \notin {"closed", "create runs", "create iterations"} => tables = 2

CallInv   == \A c \in Client : CallOf(c)
RowsInv   == \A c \in Client : RowsOf(c)
CleanInv  == \A c \in Client : CleanOf(c)
TablesInv == \A c \in Client : TablesOf(c)

IInv ==
  /\ TypeOK /\ LockInv /\ CallInv /\ RowsInv /\ CleanInv /\ TablesInv
  /\ SavedForGood /\ WholeUnlessFailed

-----------------------------------------------------------------------------
(***************************************************************************)
(* Rows, and the sequences of them.                                        *)
(***************************************************************************)
\* What a client sees is the file and then its own rows.
LEMMA ViewProperties ==
  ASSUME TypeOK, NEW c \in Client
  PROVE  /\ View(c) \in Seq(Row)
         /\ Len(View(c)) = Len(file) + Len(rows[c])
         /\ \A k \in 1..Len(file) : View(c)[k] = file[k]
         /\ \A k \in 1..Len(rows[c]) : View(c)[Len(file) + k] = rows[c][k]
         /\ \A k \in 1..Len(View(c)) :
              \/ k \in 1..Len(file) /\ View(c)[k] = file[k]
              \/ \E i \in 1..Len(rows[c]) : k = Len(file) + i /\ View(c)[k] = rows[c][i]
         /\ rows[c] = <<>> => View(c) = file
  <1>1. file \in Seq(Row) /\ rows[c] \in Seq(Row)  BY DEF TypeOK
  <1>2. Len(file) \in Nat /\ Len(rows[c]) \in Nat  BY <1>1, LenProperties
  <1>3. /\ file \o rows[c] \in Seq(Row)
        /\ Len(file \o rows[c]) = Len(file) + Len(rows[c])
        /\ \A i \in 1 .. Len(file) + Len(rows[c]) :
             (file \o rows[c])[i] = IF i <= Len(file) THEN file[i] ELSE rows[c][i - Len(file)]
    BY <1>1, ConcatProperties
  <1>4. rows[c] = <<>> => file \o rows[c] = file  BY <1>1, ConcatEmptySeq
  <1>5. ASSUME NEW k \in 1..Len(View(c)), k \notin 1..Len(file)
        PROVE  /\ k - Len(file) \in 1..Len(rows[c])
               /\ k = Len(file) + (k - Len(file))
               /\ View(c)[k] = rows[c][k - Len(file)]
    BY <1>2, <1>3, <1>5 DEF View
  <1>6. \A k \in 1..Len(View(c)) :
              \/ k \in 1..Len(file) /\ View(c)[k] = file[k]
              \/ \E i \in 1..Len(rows[c]) : k = Len(file) + i /\ View(c)[k] = rows[c][i]
    BY <1>2, <1>3, <1>5 DEF View
  <1>7. /\ \A k \in 1..Len(file) : View(c)[k] = file[k]
        /\ \A k \in 1..Len(rows[c]) : View(c)[Len(file) + k] = rows[c][k]
    BY <1>2, <1>3 DEF View
  <1> QED  BY <1>3, <1>4, <1>6, <1>7 DEF View

\* What InsertIteration does to the rows of its transaction: the last one has
\* one iteration more.
LEMMA Inserted ==
  ASSUME TypeOK, NEW c \in Client, InsertIteration(c), rows[c] # <<>>
  PROVE  /\ rows'[c] \in Seq(Row) /\ Len(rows'[c]) = Len(rows[c]) /\ rows'[c] # <<>>
         /\ \A k \in 1..Len(rows[c]) : k # Len(rows[c]) => rows'[c][k] = rows[c][k]
         /\ rows'[c][Len(rows[c])] =
              [run |-> LastRow(c).run, iteration_count |-> LastRow(c).iteration_count,
               iterations |-> LastRow(c).iterations + 1]
         /\ \A d \in Client \ {c} : rows'[d] = rows[d]
         /\ rows' \in [Client -> Seq(Row)]
  <1> DEFINE n == Len(rows[c])
             new == [rows[c][n] EXCEPT !.iterations = @ + 1]
  <1>1. rows[c] \in Seq(Row)  BY DEF TypeOK
  <1>2. n \in 1..n  BY <1>1, EmptySeq
  <1>3. rows[c][n] \in Row  BY <1>1, <1>2, ElementOfSeq
  <1>4. /\ new \in Row
        /\ new = [run |-> rows[c][n].run, iteration_count |-> rows[c][n].iteration_count,
                  iterations |-> rows[c][n].iterations + 1]
    BY <1>3 DEF Row
  <1>5. rows' = [rows EXCEPT ![c] = [rows[c] EXCEPT ![n] = new]]
    BY <1>1, <1>2, <1>3 DEF InsertIteration, Row, TypeOK
  <1> HIDE DEF new, n
  <1>6. /\ [rows[c] EXCEPT ![n] = new] \in Seq(Row)
        /\ Len([rows[c] EXCEPT ![n] = new]) = Len(rows[c])
        /\ \A j \in 1..Len(rows[c]) : [rows[c] EXCEPT ![n] = new][j] = IF j = n THEN new ELSE rows[c][j]
    BY <1>1, <1>2, <1>4, ExceptSeq DEF n
  <1>7. rows'[c] = [rows[c] EXCEPT ![n] = new]  BY <1>5 DEF TypeOK
  <1>8. rows' \in [Client -> Seq(Row)]  BY <1>5, <1>6 DEF TypeOK
  <1>9. \A d \in Client \ {c} : rows'[d] = rows[d]  BY <1>5 DEF TypeOK
  <1>10. rows'[c] # <<>>  BY <1>1, <1>2, <1>6, <1>7, EmptySeq DEF n
  <1> QED  BY <1>2, <1>4, <1>6, <1>7, <1>8, <1>9, <1>10 DEF n, LastRow

-----------------------------------------------------------------------------
\* A step of Next is one of a client.
Step(c) ==
  \/ Open(c) \/ Close(c) \/ Crash(c)
  \/ \E n \in Counts : SaveRun(c, n)
  \/ \E id \in 1..(MaxSaves + 1) : GetRun(c, id)
  \/ ListRuns(c)
  \/ Work(c)

\* The actions by what they may change: no row and no run but the program
\* counter; everything the client has; its rows; the file; its locals.
Quiet(c) == Open(c) \/ CreateRuns(c) \/ CreateIterations(c)

Leaves(c) == OpenRaises(c) \/ Close(c) \/ Crash(c)

Fails(c) == InsertRunRaises(c) \/ InsertIterationRaises(c) \/ CommitRaises(c)

LEMMA StepIsAction ==
  ASSUME NEW c \in Client, Step(c)
  PROVE  \/ Quiet(c) \/ Leaves(c) \/ Fails(c)
         \/ \E n \in Counts : SaveRun(c, n)
         \/ InsertRun(c) \/ InsertIteration(c) \/ IterationsInserted(c) \/ Commit(c)
         \/ \E id \in 1..(MaxSaves + 1) : GetRun(c, id)
         \/ GetIterations(c) \/ GetIterationsRaises(c) \/ ListRuns(c)
  BY DEF Step, Work, Quiet, Leaves, Fails

\* A save_run that fails keeps the rows of its transaction and a lock that
\* fits them, or SQLite has rolled it back.
KeepsRows(c) ==
  /\ UNCHANGED rows
  /\ in_transaction' = [in_transaction EXCEPT ![c] = TRUE]
  /\ \E l \in {"none", "shared", "reserved", "pending"} :
       /\ lock' = [lock EXCEPT ![c] = l]
       /\ l \in {"reserved", "pending"} => Writer(c) \/ Writable(c)
       /\ Writer(c) => l \in {"reserved", "pending"}

LEMMA FailsIs ==
  ASSUME TypeOK, LockInv, CallInv, NEW c \in Client, Fails(c)
  PROVE  /\ pc[c] = "insert run" \/ Saving(c)
         /\ pc' = [pc EXCEPT ![c] = "idle"] /\ job' = [job EXCEPT ![c] = None]
         /\ run_id' = [run_id EXCEPT ![c] = 0]
         /\ failed' = failed \cup {job[c].run} /\ spoilt' = spoilt \cup {c}
         /\ UNCHANGED <<run_row, record, tables, saves, file, returned>>
         /\ KeepsRows(c) \/ Rollback(c)
  <1>1. lock[c] \in {"none", "shared", "reserved", "pending"}  BY DEF TypeOK
  <1>2. PICK L : SaveFails(c, L) /\ (pc[c] = "insert run" \/ Saving(c))
                 /\ L \subseteq {"none", "shared", "reserved", "pending"}
                 /\ \A l \in L : /\ l \in {"reserved", "pending"} => Writer(c) \/ Writable(c)
                                 /\ Writer(c) => l \in {"reserved", "pending"}
    <2>1. CASE InsertRunRaises(c)
      <3> DEFINE L == {lock[c]} \cup (IF Writable(c) THEN {WriteLock(c)} ELSE {})
      <3>1. SaveFails(c, L) /\ pc[c] = "insert run"  BY <2>1 DEF InsertRunRaises
      <3>2. /\ L \subseteq {"none", "shared", "reserved", "pending"}
            /\ \A l \in L : /\ l \in {"reserved", "pending"} => Writer(c) \/ Writable(c)
                            /\ Writer(c) => l \in {"reserved", "pending"}
        BY <1>1 DEF WriteLock, Writer
      <3> QED  BY <3>1, <3>2
    <2>2. CASE InsertIterationRaises(c)
      <3>1. SaveFails(c, {lock[c]}) /\ Saving(c)  BY <2>2 DEF InsertIterationRaises, Saving
      <3> QED  BY <1>1, <3>1 DEF Writer
    <2>3. CASE CommitRaises(c)
      <3>1. SaveFails(c, {lock[c], "pending"}) /\ Saving(c)  BY <2>3 DEF CommitRaises, Saving
      <3>2. Writer(c)  BY <3>1 DEF LockInv, CallInv, CallOf
      <3> QED  BY <1>1, <3>1, <3>2 DEF Writer
    <2> QED  BY <2>1, <2>2, <2>3 DEF Fails
  <1>3. KeepsRows(c) \/ Rollback(c)
    <2>1. CASE Rollback(c)  BY <2>1
    <2>2. CASE ~ Rollback(c)
      <3>1. /\ lock' \in {[lock EXCEPT ![c] = l] : l \in L}
            /\ in_transaction' = [in_transaction EXCEPT ![c] = TRUE]
            /\ UNCHANGED rows
        BY <1>2, <2>2 DEF SaveFails, StatementRaises
      <3>2. PICK l \in L : lock' = [lock EXCEPT ![c] = l]  BY <3>1
      <3> QED  BY <1>2, <3>1, <3>2 DEF KeepsRows
    <2> QED  BY <2>1, <2>2
  <1>4. SaveFails(c, L)  BY <1>2
  <1> QED  BY <1>2, <1>3, <1>4 DEF SaveFails, SaveEnds, GoTo

-----------------------------------------------------------------------------
(***************************************************************************)
(* Types.                                                                  *)
(***************************************************************************)
LEMMA TypeStep ==
  ASSUME TypeOK, LockInv, CallInv, NEW c \in Client, Step(c)
  PROVE  TypeOK'
  <1>1. CASE Quiet(c)
    <2>1. pc' \in [Client -> Busy \cup {"closed", "idle"}]
      BY <1>1 DEF Quiet, Open, CreateRuns, CreateIterations, GoTo, TypeOK, Busy
    <2>3. tables' = tables \/ tables' \in {1, 2}
      BY <1>1 DEF Quiet, Open, CreateRuns, CreateIterations, CreateTable
    <2>4. tables' \in 0..2  BY <2>3 DEF TypeOK
    <2>2. UNCHANGED <<connection, locals, file, history>>
      BY <1>1 DEF Quiet, Open, CreateRuns, CreateIterations, CreateTable
    <2> QED  BY <2>1, <2>2, <2>4 DEF connection, locals, history, TypeOK
  <1>2. CASE Leaves(c)
    <2>1. <<>> \in Seq(Row)  BY EmptySeq
    <2>2. Disconnected(c)  BY <1>2 DEF Leaves, OpenRaises, Close, Crash
    <2> QED  BY <2>1, <2>2 DEF Disconnected, Rollback, GoTo, TypeOK
  <1>3. CASE Fails(c)
    <2>1. <<>> \in Seq(Row)  BY EmptySeq
    <2>2. job[c] \in Run
      BY <1>3, FailsIs DEF CallInv, CallOf
    <2>3. job[c].run \in 1..MaxSaves  BY <2>2 DEF Run
    <2>4. /\ pc' = [pc EXCEPT ![c] = "idle"] /\ job' = [job EXCEPT ![c] = None]
          /\ run_id' = [run_id EXCEPT ![c] = 0]
          /\ failed' = failed \cup {job[c].run} /\ spoilt' = spoilt \cup {c}
          /\ UNCHANGED <<run_row, record, tables, saves, file, returned>>
      BY <1>3, FailsIs
    <2>5. /\ lock' \in [Client -> {"none", "shared", "reserved", "pending"}]
          /\ in_transaction' \in [Client -> BOOLEAN]
          /\ rows' \in [Client -> Seq(Row)]
      <3>1. KeepsRows(c) \/ Rollback(c)  BY <1>3, FailsIs
      <3>2. CASE KeepsRows(c)  BY <3>2 DEF KeepsRows, TypeOK
      <3>3. CASE Rollback(c)  BY <2>1, <3>3 DEF Rollback, TypeOK
      <3> QED  BY <3>1, <3>2, <3>3
    <2> QED  BY <2>3, <2>4, <2>5 DEF TypeOK
  <1>4. ASSUME NEW n \in Counts, SaveRun(c, n)  PROVE TypeOK'
    <2>1. saves \in Nat /\ saves + 1 \in 1..MaxSaves
      <3>1. saves < MaxSaves  BY <1>4 DEF SaveRun
      <3>2. saves \in 0..MaxSaves  BY DEF TypeOK
      <3> QED  BY <3>1, <3>2, StorageAssumption
    <2>2. [run |-> saves + 1, iteration_count |-> n] \in Run  BY <2>1 DEF Run
    <2>3. pc' = [pc EXCEPT ![c] = "insert run"] /\ saves' = saves + 1
      BY <1>4 DEF SaveRun, GoTo
    <2>4. job' \in [Client -> Run \cup {None}]  BY <1>4, <2>2 DEF SaveRun, TypeOK
    <2>5. UNCHANGED <<connection, run_id, run_row, record, file, tables, failed, returned, spoilt>>
      BY <1>4 DEF SaveRun
    <2>6. saves' \in 0..MaxSaves
      <3>1. saves' \in 1..MaxSaves  BY <2>1, <2>3
      <3> QED  BY <3>1
    <2>7. pc' \in [Client -> Busy \cup {"closed", "idle"}]  BY <2>3 DEF TypeOK, Busy
    <2> QED  BY <2>4, <2>5, <2>6, <2>7 DEF connection, TypeOK
  <1>5. CASE InsertRun(c)
    <2>1. job[c] \in Run  BY <1>5 DEF InsertRun, CallInv, CallOf
    <2>2. NewRow(c) \in Row  BY <2>1 DEF NewRow, Run, Row
    <2>3. rows[c] \in Seq(Row)  BY DEF TypeOK
    <2>4. Append(rows[c], NewRow(c)) \in Seq(Row)  BY <2>2, <2>3
    <2>5. rows' \in [Client -> Seq(Row)]  BY <1>5, <2>4 DEF InsertRun, TypeOK
    <2>6. NextId(c) \in Nat
      <3>1. View(c) \in Seq(Row)  BY ViewProperties
      <3> QED  BY <3>1, LenProperties DEF NextId
    <2> QED  BY <1>5, <2>5, <2>6 DEF InsertRun, WriteLock, GoTo, history, TypeOK, Busy
  <1>6. CASE InsertIteration(c)
    <2>1. rows[c] # <<>>  BY <1>6 DEF InsertIteration, CallInv, CallOf, Saving
    <2>2. rows' \in [Client -> Seq(Row)]  BY <1>6, <2>1, Inserted
    <2> QED  BY <1>6, <2>2 DEF InsertIteration, locals, history, TypeOK
  <1>7. CASE IterationsInserted(c)
    BY <1>7 DEF IterationsInserted, GoTo, connection, locals, history, TypeOK, Busy
  <1>8. CASE Commit(c)
    <2>1. View(c) \in Seq(Row)  BY ViewProperties
    <2>2. job[c] \in Run  BY <1>8 DEF Commit, CallInv, CallOf, Saving
    <2>3. <<>> \in Seq(Row)  BY EmptySeq
    <2>4. [id |-> run_id[c], job |-> job[c]] \in [id : Nat, job : Run]  BY <2>2 DEF TypeOK
    <2> QED  BY <1>8, <2>1, <2>3, <2>4 DEF Commit, SaveEnds, Rollback, GoTo, TypeOK, Busy
  <1>9. ASSUME NEW id \in 1..(MaxSaves + 1), GetRun(c, id)  PROVE TypeOK'
    <2>1. id \in Nat \ {0}  BY StorageAssumption
    <2>2. CASE NotFound(c, id)
      BY <1>9, <2>2 DEF GetRun, NotFound, Read, GoTo, history, TypeOK, Busy
    <2>3. CASE ~ NotFound(c, id)
      <3>1. id \in 1..Len(View(c))
        <4>1. View(c) \in Seq(Row)  BY ViewProperties
        <4>2. Len(View(c)) \in Nat  BY <4>1, LenProperties
        <4>3. id <= Len(View(c))  BY <1>9, <2>3 DEF GetRun
        <4> QED  BY <2>1, <4>2, <4>3
      <3>2. View(c)[id] \in Row  BY <3>1, ViewProperties, ElementOfSeq
      <3>3. [id |-> id, row |-> View(c)[id]] \in Found  BY <2>1, <3>2 DEF Found
      <3>4. run_row' = [run_row EXCEPT ![c] = [id |-> id, row |-> View(c)[id]]]
        BY <1>9, <2>3 DEF GetRun
      <3>5. run_row' \in [Client -> Found \cup {None}]  BY <3>3, <3>4 DEF TypeOK
      <3>6. pc' \in [Client -> Busy \cup {"closed", "idle"}]
        BY <1>9, <2>3 DEF GetRun, GoTo, TypeOK, Busy
      <3>7. /\ lock' \in [Client -> {"none", "shared", "reserved", "pending"}]
            /\ UNCHANGED <<in_transaction, rows>>
        BY <1>9 DEF GetRun, Read, TypeOK
      <3>8. UNCHANGED <<job, run_id, record, file, tables, history>>
        BY <1>9, <2>3 DEF GetRun
      <3> QED  BY <3>5, <3>6, <3>7, <3>8 DEF history, TypeOK
    <2> QED  BY <2>2, <2>3
  <1>10. CASE GetIterations(c)
    <2>1. /\ run_row[c] \in Found /\ run_row[c].id <= Len(file) + Len(rows[c])
      BY <1>10 DEF GetIterations, CallInv, CallOf
    <2>2. run_row[c].id \in 1..Len(View(c))  BY <2>1, ViewProperties, LenProperties DEF Found
    <2>3. View(c)[run_row[c].id] \in Row  BY <2>2, ViewProperties, ElementOfSeq
    <2>4. [run_row[c] EXCEPT !.row.iterations = View(c)[run_row[c].id].iterations] \in Found
      BY <2>1, <2>3 DEF Found, Row
    <2> QED  BY <1>10, <2>4 DEF GetIterations, Read, GoTo, history, TypeOK, Busy
  <1>11. CASE GetIterationsRaises(c)
    BY <1>11 DEF GetIterationsRaises, GoTo, connection, history, TypeOK, Busy
  <1>12. CASE ListRuns(c)
    BY <1>12 DEF ListRuns, Read, locals, history, TypeOK
  <1> QED
    BY <1>1, <1>2, <1>3, <1>4, <1>5, <1>6, <1>7, <1>8, <1>9, <1>10, <1>11, <1>12, StepIsAction

-----------------------------------------------------------------------------
(***************************************************************************)
(* Locks.                                                                  *)
(***************************************************************************)
\* What the invariant asks of the client that moves, when the others keep
\* what they have: to write alone, and to have rows only as a writer.
LEMMA LocksOf ==
  ASSUME TypeOK, LockInv, NEW c \in Client,
         NEW l \in {"none", "shared", "reserved", "pending"}, NEW t \in BOOLEAN,
         lock' = [lock EXCEPT ![c] = l], in_transaction' = [in_transaction EXCEPT ![c] = t],
         \A d \in Others(c) : rows'[d] = rows[d],
         l \in {"reserved", "pending"} => Writer(c) \/ Writable(c),
         rows'[c] # <<>> => l \in {"reserved", "pending"},
         l # "none" => t
  PROVE  LockInv'
  <1>1. /\ lock'[c] = l /\ in_transaction'[c] = t
        /\ \A d \in Others(c) : lock'[d] = lock[d] /\ in_transaction'[d] = in_transaction[d]
    BY DEF TypeOK, Others
  <1>2. ASSUME NEW d \in Client, NEW e \in Client, Writer(d)', Writer(e)'  PROVE d = e
    BY <1>1, <1>2 DEF LockInv, Writer, Writable, Others
  <1>3. ASSUME NEW d \in Client  PROVE rows'[d] # <<>> => Writer(d)'
    BY <1>1 DEF LockInv, Writer, Others
  <1>4. ASSUME NEW d \in Client  PROVE lock'[d] # "none" => in_transaction'[d]
    BY <1>1 DEF LockInv, Others
  <1> QED  BY <1>2, <1>3, <1>4 DEF LockInv

LEMMA ReadLocks ==
  ASSUME TypeOK, LockInv, NEW c \in Client, Read(c)
  PROVE  LockInv'
  <1> DEFINE l == IF in_transaction[c] /\ lock[c] = "none" THEN "shared" ELSE lock[c]
  <1>1. /\ lock[c] \in {"none", "shared", "reserved", "pending"}
        /\ in_transaction[c] \in BOOLEAN
    BY DEF TypeOK
  <1>2. /\ lock' = [lock EXCEPT ![c] = l]
        /\ in_transaction' = [in_transaction EXCEPT ![c] = in_transaction[c]]
        /\ rows' = rows
    BY DEF Read, TypeOK
  <1>3. /\ l \in {"reserved", "pending"} => Writer(c)
        /\ rows[c] # <<>> => l \in {"reserved", "pending"}
        /\ l # "none" => in_transaction[c]
        /\ l \in {"none", "shared", "reserved", "pending"}
    BY <1>1 DEF LockInv, Writer
  <1> HIDE DEF l
  <1> QED  BY <1>1, <1>2, <1>3, LocksOf

LEMMA RollbackLocks ==
  ASSUME TypeOK, LockInv, NEW c \in Client, Rollback(c)
  PROVE  LockInv'
  <1>1. \A d \in Others(c) : rows'[d] = rows[d]  BY DEF Rollback, TypeOK, Others
  <1>2. rows'[c] = <<>>  BY DEF Rollback, TypeOK
  <1> QED  BY <1>1, <1>2, LocksOf DEF Rollback

LEMMA LockStep ==
  ASSUME TypeOK, LockInv, CallInv, NEW c \in Client, Step(c)
  PROVE  LockInv'
  <1> DEFINE Same == UNCHANGED <<lock, in_transaction, rows>>
  <1>1. CASE Same  BY <1>1 DEF LockInv, Writer
  <1>2. CASE Quiet(c)
    BY <1>1, <1>2 DEF Quiet, Open, CreateRuns, CreateIterations, CreateTable, connection
  <1>3. CASE Leaves(c)
    <2>1. Rollback(c)  BY <1>3 DEF Leaves, OpenRaises, Close, Crash, Disconnected
    <2> QED  BY <2>1, RollbackLocks
  <1>4. CASE Fails(c)
    <2>1. KeepsRows(c) \/ Rollback(c)  BY <1>4, FailsIs
    <2>2. CASE KeepsRows(c)
      <3>1. PICK l \in {"none", "shared", "reserved", "pending"} :
              /\ lock' = [lock EXCEPT ![c] = l]
              /\ l \in {"reserved", "pending"} => Writer(c) \/ Writable(c)
              /\ Writer(c) => l \in {"reserved", "pending"}
        BY <2>2 DEF KeepsRows
      <3>2. /\ in_transaction' = [in_transaction EXCEPT ![c] = TRUE]
            /\ \A d \in Client : rows'[d] = rows[d]
        BY <2>2 DEF KeepsRows
      <3>3. rows'[c] # <<>> => l \in {"reserved", "pending"}  BY <3>1, <3>2 DEF LockInv
      <3> QED  BY <3>1, <3>2, <3>3, LocksOf DEF Others
    <2> QED  BY <2>1, <2>2, RollbackLocks
  <1>5. ASSUME NEW n \in Counts, SaveRun(c, n)  PROVE LockInv'
    BY <1>1, <1>5 DEF SaveRun, connection
  <1>6. CASE InsertRun(c)
    <2>1. /\ Writable(c) /\ lock' = [lock EXCEPT ![c] = WriteLock(c)]
          /\ in_transaction' = [in_transaction EXCEPT ![c] = TRUE]
          /\ \A d \in Others(c) : rows'[d] = rows[d]
      BY <1>6 DEF InsertRun, TypeOK, Others
    <2>2. WriteLock(c) \in {"reserved", "pending"}  BY DEF WriteLock
    <2> QED  BY <2>1, <2>2, LocksOf
  <1>7. CASE InsertIteration(c)
    <2>1. rows[c] # <<>> /\ pc[c] = "insert iterations"
      BY <1>7 DEF InsertIteration, CallInv, CallOf, Saving
    <2>2. \A d \in Others(c) : rows'[d] = rows[d]  BY <1>7, <2>1, Inserted DEF Others
    <2>3. UNCHANGED <<lock, in_transaction>>  BY <1>7 DEF InsertIteration
    <2> QED  BY <2>1, <2>2, <2>3 DEF LockInv, Writer, Others
  <1>8. CASE IterationsInserted(c)  BY <1>1, <1>8 DEF IterationsInserted, connection
  <1>9. CASE Commit(c)  BY <1>9, RollbackLocks DEF Commit
  <1>10. ASSUME NEW id \in 1..(MaxSaves + 1), GetRun(c, id)  PROVE LockInv'
    BY <1>10, ReadLocks DEF GetRun
  <1>11. CASE GetIterations(c)  BY <1>11, ReadLocks DEF GetIterations
  <1>12. CASE GetIterationsRaises(c)  BY <1>1, <1>12 DEF GetIterationsRaises, connection
  <1>13. CASE ListRuns(c)  BY <1>13, ReadLocks DEF ListRuns
  <1> QED
    BY <1>2, <1>3, <1>4, <1>5, <1>6, <1>7, <1>8, <1>9, <1>10, <1>11, <1>12, <1>13, StepIsAction

-----------------------------------------------------------------------------
(***************************************************************************)
(* The file.                                                               *)
(***************************************************************************)
\* Only a commit changes the file: it appends the rows of the transaction, at
\* a moment no other connection has any.
LEMMA CommitIs ==
  ASSUME TypeOK, LockInv, CallInv, NEW c \in Client, Commit(c)
  PROVE  /\ Saving(c) /\ file' = View(c) /\ rows'[c] = <<>>
         /\ Len(file') = Len(file) + Len(rows[c])
         /\ \A k \in 1..Len(file) : file'[k] = file[k]
         /\ \A d \in Others(c) : rows[d] = <<>> /\ rows'[d] = <<>> /\ ~ Saving(d) /\ pc'[d] = pc[d]
         /\ pc'[c] = "idle" /\ job[c] \in Run
         /\ file'[run_id[c]] = LastRow(c) /\ run_id[c] \in 1..Len(file')
         /\ LastRow(c) = [run |-> job[c].run, iteration_count |-> job[c].iteration_count,
                          iterations |-> job[c].iteration_count]
  <1>1. Saving(c) /\ pc[c] = "commit" /\ file' = View(c) /\ pc'[c] = "idle"
    BY DEF Commit, Saving, SaveEnds, GoTo, TypeOK
  <1>2. /\ Len(file') = Len(file) + Len(rows[c])
        /\ \A k \in 1..Len(file) : file'[k] = file[k]
        /\ \A k \in 1..Len(rows[c]) : file'[Len(file) + k] = rows[c][k]
    BY <1>1, ViewProperties
  <1>3. rows' = [rows EXCEPT ![c] = <<>>] /\ pc' = [pc EXCEPT ![c] = "idle"]
    BY DEF Commit, Rollback, SaveEnds, GoTo
  <1>4. ASSUME NEW d \in Others(c)
        PROVE  rows[d] = <<>> /\ rows'[d] = <<>> /\ ~ Saving(d) /\ pc'[d] = pc[d]
    <2>1. lock[d] = "none"  BY DEF Commit, Exclusive
    <2>2. d \in Client /\ d # c  BY DEF Others
    <2>3. rows[d] = <<>>  BY <2>1, <2>2 DEF LockInv, Writer
    <2>4. ~ Saving(d)  BY <2>2, <2>3 DEF CallInv, CallOf
    <2> QED  BY <1>3, <2>2, <2>3, <2>4 DEF TypeOK
  <1>5. rows'[c] = <<>>  BY <1>3 DEF TypeOK
  <1>6. /\ job[c] \in Run /\ rows[c] # <<>> /\ run_id[c] = Len(file) + Len(rows[c])
        /\ LastRow(c).run = job[c].run
        /\ LastRow(c).iteration_count = job[c].iteration_count
        /\ LastRow(c).iterations = LastRow(c).iteration_count
    BY <1>1 DEF CallInv, CallOf
  <1>7. rows[c] \in Seq(Row) /\ Len(file) \in Nat  BY LenProperties DEF TypeOK
  <1>8. Len(rows[c]) \in 1..Len(rows[c])  BY <1>6, <1>7, EmptySeq
  <1>9. LastRow(c) \in Row  BY <1>7, <1>8, ElementOfSeq DEF LastRow
  <1>10. LastRow(c) = [run |-> job[c].run, iteration_count |-> job[c].iteration_count,
                       iterations |-> job[c].iteration_count]
    BY <1>6, <1>9 DEF Row
  <1>11. file'[run_id[c]] = LastRow(c) /\ run_id[c] \in 1..Len(file')
    BY <1>2, <1>6, <1>7, <1>8 DEF LastRow
  <1> QED  BY <1>1, <1>2, <1>4, <1>5, <1>6, <1>10, <1>11

LEMMA FileStep ==
  ASSUME NEW c \in Client, Step(c), ~ Commit(c)
  PROVE  UNCHANGED <<file, returned>>
  <1> USE DEF GoTo
  <1>1. CASE Quiet(c)
    BY <1>1 DEF Quiet, Open, CreateRuns, CreateIterations, CreateTable, history
  <1>2. CASE Leaves(c)  BY <1>2 DEF Leaves, OpenRaises, Close, Crash, Disconnected
  <1>3. CASE Fails(c)
    BY <1>3 DEF Fails, InsertRunRaises, InsertIterationRaises, CommitRaises, SaveFails
  <1>4. CASE \E n \in Counts : SaveRun(c, n)  BY <1>4 DEF SaveRun
  <1>5. CASE InsertRun(c) \/ InsertIteration(c) \/ IterationsInserted(c)
    BY <1>5 DEF InsertRun, InsertIteration, IterationsInserted, history
  <1>6. CASE \E id \in 1..(MaxSaves + 1) : GetRun(c, id)  BY <1>6 DEF GetRun, history
  <1>7. CASE GetIterations(c) \/ GetIterationsRaises(c) \/ ListRuns(c)
    BY <1>7 DEF GetIterations, GetIterationsRaises, ListRuns, history
  <1> QED  BY <1>1, <1>2, <1>3, <1>4, <1>5, <1>6, <1>7, StepIsAction

\* A run that was saved stays where it is.
LEMMA SavedStep ==
  ASSUME TypeOK, LockInv, CallInv, SavedForGood, NEW c \in Client, Step(c)
  PROVE  SavedForGood'
  <1>1. CASE ~ Commit(c)
    BY <1>1, FileStep DEF SavedForGood
  <1>2. CASE Commit(c)
    <2>1. /\ \A k \in 1..Len(file) : file'[k] = file[k]
          /\ Len(file') = Len(file) + Len(rows[c])
          /\ file'[run_id[c]] = LastRow(c) /\ run_id[c] \in 1..Len(file')
          /\ LastRow(c) = [run |-> job[c].run, iteration_count |-> job[c].iteration_count,
                           iterations |-> job[c].iteration_count]
      BY <1>2, CommitIs
    <2>2. Len(file) \in Nat /\ Len(rows[c]) \in Nat  BY LenProperties DEF TypeOK
    <2>3. returned' = returned \cup {[id |-> run_id[c], job |-> job[c]]}  BY <1>2 DEF Commit
    <2>4. ASSUME NEW s \in returned
          PROVE  /\ s.id \in 1..Len(file')
                 /\ file'[s.id] = [run |-> s.job.run, iteration_count |-> s.job.iteration_count,
                                   iterations |-> s.job.iteration_count]
      BY <2>1, <2>2 DEF SavedForGood
    <2>5. ASSUME NEW s \in returned', s \notin returned
          PROVE  /\ s.id \in 1..Len(file')
                 /\ file'[s.id] = [run |-> s.job.run, iteration_count |-> s.job.iteration_count,
                                   iterations |-> s.job.iteration_count]
      <3>1. s = [id |-> run_id[c], job |-> job[c]]  BY <2>3, <2>5
      <3>2. s.id = run_id[c] /\ s.job = job[c]  BY <3>1
      <3> QED  BY <2>1, <3>2
    <2> QED  BY <2>4, <2>5 DEF SavedForGood
  <1> QED  BY <1>1, <1>2

-----------------------------------------------------------------------------
(***************************************************************************)
(* The calls.                                                              *)
(***************************************************************************)
\* A step of a client leaves the others what they have: only the file and the
\* locks are shared.
LEMMA OthersKeep ==
  ASSUME TypeOK, LockInv, CallInv, NEW c \in Client, Step(c), NEW d \in Others(c)
  PROVE  /\ pc'[d] = pc[d] /\ job'[d] = job[d] /\ run_id'[d] = run_id[d]
         /\ run_row'[d] = run_row[d] /\ record'[d] = record[d] /\ rows'[d] = rows[d]
         /\ lock'[d] = lock[d] /\ in_transaction'[d] = in_transaction[d]
         /\ d \in spoilt <=> d \in spoilt'
  <1>0. d \in Client /\ d # c  BY DEF Others
  <1> DEFINE Same == UNCHANGED <<pc, lock, in_transaction, rows, job, run_id, run_row, record, spoilt>>
  <1> USE DEF GoTo, connection, locals, history
  <1>1. CASE Same  BY <1>1
  <1>2. CASE Quiet(c)
    <2>1. /\ UNCHANGED <<connection, locals, history>>
          /\ \E l \in {"create runs", "create iterations", "idle"} : pc' = [pc EXCEPT ![c] = l]
      BY <1>2 DEF Quiet, Open, CreateRuns, CreateIterations, CreateTable
    <2> QED  BY <1>0, <2>1 DEF TypeOK
  <1>3. CASE Leaves(c)
    <2>1. Disconnected(c)  BY <1>3 DEF Leaves, OpenRaises, Close, Crash
    <2> QED  BY <1>0, <2>1 DEF Disconnected, Rollback, TypeOK
  <1>4. CASE Fails(c)
    <2>1. /\ pc' = [pc EXCEPT ![c] = "idle"] /\ job' = [job EXCEPT ![c] = None]
          /\ run_id' = [run_id EXCEPT ![c] = 0] /\ spoilt' = spoilt \cup {c}
          /\ UNCHANGED <<run_row, record>>
      BY <1>4, FailsIs
    <2>2. rows'[d] = rows[d] /\ lock'[d] = lock[d] /\ in_transaction'[d] = in_transaction[d]
      <3>1. KeepsRows(c) \/ Rollback(c)  BY <1>4, FailsIs
      <3> QED  BY <1>0, <3>1 DEF KeepsRows, Rollback, TypeOK
    <2> QED  BY <1>0, <2>1, <2>2 DEF TypeOK
  <1>5. CASE \E n \in Counts : SaveRun(c, n)  BY <1>0, <1>5 DEF SaveRun, TypeOK
  <1>6. CASE InsertRun(c)  BY <1>0, <1>6 DEF InsertRun, TypeOK
  <1>7. CASE InsertIteration(c)
    <2>1. rows[c] # <<>>  BY <1>7 DEF InsertIteration, CallInv, CallOf, Saving
    <2>2. rows'[d] = rows[d]  BY <1>0, <1>7, <2>1, Inserted
    <2> QED  BY <1>7, <2>2 DEF InsertIteration
  <1>8. CASE IterationsInserted(c)  BY <1>0, <1>8 DEF IterationsInserted, TypeOK
  <1>9. CASE Commit(c)  BY <1>0, <1>9 DEF Commit, SaveEnds, Rollback, TypeOK
  <1>10. ASSUME NEW id \in 1..(MaxSaves + 1), GetRun(c, id)
         PROVE /\ pc'[d] = pc[d] /\ run_row'[d] = run_row[d] /\ record'[d] = record[d]
               /\ lock'[d] = lock[d] /\ UNCHANGED <<job, run_id, rows, in_transaction, spoilt>>
    BY <1>0, <1>10 DEF GetRun, NotFound, Read, TypeOK
  <1>11. CASE \E id \in 1..(MaxSaves + 1) : GetRun(c, id)  BY <1>10, <1>11
  <1>12. CASE GetIterations(c)  BY <1>0, <1>12 DEF GetIterations, Read, TypeOK
  <1>13. CASE GetIterationsRaises(c)  BY <1>0, <1>13 DEF GetIterationsRaises, TypeOK
  <1>14. CASE ListRuns(c)  BY <1>0, <1>14 DEF ListRuns, Read, TypeOK
  <1> QED
    BY <1>2, <1>3, <1>4, <1>5, <1>6, <1>7, <1>8, <1>9, <1>11, <1>12, <1>13, <1>14, StepIsAction

LEMMA CallStep ==
  ASSUME TypeOK, LockInv, CallInv, NEW c \in Client, Step(c)
  PROVE  CallInv'
  <1>1. ASSUME NEW d \in Others(c)  PROVE CallOf(d)'
    <2>1. d \in Client /\ CallOf(d)  BY DEF Others, CallInv
    <2>2. /\ pc'[d] = pc[d] /\ job'[d] = job[d] /\ run_id'[d] = run_id[d]
          /\ run_row'[d] = run_row[d] /\ rows'[d] = rows[d]
      BY OthersKeep
    <2>3. CASE ~ Commit(c)
      <3>1. file' = file  BY <2>3, FileStep
      <3> QED  BY <2>1, <2>2, <3>1 DEF CallOf, Saving, LastRow
    <2>4. CASE Commit(c)
      <3>1. rows[d] = <<>> /\ ~ Saving(d) /\ Len(file') = Len(file) + Len(rows[c])
        BY <2>4, CommitIs
      <3>2. Len(file) \in Nat /\ Len(rows[c]) \in Nat  BY LenProperties DEF TypeOK
      <3>3. pc[d] = "select iterations" =>
              run_row[d] \in Found /\ run_row[d].id <= Len(file') + Len(rows'[d])
        <4>1. Len(rows'[d]) = 0  BY <2>2, <3>1
        <4>2. ASSUME pc[d] = "select iterations"
              PROVE  /\ run_row[d] \in Found /\ run_row[d].id <= Len(file) + Len(rows[d])
          BY <2>1, <4>2 DEF CallOf
        <4>3. ASSUME run_row[d] \in Found  PROVE run_row[d].id \in Nat  BY <4>3 DEF Found
        <4>4. Len(file') \in Nat /\ Len(file') >= Len(file) + Len(rows[d])
          BY <2>2, <3>1, <3>2, <4>1
        <4>5. ASSUME run_row[d] \in Found, run_row[d].id <= Len(file) + Len(rows[d])
              PROVE  run_row[d].id <= Len(file') + Len(rows'[d])
          <5>1. Len(rows[d]) = 0  BY <3>1
          <5>2. run_row[d].id \in Nat  BY <4>3, <4>5
          <5>3. run_row[d].id <= Len(file)  BY <3>2, <4>5, <5>1, <5>2
          <5>4. Len(file) <= Len(file')  BY <3>2, <4>4, <5>1
          <5> QED  BY <3>2, <4>1, <4>4, <5>2, <5>3, <5>4
        <4> QED  BY <4>2, <4>5
      <3> QED  BY <2>1, <2>2, <3>1, <3>3 DEF CallOf, Saving
    <2> QED  BY <2>3, <2>4
  <1>2. CallOf(c)'
    <2> USE DEF GoTo
    <2>0. CallOf(c)  BY DEF CallInv
    <2>1. CASE pc'[c] \notin {"insert run", "insert iterations", "commit", "select iterations"}
      BY <2>1 DEF CallOf, Saving
    <2>2. CASE Quiet(c)
      BY <2>1, <2>2 DEF Quiet, Open, CreateRuns, CreateIterations, TypeOK
    <2>3. CASE Leaves(c)
      BY <2>1, <2>3 DEF Leaves, OpenRaises, Close, Crash, Disconnected, TypeOK
    <2>4. CASE Fails(c)
      <3>1. pc' = [pc EXCEPT ![c] = "idle"]  BY <2>4, FailsIs
      <3> QED  BY <2>1, <3>1 DEF TypeOK
    <2>5. ASSUME NEW n \in Counts, SaveRun(c, n)  PROVE CallOf(c)'
      <3>1. saves + 1 \in 1..MaxSaves
        <4>1. saves < MaxSaves  BY <2>5 DEF SaveRun
        <4>2. saves \in 0..MaxSaves  BY DEF TypeOK
        <4> QED  BY <4>1, <4>2, StorageAssumption
      <3>2. [run |-> saves + 1, iteration_count |-> n] \in Run  BY <3>1 DEF Run
      <3>3. pc'[c] = "insert run" /\ job'[c] = [run |-> saves + 1, iteration_count |-> n]
        BY <2>5 DEF SaveRun, TypeOK
      <3> QED  BY <3>2, <3>3 DEF CallOf, Saving
    <2>6. CASE InsertRun(c)
      <3>1. job[c] \in Run /\ job'[c] = job[c] /\ file' = file /\ pc'[c] = "insert iterations"
        BY <2>0, <2>6 DEF InsertRun, CallOf, TypeOK
      <3>2. NewRow(c) \in Row  BY <3>1 DEF NewRow, Run, Row
      <3>3. rows'[c] = Append(rows[c], NewRow(c)) /\ run_id'[c] = NextId(c)
        BY <2>6 DEF InsertRun, TypeOK
      <3>4. rows[c] \in Seq(Row) /\ Len(file) \in Nat  BY LenProperties DEF TypeOK
      <3>5. /\ Len(rows'[c]) = Len(rows[c]) + 1 /\ rows'[c] # <<>>
            /\ rows'[c][Len(rows[c]) + 1] = NewRow(c)
        BY <3>2, <3>3, <3>4
      <3>6. LastRow(c)' = NewRow(c)  BY <3>5 DEF LastRow
      <3>7. run_id'[c] = Len(file) + Len(rows'[c])
        <4>1. Len(View(c)) = Len(file) + Len(rows[c])  BY ViewProperties
        <4>2. Len(rows[c]) \in Nat  BY <3>4, LenProperties
        <4> QED  BY <3>3, <3>4, <3>5, <4>1, <4>2 DEF NextId
      <3>8. job[c].iteration_count \in Nat  BY <3>1, StorageAssumption DEF Run
      <3>9. /\ NewRow(c).run = job[c].run /\ NewRow(c).iteration_count = job[c].iteration_count
            /\ NewRow(c).iterations <= NewRow(c).iteration_count
        BY <3>8 DEF NewRow
      <3>10. /\ LastRow(c)'.run = job'[c].run
             /\ LastRow(c)'.iteration_count = job'[c].iteration_count
             /\ LastRow(c)'.iterations <= LastRow(c)'.iteration_count
        BY <3>1, <3>6, <3>9
      <3> QED  BY <3>1, <3>5, <3>7, <3>10 DEF CallOf, Saving
    <2>7. CASE InsertIteration(c)
      <3>1. /\ pc[c] = "insert iterations" /\ pc' = pc /\ job' = job /\ run_id' = run_id /\ file' = file
            /\ LastRow(c).iterations < LastRow(c).iteration_count
        BY <2>7 DEF InsertIteration, locals
      <3>2. rows[c] # <<>>  BY <2>0, <3>1 DEF CallOf, Saving
      <3>3. /\ Len(rows'[c]) = Len(rows[c]) /\ rows'[c] # <<>>
            /\ rows'[c][Len(rows[c])] =
                 [run |-> LastRow(c).run, iteration_count |-> LastRow(c).iteration_count,
                  iterations |-> LastRow(c).iterations + 1]
        BY <2>7, <3>2, Inserted
      <3>4. LastRow(c)' = [run |-> LastRow(c).run, iteration_count |-> LastRow(c).iteration_count,
                           iterations |-> LastRow(c).iterations + 1]
        BY <3>3 DEF LastRow
      <3>5. LastRow(c) \in Row
        <4>1. rows[c] \in Seq(Row)  BY DEF TypeOK
        <4>2. Len(rows[c]) \in 1..Len(rows[c])  BY <3>2, <4>1, EmptySeq
        <4> QED  BY <4>1, <4>2, ElementOfSeq DEF LastRow
      <3>6. LastRow(c).iterations + 1 <= LastRow(c).iteration_count
        <4>1. LastRow(c).iterations \in Nat /\ LastRow(c).iteration_count \in Nat
          BY <3>5, StorageAssumption DEF Row
        <4>2. LastRow(c).iterations < LastRow(c).iteration_count  BY <3>1
        <4> QED  BY <4>1, <4>2
      <3>7. /\ LastRow(c).run = job[c].run
            /\ LastRow(c).iteration_count = job[c].iteration_count
            /\ run_id[c] = Len(file) + Len(rows[c]) /\ job[c] \in Run
        BY <2>0, <3>1 DEF CallOf, Saving
      <3>8. /\ LastRow(c)'.run = job'[c].run
            /\ LastRow(c)'.iteration_count = job'[c].iteration_count
            /\ LastRow(c)'.iterations <= LastRow(c)'.iteration_count
        <4>1. /\ LastRow(c)'.run = LastRow(c).run
              /\ LastRow(c)'.iteration_count = LastRow(c).iteration_count
              /\ LastRow(c)'.iterations = LastRow(c).iterations + 1
          BY <3>4
        <4> QED  BY <3>1, <3>6, <3>7, <4>1
      <3> QED  BY <3>1, <3>3, <3>7, <3>8 DEF CallOf, Saving
    <2>8. CASE IterationsInserted(c)
      <3>1. /\ pc[c] = "insert iterations" /\ pc'[c] = "commit"
            /\ LastRow(c).iterations = LastRow(c).iteration_count
            /\ UNCHANGED <<rows, job, run_id, file>>
        BY <2>8 DEF IterationsInserted, connection, locals, TypeOK
      <3> QED  BY <2>0, <3>1 DEF CallOf, Saving, LastRow
    <2>9. CASE Commit(c)
      <3>1. pc'[c] = "idle"  BY <2>9, CommitIs
      <3> QED  BY <2>1, <3>1
    <2>10. ASSUME NEW id \in 1..(MaxSaves + 1), GetRun(c, id)  PROVE CallOf(c)'
      <3>1. CASE NotFound(c, id)
        <4>1. pc'[c] = "idle"  BY <2>10, <3>1 DEF GetRun, NotFound
        <4> QED  BY <2>1, <4>1
      <3>2. CASE ~ NotFound(c, id)
        <4>0. id <= Len(View(c))  BY <2>10, <3>2 DEF GetRun
        <4>1. /\ pc'[c] = "select iterations"
              /\ run_row'[c] = [id |-> id, row |-> View(c)[id]]
              /\ file' = file /\ rows' = rows
          BY <2>10, <3>2 DEF GetRun, Read, TypeOK
        <4>2. run_row'[c] \in Found
          <5>1. id \in Nat \ {0} /\ View(c) \in Seq(Row)  BY StorageAssumption, ViewProperties
          <5>2. View(c)[id] \in Row
            <6>1. Len(View(c)) \in Nat  BY <5>1, LenProperties
            <6>2. id \in 1..Len(View(c))  BY <4>0, <5>1, <6>1
            <6> QED  BY <5>1, <6>2, ElementOfSeq
          <5>3. [id |-> id, row |-> View(c)[id]] \in Found  BY <5>1, <5>2 DEF Found
          <5> QED  BY <4>1, <5>3
        <4>3. Len(View(c)) = Len(file) + Len(rows[c])  BY ViewProperties
        <4>4. run_row'[c].id <= Len(file') + Len(rows'[c])  
          <5>0. run_row'[c] = [id |-> id, row |-> View(c)[id]]  BY <4>1
          <5>1. run_row'[c].id = id  BY <5>0
          <5>2. file' = file /\ rows'[c] = rows[c]  BY <4>1
          <5> QED  BY <4>0, <4>3, <5>1, <5>2
        <4> QED  BY <4>1, <4>2, <4>4 DEF CallOf, Saving
      <3> QED  BY <3>1, <3>2
    <2>11. CASE GetIterations(c) \/ GetIterationsRaises(c)
      BY <2>1, <2>11 DEF GetIterations, GetIterationsRaises, TypeOK
    <2>12. CASE ListRuns(c)
      BY <2>1, <2>12 DEF ListRuns
    <2> QED
      BY <2>2, <2>3, <2>4, <2>5, <2>6, <2>7, <2>8, <2>9, <2>10, <2>11, <2>12, StepIsAction
  <1> QED  BY <1>1, <1>2 DEF CallInv, Others

-----------------------------------------------------------------------------
(***************************************************************************)
(* The rows that wait for a commit, and the runs of the file.              *)
(***************************************************************************)
\* A save_run that failed is never forgotten.
LEMMA FailedGrows ==
  ASSUME TypeOK, LockInv, CallInv, NEW c \in Client, Step(c)
  PROVE  failed \subseteq failed'
  <1> USE DEF history
  <1>1. CASE Quiet(c)
    BY <1>1 DEF Quiet, Open, CreateRuns, CreateIterations, CreateTable
  <1>2. CASE Leaves(c)  BY <1>2 DEF Leaves, OpenRaises, Close, Crash, Disconnected
  <1>3. CASE Fails(c)
    <2>1. failed' = failed \cup {job[c].run}  BY <1>3, FailsIs
    <2> QED  BY <2>1
  <1>4. CASE \E n \in Counts : SaveRun(c, n)  BY <1>4 DEF SaveRun
  <1>5. CASE InsertRun(c) \/ InsertIteration(c) \/ IterationsInserted(c) \/ Commit(c)
    BY <1>5 DEF InsertRun, InsertIteration, IterationsInserted, Commit
  <1>6. CASE \E id \in 1..(MaxSaves + 1) : GetRun(c, id)  BY <1>6 DEF GetRun
  <1>7. CASE GetIterations(c) \/ GetIterationsRaises(c) \/ ListRuns(c)
    BY <1>7 DEF GetIterations, GetIterationsRaises, ListRuns
  <1> QED  BY <1>1, <1>2, <1>3, <1>4, <1>5, <1>6, <1>7, StepIsAction

LEMMA RowsStep ==
  ASSUME TypeOK, LockInv, CallInv, RowsInv, NEW c \in Client, Step(c)
  PROVE  RowsInv'
  <1>0. failed \subseteq failed'  BY FailedGrows
  <1>1. ASSUME NEW d \in Others(c)  PROVE RowsOf(d)'
    <2>1. d \in Client /\ RowsOf(d)  BY DEF Others, RowsInv
    <2>2. pc'[d] = pc[d] /\ rows'[d] = rows[d]  BY OthersKeep
    <2> QED  BY <1>0, <2>1, <2>2 DEF RowsOf, Saving
  <1>2. RowsOf(c)'
    <2> USE DEF GoTo, connection, locals, history
    <2>1. RowsOf(c) /\ CallOf(c)  BY DEF RowsInv, CallInv
    <2>2. CASE rows'[c] = <<>>  BY <2>2 DEF RowsOf
    <2>3. CASE rows' = rows /\ (Saving(c) => Saving(c)')  BY <1>0, <2>1, <2>3 DEF RowsOf
    <2>4. CASE Quiet(c)
      BY <2>3, <2>4 DEF Quiet, Open, CreateRuns, CreateIterations, CreateTable, Saving
    <2>5. CASE Leaves(c)
      BY <2>2, <2>5 DEF Leaves, OpenRaises, Close, Crash, Disconnected, Rollback, TypeOK
    <2>6. CASE Fails(c)
      <3>1. KeepsRows(c) \/ Rollback(c)  BY <2>6, FailsIs
      <3>2. CASE Rollback(c)  BY <2>2, <3>2 DEF Rollback, TypeOK
      <3>3. CASE KeepsRows(c)
        <4>1. rows' = rows  BY <3>3 DEF KeepsRows
        <4>2. failed' = failed \cup {job[c].run}  BY <2>6, FailsIs
        <4>3. Saving(c) => rows[c][Len(rows[c])].run = job[c].run  BY <2>1 DEF CallOf, LastRow
        <4> QED  BY <2>1, <4>1, <4>2, <4>3 DEF RowsOf
      <3> QED  BY <3>1, <3>2, <3>3
    <2>7. CASE \E n \in Counts : SaveRun(c, n)  BY <2>3, <2>7 DEF SaveRun, Saving
    <2>8. CASE InsertRun(c)
      <3>1. job[c] \in Run /\ ~ Saving(c) /\ Saving(c)'
        BY <2>1, <2>8 DEF InsertRun, CallOf, Saving, TypeOK
      <3>2. NewRow(c) \in Row  BY <3>1 DEF NewRow, Run, Row
      <3>3. rows'[c] = Append(rows[c], NewRow(c))  BY <2>8 DEF InsertRun, TypeOK
      <3>4. rows[c] \in Seq(Row)  BY DEF TypeOK
      <3>5. /\ Len(rows'[c]) = Len(rows[c]) + 1 /\ Len(rows[c]) \in Nat
            /\ \A k \in 1..Len(rows[c]) : rows'[c][k] = rows[c][k]
        BY <3>2, <3>3, <3>4
      <3>6. ASSUME NEW k \in 1..Len(rows'[c])
            PROVE  k = Len(rows'[c]) \/ (k \in 1..Len(rows[c]) /\ rows'[c][k] = rows[c][k])
        BY <3>5
      <3> QED  BY <1>0, <2>1, <3>1, <3>6 DEF RowsOf
    <2>9. CASE InsertIteration(c)
      <3>1. rows[c] # <<>>  BY <2>1, <2>9 DEF InsertIteration, CallOf, Saving
      <3>2. /\ Len(rows'[c]) = Len(rows[c])
            /\ \A k \in 1..Len(rows[c]) : k # Len(rows[c]) => rows'[c][k] = rows[c][k]
        BY <2>9, <3>1, Inserted
      <3>3. Saving(c)'  BY <2>9 DEF InsertIteration, Saving
      <3> QED  BY <1>0, <2>1, <3>2, <3>3 DEF RowsOf
    <2>10. CASE IterationsInserted(c)  BY <2>3, <2>10 DEF IterationsInserted, Saving, TypeOK
    <2>11. CASE Commit(c)  BY <2>2, <2>11, CommitIs
    <2>12. CASE \E id \in 1..(MaxSaves + 1) : GetRun(c, id)
      BY <2>3, <2>12 DEF GetRun, NotFound, Read, Saving
    <2>13. CASE GetIterations(c) \/ GetIterationsRaises(c) \/ ListRuns(c)
      BY <2>3, <2>13 DEF GetIterations, GetIterationsRaises, ListRuns, Read, Saving
    <2> QED
      BY <2>4, <2>5, <2>6, <2>7, <2>8, <2>9, <2>10, <2>11, <2>12, <2>13, StepIsAction
  <1> QED  BY <1>1, <1>2 DEF RowsInv, Others

LEMMA WholeStep ==
  ASSUME TypeOK, LockInv, CallInv, RowsInv, WholeUnlessFailed, NEW c \in Client, Step(c)
  PROVE  WholeUnlessFailed'
  <1>0. failed \subseteq failed'  BY FailedGrows
  <1>1. CASE ~ Commit(c)  BY <1>0, <1>1, FileStep DEF WholeUnlessFailed
  <1>2. CASE Commit(c)
    <2>1. RowsOf(c) /\ CallOf(c) /\ file' = View(c) /\ pc[c] = "commit"
      BY <1>2 DEF RowsInv, CallInv, Commit
    <2>2. ASSUME NEW k \in 1..Len(rows[c]), rows[c][k].iterations # rows[c][k].iteration_count
          PROVE  rows[c][k].run \in failed
      <3>1. rows[c][k].run \in failed \/ k = Len(rows[c])  BY <2>1, <2>2 DEF RowsOf
      <3>2. k # Len(rows[c])  BY <2>1, <2>2 DEF CallOf, Saving, LastRow
      <3> QED  BY <3>1, <3>2
    <2>3. \A k \in 1..Len(View(c)) :
            \/ k \in 1..Len(file) /\ View(c)[k] = file[k]
            \/ \E i \in 1..Len(rows[c]) : k = Len(file) + i /\ View(c)[k] = rows[c][i]
      BY ViewProperties
    <2>4. ASSUME NEW id \in 1..Len(View(c)), View(c)[id].iterations # View(c)[id].iteration_count
          PROVE  View(c)[id].run \in failed
      BY <2>2, <2>3, <2>4 DEF WholeUnlessFailed
    <2> QED  BY <1>0, <2>1, <2>4 DEF WholeUnlessFailed
  <1> QED  BY <1>1, <1>2

-----------------------------------------------------------------------------
(***************************************************************************)
(* Connections on which nothing went wrong.                                *)
(***************************************************************************)
LEMMA CleanStep ==
  ASSUME TypeOK, LockInv, CallInv, CleanInv, NEW c \in Client, Step(c)
  PROVE  CleanInv'
  <1>1. ASSUME NEW d \in Others(c)  PROVE CleanOf(d)'
    <2>1. d \in Client /\ CleanOf(d)  BY DEF Others, CleanInv
    <2>2. /\ pc'[d] = pc[d] /\ rows'[d] = rows[d] /\ lock'[d] = lock[d]
          /\ in_transaction'[d] = in_transaction[d]
          /\ d \in spoilt <=> d \in spoilt'
      BY OthersKeep
    <2> QED  BY <2>1, <2>2 DEF CleanOf, Saving
  <1>2. CleanOf(c)'
    <2> SUFFICES ASSUME c \notin spoilt'  PROVE CleanOf(c)'  BY DEF CleanOf
    <2> USE DEF GoTo, connection, locals, history
    <2>1. CleanOf(c)  BY DEF CleanInv
    <2>2. CASE Quiet(c)
      <3>1. UNCHANGED <<lock, in_transaction, rows, spoilt>> /\ ~ Saving(c)
        BY <2>2 DEF Quiet, Open, CreateRuns, CreateIterations, CreateTable, Saving, TypeOK
      <3> QED  BY <2>1, <3>1 DEF CleanOf
    <2>3. CASE Leaves(c)
      <3>1. Disconnected(c)  BY <2>3 DEF Leaves, OpenRaises, Close, Crash
      <3> QED  BY <3>1 DEF Disconnected, Rollback, CleanOf, TypeOK
    <2>4. CASE Fails(c)
      <3>1. spoilt' = spoilt \cup {c}  BY <2>4, FailsIs
      <3> QED  BY <3>1
    <2>5. CASE (\E n \in Counts : SaveRun(c, n)) \/ GetIterationsRaises(c)
      <3>1. UNCHANGED <<lock, in_transaction, rows, spoilt>> /\ ~ Saving(c)
        BY <2>5 DEF SaveRun, GetIterationsRaises, Saving, TypeOK
      <3> QED  BY <2>1, <3>1 DEF CleanOf
    <2>6. CASE InsertRun(c) \/ InsertIteration(c) \/ IterationsInserted(c)
      <3>1. Saving(c)'
        BY <2>6 DEF InsertRun, InsertIteration, IterationsInserted, Saving, TypeOK
      <3> QED  BY <3>1 DEF CleanOf
    <2>7. CASE Commit(c)
      <3>1. Rollback(c)  BY <2>7 DEF Commit
      <3> QED  BY <3>1 DEF CleanOf, Rollback, TypeOK
    <2>8. CASE (\E id \in 1..(MaxSaves + 1) : GetRun(c, id)) \/ GetIterations(c) \/ ListRuns(c)
      <3>1. /\ ~ Saving(c) /\ Read(c) /\ UNCHANGED spoilt
        BY <2>8 DEF GetRun, GetIterations, ListRuns, Saving
      <3>2. lock[c] = "none" /\ ~ in_transaction[c] /\ rows[c] = <<>>  BY <2>1, <3>1 DEF CleanOf
      <3> QED  BY <3>1, <3>2 DEF CleanOf, Read, TypeOK
    <2> QED  BY <2>2, <2>3, <2>4, <2>5, <2>6, <2>7, <2>8, StepIsAction
  <1> QED  BY <1>1, <1>2 DEF CleanInv, Others

-----------------------------------------------------------------------------
(***************************************************************************)
(* The schema.                                                             *)
(***************************************************************************)
LEMMA TablesStep ==
  ASSUME TypeOK, LockInv, CallInv, TablesInv, NEW c \in Client, Step(c)
  PROVE  TablesInv'
  <1> USE DEF GoTo, connection, locals, history
  <1>0. TablesOf(c) /\ tables \in 0..2  BY DEF TablesInv, TypeOK
  <1>a. ASSUME TablesOf(c)', tables >= 1 => tables' >= 1, tables = 2 => tables' = 2
        PROVE  TablesInv'
    <2>1. ASSUME NEW d \in Others(c)  PROVE TablesOf(d)'
      <3>1. d \in Client  BY DEF Others
      <3>2. pc'[d] = pc[d]  BY OthersKeep
      <3>3. TablesOf(d)  BY <3>1 DEF TablesInv
      <3> QED  BY <1>a, <3>2, <3>3 DEF TablesOf
    <2> QED  BY <1>a, <2>1 DEF TablesInv, Others
  <1>1. CASE Quiet(c)
    <2>1. CASE Open(c)
      <3>1. pc'[c] = "create runs" /\ tables' = tables  BY <2>1 DEF Open, TypeOK
      <3> QED  BY <1>a, <3>1 DEF TablesOf
    <2>2. CASE CreateRuns(c)
      <3>1. /\ pc'[c] = "create iterations"
            /\ (tables < 1 /\ tables' = 1) \/ (~ tables < 1 /\ tables' = tables)
        BY <2>2 DEF CreateRuns, CreateTable, TypeOK
      <3>2. tables' >= 1 /\ (tables = 2 => tables' = 2)
        <4>1. tables \in 0..2  BY <1>0
        <4>2. (tables < 1 /\ tables' = 1) \/ (~ tables < 1 /\ tables' = tables)  BY <3>1
        <4> QED  BY <4>1, <4>2
      <3>3. TablesOf(c)'  BY <3>1, <3>2 DEF TablesOf
      <3> QED  BY <1>a, <3>2, <3>3
    <2>3. CASE CreateIterations(c)
      <3>1. /\ pc'[c] = "idle"
            /\ IF tables < 2 THEN tables' = 2 ELSE tables' = tables
        BY <2>3 DEF CreateIterations, CreateTable, TypeOK
      <3>2. tables' = 2  BY <1>0, <3>1
      <3> QED  BY <1>a, <3>1, <3>2 DEF TablesOf
    <2> QED  BY <1>1, <2>1, <2>2, <2>3 DEF Quiet
  <1>2. CASE tables' = tables
             /\ (pc[c] \in {"closed", "create runs", "create iterations"} => pc'[c] = "closed")
    <2>1. TablesOf(c)'
      <3>1. CASE pc'[c] = "closed"  BY <3>1 DEF TablesOf
      <3>2. CASE tables = 2
        <4>1. tables' = 2  BY <1>2, <3>2
        <4> QED  BY <4>1 DEF TablesOf
      <3> QED  BY <1>0, <1>2, <3>1, <3>2 DEF TablesOf
    <2> QED  BY <1>2, <1>a, <2>1
  <1>3. CASE Leaves(c)
    BY <1>2, <1>3 DEF Leaves, OpenRaises, Close, Crash, Disconnected, TypeOK
  <1>4. CASE Fails(c)
    <2>1. tables' = tables /\ (pc[c] = "insert run" \/ Saving(c))  BY <1>4, FailsIs
    <2> QED  BY <1>2, <2>1 DEF Saving
  <1>5. CASE \E n \in Counts : SaveRun(c, n)  BY <1>2, <1>5 DEF SaveRun
  <1>6. CASE InsertRun(c) \/ InsertIteration(c) \/ IterationsInserted(c) \/ Commit(c)
    BY <1>2, <1>6 DEF InsertRun, InsertIteration, IterationsInserted, Commit, SaveEnds
  <1>7. CASE \E id \in 1..(MaxSaves + 1) : GetRun(c, id)  BY <1>2, <1>7 DEF GetRun
  <1>8. CASE GetIterations(c) \/ GetIterationsRaises(c) \/ ListRuns(c)
    BY <1>2, <1>8 DEF GetIterations, GetIterationsRaises, ListRuns
  <1> QED  BY <1>1, <1>3, <1>4, <1>5, <1>6, <1>7, <1>8, StepIsAction

-----------------------------------------------------------------------------
(***************************************************************************)
(* The invariant, and what it implies.                                     *)
(***************************************************************************)
LEMMA Initially == Init => IInv
  <1> SUFFICES ASSUME Init  PROVE IInv  OBVIOUS
  <1>1. <<>> \in Seq(Row) /\ Len(<<>>) = 0  BY EmptySeq
  <1>2. \A c \in Client : /\ pc[c] = "closed" /\ lock[c] = "none" /\ rows[c] = <<>>
                          /\ in_transaction[c] = FALSE
    BY DEF Init
  <1>3. TypeOK  BY <1>1, StorageAssumption DEF Init, TypeOK
  <1>4. LockInv  BY <1>2 DEF LockInv, Writer
  <1>5. CallInv /\ CleanInv  BY <1>2 DEF CallInv, CallOf, CleanInv, CleanOf, Saving
  <1>6. RowsInv  BY <1>1, <1>2 DEF RowsInv, RowsOf
  <1>7. TablesInv  BY <1>2 DEF TablesInv, TablesOf
  <1>8. SavedForGood /\ WholeUnlessFailed
    BY <1>1 DEF Init, SavedForGood, WholeUnlessFailed
  <1> QED  BY <1>3, <1>4, <1>5, <1>6, <1>7, <1>8 DEF IInv

LEMMA Inductive == IInv /\ [Next]_vars => IInv'
  <1> SUFFICES ASSUME IInv, [Next]_vars  PROVE IInv'  OBVIOUS
  <1>0. /\ TypeOK /\ LockInv /\ CallInv /\ RowsInv /\ CleanInv /\ TablesInv
        /\ SavedForGood /\ WholeUnlessFailed
    BY DEF IInv
  <1>1. CASE Next
    <2>1. PICK c \in Client : Step(c)  BY <1>1 DEF Next, Step
    <2>2. TypeOK'  BY <1>0, <2>1, TypeStep
    <2>3. LockInv'  BY <1>0, <2>1, LockStep
    <2>4. CallInv'  BY <1>0, <2>1, CallStep
    <2>5. RowsInv'  BY <1>0, <2>1, RowsStep
    <2>6. CleanInv'  BY <1>0, <2>1, CleanStep
    <2>7. TablesInv'  BY <1>0, <2>1, TablesStep
    <2>8. SavedForGood'  BY <1>0, <2>1, SavedStep
    <2>9. WholeUnlessFailed'  BY <1>0, <2>1, WholeStep
    <2> QED  BY <2>2, <2>3, <2>4, <2>5, <2>6, <2>7, <2>8, <2>9 DEF IInv
  <1>2. CASE UNCHANGED vars
    <2> USE <1>0, <1>2 DEF vars, connection, locals, history
    <2>1. TypeOK'  BY DEF TypeOK
    <2>2. LockInv'  BY DEF LockInv, Writer
    <2>3. CallInv'  BY DEF CallInv, CallOf, Saving, LastRow
    <2>4. RowsInv'  BY DEF RowsInv, RowsOf, Saving
    <2>5. CleanInv'  BY DEF CleanInv, CleanOf, Saving
    <2>6. TablesInv'  BY DEF TablesInv, TablesOf
    <2>7. SavedForGood' /\ WholeUnlessFailed'  BY DEF SavedForGood, WholeUnlessFailed
    <2> QED  BY <2>1, <2>2, <2>3, <2>4, <2>5, <2>6, <2>7 DEF IInv
  <1> QED  BY <1>1, <1>2

THEOREM Invariance == Spec => []IInv
  BY Initially, Inductive, PTL DEF Spec

\* Every variable keeps its type.
THEOREM TypeCorrect == Spec => []TypeOK
  BY Invariance, PTL DEF IInv

\* A run that save_run returned stays in the file under its id and complete,
\* whatever the other clients do.
THEOREM SavedForGoodHolds == Spec => []SavedForGood
  BY Invariance, PTL DEF IInv

\* A run lacks iterations in the file only if its save_run raised.
THEOREM WholeUnlessFailedHolds == Spec => []WholeUnlessFailed
  BY Invariance, PTL DEF IInv

\* An open Storage finds both tables.
THEOREM TablesThereHolds == Spec => []TablesThere
  <1>1. IInv => TablesThere  BY DEF IInv, TablesInv, TablesOf, TablesThere
  <1> QED  BY <1>1, Invariance, PTL
-----------------------------------------------------------------------------
(***************************************************************************)
(* A call ends (the half of CallsEnd that is not about fairness): the      *)
(* statements it has left, at most.                                        *)
(***************************************************************************)
Left(c) ==
  CASE pc[c] = "insert run"        -> job[c].iteration_count + 3
    [] pc[c] = "insert iterations" -> LastRow(c).iteration_count - LastRow(c).iterations + 2
    [] pc[c] = "create runs"       -> 2
    [] pc[c] \in {"create iterations", "commit", "select iterations"} -> 1
    [] OTHER -> 0

\* A sequence that is not empty has a last index.
LEMMA LastIndex ==
  ASSUME NEW S, NEW q \in Seq(S), q # <<>>
  PROVE  Len(q) \in 1..Len(q)
  BY EmptySeq

\* The row that is being written.
LEMMA Writing ==
  ASSUME IInv, NEW c \in Client, pc[c] = "insert iterations"
  PROVE  /\ rows[c] \in Seq(Row) /\ Len(rows[c]) \in 1..Len(rows[c])
         /\ LastRow(c) \in Row /\ LastRow(c).iteration_count \in Nat
         /\ LastRow(c).iterations \in Nat
         /\ LastRow(c).iterations <= LastRow(c).iteration_count
  <1>0. LastRow(c).iterations <= LastRow(c).iteration_count
    BY DEF IInv, CallInv, CallOf, Saving
  <1>1. rows[c] \in Seq(Row) /\ rows[c] # <<>>
    BY DEF IInv, TypeOK, CallInv, CallOf, Saving
  <1>2. Len(rows[c]) \in 1..Len(rows[c])  BY <1>1, LastIndex
  <1>3. LastRow(c) \in Row  BY <1>1, <1>2, ElementOfSeq DEF LastRow
  <1>4. LastRow(c).iteration_count \in Nat /\ LastRow(c).iterations \in Nat
    BY <1>3, StorageAssumption DEF Row
  <1> QED  BY <1>0, <1>1, <1>2, <1>3, <1>4

LEMMA LeftIsNat ==
  ASSUME IInv, NEW c \in Client
  PROVE  /\ Left(c) \in Nat
         /\ pc[c] \in Busy <=> Left(c) > 0
  <1>0. pc[c] \in Busy \cup {"closed", "idle"}  BY DEF IInv, TypeOK
  <1>1. CASE pc[c] = "insert run"
    <2>1. job[c].iteration_count \in Nat
      BY <1>1, StorageAssumption DEF IInv, CallInv, CallOf, Run
    <2>2. Left(c) = job[c].iteration_count + 3  BY <1>1 DEF Left
    <2>3. Left(c) \in Nat /\ Left(c) > 0  BY <2>1, <2>2
    <2> QED  BY <1>1, <2>3 DEF Busy
  <1>2. CASE pc[c] = "insert iterations"
    <2> DEFINE m == LastRow(c).iteration_count
               k == LastRow(c).iterations
    <2>1. Left(c) = m - k + 2  BY <1>2 DEF Left
    <2>2. m \in Nat /\ k \in Nat /\ k <= m  BY <1>2, Writing
    <2> HIDE DEF m, k
    <2>3. Left(c) \in Nat /\ Left(c) > 0  BY <2>1, <2>2
    <2> QED  BY <1>2, <2>3 DEF Busy
  <1>3. CASE pc[c] = "create runs"
    <2>1. Left(c) = 2  BY <1>3 DEF Left
    <2>2. Left(c) \in Nat /\ Left(c) > 0  BY <2>1
    <2> QED  BY <1>3, <2>2 DEF Busy
  <1>4. CASE pc[c] \in {"create iterations", "commit", "select iterations"}
    <2>1. Left(c) = 1  BY <1>4 DEF Left
    <2>2. Left(c) \in Nat /\ Left(c) > 0  BY <2>1
    <2> QED  BY <1>4, <2>2 DEF Busy
  <1>5. CASE pc[c] \in {"closed", "idle"}
    <2>1. Left(c) = 0  BY <1>5 DEF Left
    <2>2. Left(c) \in Nat /\ ~ (Left(c) > 0)  BY <2>1
    <2> QED  BY <1>5, <2>2 DEF Busy
  <1> QED  BY <1>0, <1>1, <1>2, <1>3, <1>4, <1>5 DEF Busy

\* A call that ends has nothing left.
LEMMA EndedFalls ==
  ASSUME IInv, NEW c \in Client, pc[c] \in Busy, pc'[c] \in {"idle", "closed"}
  PROVE  Left(c)' < Left(c)
  <1>1. Left(c)' = 0  BY DEF Left
  <1> QED  BY <1>1, LeftIsNat

LEMMA InsertFalls ==
  ASSUME IInv, NEW c \in Client, InsertRun(c) \/ InsertIteration(c)
  PROVE  Left(c)' < Left(c)
  <1>1. CASE InsertRun(c)
    <2>1. /\ pc[c] = "insert run" /\ pc'[c] = "insert iterations"
          /\ rows'[c] = Append(rows[c], NewRow(c))
      BY <1>1 DEF InsertRun, GoTo, IInv, TypeOK
    <2>2. job[c] \in Run  BY <2>1 DEF IInv, CallInv, CallOf
    <2>3. NewRow(c) \in Row /\ rows[c] \in Seq(Row)
      BY <2>2 DEF NewRow, Run, Row, IInv, TypeOK
    <2>4. LastRow(c)' = NewRow(c)
      <3> DEFINE r == rows[c]  e == NewRow(c)
      <3>1. rows'[c] = Append(r, e) /\ r \in Seq(Row) /\ e \in Row  BY <2>1, <2>3
      <3> HIDE DEF r, e
      <3>2. Append(r, e)[Len(Append(r, e))] = e  BY <3>1, AppendProperties
      <3> QED  BY <3>1, <3>2 DEF LastRow, e
    <2>5. Left(c)' = job[c].iteration_count - 0 + 2
      <3>1. Left(c)' = LastRow(c)'.iteration_count - LastRow(c)'.iterations + 2
        BY <2>1 DEF Left
      <3>2. LastRow(c)'.iteration_count = job[c].iteration_count /\ LastRow(c)'.iterations = 0
        BY <2>4 DEF NewRow
      <3> QED  BY <3>1, <3>2
    <2>6. Left(c) = job[c].iteration_count + 3  BY <2>1 DEF Left
    <2>7. job[c].iteration_count \in Nat  BY <2>2, StorageAssumption DEF Run
    <2> QED  BY <2>5, <2>6, <2>7
  <1>2. CASE InsertIteration(c)
    <2> DEFINE m == Len(rows[c])
    <2>1. pc[c] = "insert iterations" /\ pc'[c] = pc[c]
      BY <1>2 DEF InsertIteration
    <2>2. /\ rows[c] # <<>> /\ m \in 1..m
          /\ LastRow(c).iteration_count \in Nat /\ LastRow(c).iterations \in Nat
      BY <2>1, Writing DEF IInv, CallInv, CallOf, Saving
    <2>3. /\ Len(rows'[c]) = m
          /\ rows'[c][m] =
               [run |-> LastRow(c).run, iteration_count |-> LastRow(c).iteration_count,
                iterations |-> LastRow(c).iterations + 1]
      BY <1>2, <2>2, Inserted DEF IInv
    <2>4. /\ LastRow(c)'.iteration_count = LastRow(c).iteration_count
          /\ LastRow(c)'.iterations = LastRow(c).iterations + 1
      BY <2>3 DEF LastRow
    <2>5. Left(c) = LastRow(c).iteration_count - LastRow(c).iterations + 2
      BY <2>1 DEF Left
    <2>6. Left(c)' = LastRow(c).iteration_count - (LastRow(c).iterations + 1) + 2
      BY <2>1, <2>4 DEF Left
    <2> QED  BY <2>2, <2>5, <2>6
  <1> QED  BY <1>1, <1>2

LEMMA WorkFalls ==
  ASSUME IInv, NEW c \in Client, Work(c)
  PROVE  Left(c)' < Left(c)
  <1>1. CASE InsertRun(c) \/ InsertIteration(c)  BY <1>1, InsertFalls
  <1>2. CASE CreateRuns(c)
    <2>1. pc[c] = "create runs" /\ pc'[c] = "create iterations"
      BY <1>2 DEF CreateRuns, GoTo, IInv, TypeOK
    <2>2. Left(c) = 2  BY <2>1 DEF Left
    <2>3. Left(c)' = 1  BY <2>1 DEF Left
    <2> QED  BY <2>2, <2>3
  <1>3. CASE IterationsInserted(c)
    <2>1. pc[c] = "insert iterations" /\ pc'[c] = "commit"
      BY <1>3 DEF IterationsInserted, GoTo, IInv, TypeOK
    <2>2. Left(c)' = 1  BY <2>1 DEF Left
    <2> DEFINE m == LastRow(c).iteration_count
               k == LastRow(c).iterations
    <2>3. Left(c) = m - k + 2  BY <2>1 DEF Left
    <2>4. m \in Nat /\ k \in Nat /\ k <= m  BY <2>1, Writing
    <2> HIDE DEF m, k
    <2> QED  BY <2>2, <2>3, <2>4
  <1>4. CASE Fails(c)
    <2>1. (pc[c] = "insert run" \/ Saving(c)) /\ pc' = [pc EXCEPT ![c] = "idle"]
      BY <1>4, FailsIs DEF IInv
    <2>2. pc[c] \in Busy /\ pc'[c] = "idle"
      BY <2>1 DEF Saving, Busy, IInv, TypeOK
    <2> QED  BY <2>2, EndedFalls
  <1>5. CASE CreateIterations(c) \/ OpenRaises(c) \/ Commit(c)
             \/ GetIterations(c) \/ GetIterationsRaises(c)
    <2>1. pc[c] \in Busy /\ pc'[c] \in {"idle", "closed"}
      BY <1>5 DEF CreateIterations, OpenRaises, Disconnected, Commit, SaveEnds,
                  GetIterations, GetIterationsRaises, GoTo, Busy, IInv, TypeOK
    <2> QED  BY <2>1, EndedFalls
  <1> QED  BY <1>1, <1>2, <1>3, <1>4, <1>5 DEF Work, Fails

\* What a call has left is its own.
LEMMA OthersLeft ==
  ASSUME IInv, NEW c \in Client, Step(c), NEW d \in Others(c)
  PROVE  Left(d)' = Left(d)
  <1>1. pc'[d] = pc[d] /\ job'[d] = job[d] /\ rows'[d] = rows[d]
    BY OthersKeep DEF IInv
  <1> QED  BY <1>1 DEF Left, LastRow

\* A call takes a bounded number of statements, a save_run of n iterations at
\* most n + 3 of them: each lowers what the call has left, whether it succeeds
\* or raises, and nothing the other clients do raises it again.
THEOREM StatementsBounded ==
  Spec => /\ [](\A c \in Client : Left(c) \in Nat)
          /\ [][\A c \in Client : Work(c) => Left(c)' < Left(c)]_vars
          /\ [][\A c \in Client, n \in Counts : SaveRun(c, n) => Left(c)' = n + 3]_vars
          /\ [][\A c \in Client : Step(c) => \A d \in Others(c) : Left(d)' = Left(d)]_vars
  <1>1. IInv => \A c \in Client : Left(c) \in Nat  BY LeftIsNat
  <1>2. IInv => \A c \in Client : Work(c) => Left(c)' < Left(c)  BY WorkFalls
  <1>3. IInv => \A c \in Client, n \in Counts : SaveRun(c, n) => Left(c)' = n + 3
    <2> SUFFICES ASSUME IInv, NEW c \in Client, NEW n \in Counts, SaveRun(c, n)
                 PROVE  Left(c)' = n + 3
      OBVIOUS
    <2>1. pc'[c] = "insert run"  BY DEF SaveRun, GoTo, IInv, TypeOK
    <2>2. Left(c)' = job'[c].iteration_count + 3  BY <2>1 DEF Left
    <2>3. job'[c].iteration_count = n
      <3> DEFINE k == saves + 1
      <3>1. job' = [job EXCEPT ![c] = [run |-> k, iteration_count |-> n]]  BY DEF SaveRun
      <3> HIDE DEF k
      <3> QED  BY <3>1 DEF IInv, TypeOK
    <2> QED  BY <2>2, <2>3
  <1>4. IInv => \A c \in Client : Step(c) => \A d \in Others(c) : Left(d)' = Left(d)
    BY OthersLeft
  <1> QED  BY <1>1, <1>2, <1>3, <1>4, Invariance, PTL
-----------------------------------------------------------------------------
(***************************************************************************)
(* Storage implements RunTable.  The runs that are settled are those whose *)
(* save_run returned or raised; the file holds no other.                   *)
(***************************************************************************)
Working(c) == pc[c] = "insert run" \/ Saving(c)

Settled == failed \cup {s.job.run : s \in returned}

SettledInv ==
  /\ \A k \in Settled : k <= saves
  /\ \A k \in 1..Len(file) : file[k].run \in Settled

\* A run that is being saved is a new one, and of one client.
FreshOf(c) ==
  Working(c) =>
    /\ job[c].run <= saves /\ job[c].run \notin Settled
    /\ \A d \in Others(c) : Working(d) => job[d].run # job[c].run

\* A row that waits for a commit is of the run being saved, or was given up.
OwnedOf(c) ==
  \A k \in 1..Len(rows[c]) : rows[c][k].run \in failed \/ (k = Len(rows[c]) /\ Saving(c))

\* No connection sees a run twice.
UniqueOf(c) ==
  /\ \A j, k \in 1..Len(rows[c]) : rows[c][j].run = rows[c][k].run => j = k
  /\ \A j \in 1..Len(file), k \in 1..Len(rows[c]) : file[j].run # rows[c][k].run

FileUnique == \A j, k \in 1..Len(file) : file[j].run = file[k].run => j = k

FreshInv  == \A c \in Client : FreshOf(c)
OwnedInv  == \A c \in Client : OwnedOf(c)
UniqueInv == FileUnique /\ \A c \in Client : UniqueOf(c)

TableInv == SettledInv /\ FreshInv /\ OwnedInv /\ UniqueInv

\* What a step that is not the end of a save_run keeps of the history.
LEMMA HistoryStep ==
  ASSUME NEW c \in Client, Step(c), ~ Commit(c), ~ Fails(c)
  PROVE  /\ UNCHANGED <<file, failed, returned>> /\ Settled' = Settled
         /\ saves' = saves \/ \E n \in Counts : SaveRun(c, n)
  <1>1. UNCHANGED <<file, returned>>  BY FileStep
  <1>2. /\ failed' = failed
        /\ saves' = saves \/ \E n \in Counts : SaveRun(c, n)
    <2> USE DEF history
    <2>1. CASE Quiet(c)
      BY <2>1 DEF Quiet, Open, CreateRuns, CreateIterations, CreateTable
    <2>2. CASE Leaves(c)  BY <2>2 DEF Leaves, OpenRaises, Close, Crash, Disconnected
    <2>3. CASE \E n \in Counts : SaveRun(c, n)  BY <2>3 DEF SaveRun
    <2>4. CASE InsertRun(c) \/ InsertIteration(c) \/ IterationsInserted(c)
      BY <2>4 DEF InsertRun, InsertIteration, IterationsInserted
    <2>5. CASE \E id \in 1..(MaxSaves + 1) : GetRun(c, id)  BY <2>5 DEF GetRun
    <2>6. CASE GetIterations(c) \/ GetIterationsRaises(c) \/ ListRuns(c)
      BY <2>6 DEF GetIterations, GetIterationsRaises, ListRuns
    <2> QED  BY <2>1, <2>2, <2>3, <2>4, <2>5, <2>6, StepIsAction
  <1> QED  BY <1>1, <1>2 DEF Settled

\* What a save_run that is over has settled.
LEMMA SettledIs ==
  ASSUME TypeOK, LockInv, CallInv, NEW c \in Client, Commit(c) \/ Fails(c)
  PROVE  /\ Settled' = Settled \cup {job[c].run} /\ saves' = saves
         /\ Working(c) /\ ~ Working(c)'
         /\ Commit(c) => failed' = failed
         /\ ~ Commit(c) => /\ failed' = failed \cup {job[c].run}
                           /\ UNCHANGED <<file, returned>>
                           /\ rows'[c] = <<>> \/ rows' = rows
  <1>1. CASE Commit(c)
    <2>1. /\ returned' = returned \cup {[id |-> run_id[c], job |-> job[c]]}
          /\ failed' = failed /\ saves' = saves
      BY <1>1 DEF Commit, SaveEnds
    <2>2. {s.job.run : s \in returned'} = {s.job.run : s \in returned} \cup {job[c].run}
      <3> DEFINE x == [id |-> run_id[c], job |-> job[c]]
      <3>1. x.job = job[c]  OBVIOUS
      <3>2. returned' = returned \cup {x}  BY <2>1
      <3> HIDE DEF x
      <3> QED  BY <3>1, <3>2
    <2>3. Saving(c) /\ pc'[c] = "idle"  BY <1>1, CommitIs
    <2>4. Settled' = Settled \cup {job[c].run}  BY <2>1, <2>2 DEF Settled
    <2> QED  BY <1>1, <2>1, <2>3, <2>4 DEF Working, Saving
  <1>2. CASE Fails(c) /\ ~ Commit(c)
    <2>1. /\ pc[c] = "insert run" \/ Saving(c)
          /\ pc' = [pc EXCEPT ![c] = "idle"]
          /\ failed' = failed \cup {job[c].run} /\ UNCHANGED <<saves, file, returned>>
          /\ KeepsRows(c) \/ Rollback(c)
      BY <1>2, FailsIs
    <2>2. pc'[c] = "idle"  BY <2>1 DEF TypeOK
    <2>3. rows'[c] = <<>> \/ rows' = rows  BY <2>1 DEF KeepsRows, Rollback, TypeOK
    <2>4. Settled' = Settled \cup {job[c].run}  BY <2>1 DEF Settled
    <2> QED  BY <1>2, <2>1, <2>2, <2>3, <2>4 DEF Working, Saving
  <1> QED  BY <1>1, <1>2

\* The runs of the rows that a step leaves in the transaction.
SameRuns(c) ==
  /\ Len(rows'[c]) = Len(rows[c])
  /\ \A k \in 1..Len(rows[c]) : rows'[c][k].run = rows[c][k].run

LEMMA ClientStep ==
  ASSUME TypeOK, LockInv, CallInv, NEW c \in Client, Step(c), ~ Commit(c), ~ Fails(c)
  PROVE  /\ rows'[c] = <<>> \/ InsertRun(c) \/ (SameRuns(c) /\ (Saving(c) => Saving(c)'))
         /\ Working(c)' => \/ Working(c) /\ job'[c] = job[c]
                           \/ \E n \in Counts : SaveRun(c, n)
  <1> USE DEF GoTo, connection, locals, history
  <1>1. CASE rows' = rows /\ (Saving(c) => Saving(c)') /\ ~ Working(c)'
    BY <1>1 DEF SameRuns
  <1>2. CASE Quiet(c)
    BY <1>1, <1>2 DEF Quiet, Open, CreateRuns, CreateIterations, CreateTable, Working, Saving, TypeOK
  <1>3. CASE Leaves(c)
    <2>1. rows'[c] = <<>> /\ pc'[c] = "closed"
      BY <1>3 DEF Leaves, OpenRaises, Close, Crash, Disconnected, Rollback, TypeOK
    <2> QED  BY <2>1 DEF Working, Saving
  <1>4. CASE \E n \in Counts : SaveRun(c, n)
    <2>1. rows' = rows /\ ~ Saving(c)  BY <1>4 DEF SaveRun, Saving
    <2> QED  BY <1>4, <2>1 DEF SameRuns
  <1>5. CASE InsertRun(c)
    <2>1. job'[c] = job[c] /\ Working(c)  BY <1>5 DEF InsertRun, Working
    <2> QED  BY <1>5, <2>1
  <1>6. CASE InsertIteration(c)
    <2>0. pc[c] = "insert iterations" /\ job' = job /\ pc' = pc  BY <1>6 DEF InsertIteration
    <2>1. rows[c] # <<>>  BY <2>0 DEF CallInv, CallOf, Saving
    <2>2. /\ Len(rows'[c]) = Len(rows[c])
          /\ \A k \in 1..Len(rows[c]) : k # Len(rows[c]) => rows'[c][k] = rows[c][k]
          /\ rows'[c][Len(rows[c])] =
               [run |-> LastRow(c).run, iteration_count |-> LastRow(c).iteration_count,
                iterations |-> LastRow(c).iterations + 1]
      BY <1>6, <2>1, Inserted
    <2>3. rows'[c][Len(rows[c])].run = rows[c][Len(rows[c])].run  BY <2>2 DEF LastRow
    <2>4. SameRuns(c)  BY <2>2, <2>3 DEF SameRuns
    <2> QED  BY <2>0, <2>4 DEF Working, Saving
  <1>7. CASE IterationsInserted(c)
    <2>1. rows' = rows /\ job' = job /\ Saving(c) /\ Saving(c)'
      BY <1>7 DEF IterationsInserted, Saving, TypeOK
    <2> QED  BY <2>1 DEF SameRuns, Working
  <1>8. CASE \E id \in 1..(MaxSaves + 1) : GetRun(c, id)
    <2>1. rows' = rows /\ ~ Saving(c) /\ ~ Working(c)'
      BY <1>8 DEF GetRun, NotFound, Read, Saving, Working, TypeOK
    <2> QED  BY <1>1, <2>1
  <1>9. CASE GetIterations(c) \/ GetIterationsRaises(c) \/ ListRuns(c)
    <2>1. rows' = rows /\ ~ Saving(c) /\ ~ Working(c)'
      BY <1>9 DEF GetIterations, GetIterationsRaises, ListRuns, Read, Saving, Working, TypeOK
    <2> QED  BY <1>1, <2>1
  <1> QED  BY <1>2, <1>3, <1>4, <1>5, <1>6, <1>7, <1>8, <1>9, StepIsAction
-----------------------------------------------------------------------------
\* A commit adds the rows of its transaction, of runs given up and of the run
\* that is saved.
LEMMA CommittedRows ==
  ASSUME TypeOK, LockInv, CallInv, NEW c \in Client, Commit(c)
  PROVE  \A k \in 1..Len(file') :
           \/ k \in 1..Len(file) /\ file'[k] = file[k]
           \/ \E i \in 1..Len(rows[c]) : k = Len(file) + i /\ file'[k] = rows[c][i]
  <1>1. file' = View(c)  BY CommitIs
  <1> QED  BY <1>1, ViewProperties

\* save_run counts the runs that are saved.
LEMMA SavesIs ==
  ASSUME TypeOK, NEW c \in Client
  PROVE  saves \in Nat /\ \A n \in Counts : SaveRun(c, n) => saves' = saves + 1
  <1>1. saves \in 0..MaxSaves  BY DEF TypeOK
  <1>2. saves \in Nat  BY <1>1, StorageAssumption
  <1>3. \A n \in Counts : SaveRun(c, n) => saves' = saves + 1  BY DEF SaveRun
  <1> QED  BY <1>2, <1>3

LEMMA SettledStep ==
  ASSUME TypeOK, LockInv, CallInv, TableInv, NEW c \in Client, Step(c)
  PROVE  SettledInv'
  <1>0. SettledInv /\ FreshOf(c) /\ OwnedOf(c)  BY DEF TableInv, FreshInv, OwnedInv
  <1>1. CASE Commit(c) \/ Fails(c)
    <2>1. Settled' = Settled \cup {job[c].run} /\ saves' = saves /\ Working(c)
      BY <1>1, SettledIs
    <2>2. \A k \in Settled' : k <= saves'  BY <1>0, <2>1 DEF SettledInv, FreshOf
    <2>3. CASE ~ Commit(c)
      <3>1. file' = file  BY <1>1, <2>3, SettledIs
      <3> QED  BY <1>0, <2>1, <2>2, <3>1 DEF SettledInv
    <2>4. CASE Commit(c)
      <3>1. /\ \A k \in 1..Len(file') :
                 \/ k \in 1..Len(file) /\ file'[k] = file[k]
                 \/ \E i \in 1..Len(rows[c]) : k = Len(file) + i /\ file'[k] = rows[c][i]
        BY <2>4, CommittedRows
      <3>2. rows[c][Len(rows[c])].run = job[c].run
        BY <2>4, CommitIs DEF CallInv, CallOf, LastRow
      <3>3. \A i \in 1..Len(rows[c]) : rows[c][i].run \in Settled'
        BY <1>0, <2>1, <3>2 DEF OwnedOf, Settled
      <3>4. \A k \in 1..Len(file) : file[k].run \in Settled'  BY <1>0, <2>1 DEF SettledInv
      <3>5. \A k \in 1..Len(file') : file'[k].run \in Settled'  BY <3>1, <3>3, <3>4
      <3> QED  BY <2>2, <3>5 DEF SettledInv
    <2> QED  BY <2>3, <2>4
  <1>2. CASE ~ Commit(c) /\ ~ Fails(c)
    <2>1. /\ file' = file /\ Settled' = Settled
          /\ saves' = saves \/ \E n \in Counts : SaveRun(c, n)
      BY <1>2, HistoryStep
    <2>2. saves \in Nat /\ (saves' = saves \/ saves' = saves + 1)  BY <2>1, SavesIs
    <2>3. \A k \in Settled : k \in Nat
      <3>1. failed \subseteq 1..MaxSaves /\ returned \subseteq [id : Nat, job : Run]
        BY DEF TypeOK
      <3>2. ASSUME NEW s \in returned  PROVE s.job.run \in 1..MaxSaves
        BY <3>1 DEF Run
      <3> QED  BY <3>1, <3>2 DEF Settled
    <2>4. \A k \in Settled : k <= saves  BY <1>0 DEF SettledInv
    <2>5. \A k \in Settled : k <= saves'  BY <2>2, <2>3, <2>4
    <2> QED  BY <1>0, <2>1, <2>5 DEF SettledInv
  <1> QED  BY <1>1, <1>2

\* A new save_run is of a run with a number of its own.
LEMMA StartsFresh ==
  ASSUME TypeOK, TableInv, NEW c \in Client, NEW n \in Counts, SaveRun(c, n)
  PROVE  /\ job'[c].run = saves' /\ saves' \notin Settled
         /\ \A d \in Others(c) : Working(d) => job[d].run # saves'
         /\ \A k \in Int : k <= saves => k <= saves'
  <1>1. saves \in Nat /\ saves' = saves + 1  BY SavesIs
  <1>2. job'[c].run = saves'
    <2> DEFINE k == saves + 1
    <2>1. job' = [job EXCEPT ![c] = [run |-> k, iteration_count |-> n]] /\ saves' = k
      BY DEF SaveRun
    <2> HIDE DEF k
    <2> QED  BY <2>1 DEF TypeOK
  <1>3. \A k \in Settled : k <= saves  BY DEF TableInv, SettledInv
  <1>4. ~ (saves + 1 <= saves)  BY <1>1
  <1>5. saves' \notin Settled  BY <1>1, <1>3, <1>4
  <1>6. ASSUME NEW d \in Others(c), Working(d)  PROVE job[d].run # saves'
    <2>1. d \in Client  BY DEF Others
    <2>2. job[d].run <= saves  BY <1>6, <2>1 DEF TableInv, FreshInv, FreshOf
    <2> QED  BY <1>1, <1>4, <2>2
  <1>7. \A k \in Int : k <= saves => k <= saves'  BY <1>1
  <1> QED  BY <1>2, <1>5, <1>6, <1>7

LEMMA FreshStep ==
  ASSUME TypeOK, LockInv, CallInv, TableInv, NEW c \in Client, Step(c)
  PROVE  FreshInv'
  <1>0. /\ \A d \in Client : FreshOf(d)
        /\ \A d \in Client : Working(d) => job[d].run \in Int
    <2>1. \A d \in Client : Working(d) => job[d] \in Run  BY DEF CallInv, CallOf, Working
    <2> QED  BY <2>1 DEF TableInv, FreshInv, Run
  <1>1. ASSUME NEW d \in Others(c)
        PROVE  /\ d \in Client /\ c \in Others(d) /\ job'[d] = job[d]
               /\ Working(d)' <=> Working(d)
    <2>1. pc'[d] = pc[d] /\ job'[d] = job[d]  BY OthersKeep
    <2> QED  BY <2>1 DEF Others, Working, Saving
  <1>2. CASE Commit(c) \/ Fails(c)
    <2>1. Settled' = Settled \cup {job[c].run} /\ saves' = saves /\ Working(c) /\ ~ Working(c)'
      BY <1>2, SettledIs
    <2>2. ASSUME NEW d \in Others(c)  PROVE FreshOf(d)'
      <3>1. Working(d) => job[d].run # job[c].run  BY <1>0, <1>1, <2>1 DEF FreshOf
      <3>2. \A e \in Others(d) : Working(e)' => e # c /\ Working(e) /\ job'[e] = job[e]
        BY <1>1, <2>1 DEF Others
      <3> QED  BY <1>0, <1>1, <2>1, <3>1, <3>2 DEF FreshOf, Others
    <2>3. FreshOf(c)'  BY <2>1 DEF FreshOf
    <2> QED  BY <2>2, <2>3 DEF FreshInv, Others
  <1>3. ASSUME NEW n \in Counts, SaveRun(c, n), ~ Commit(c), ~ Fails(c)  PROVE FreshInv'
    <2>1. Settled' = Settled  BY <1>3, HistoryStep
    <2>2. /\ job'[c].run = saves' /\ saves' \notin Settled
          /\ \A d \in Others(c) : Working(d) => job[d].run # saves'
          /\ \A k \in Int : k <= saves => k <= saves'
      BY <1>3, StartsFresh
    <2>3. saves' \in Int
      <3>1. saves \in Nat /\ saves' = saves + 1  BY <1>3, SavesIs
      <3> QED  BY <3>1
    <2>4. saves' <= saves'  BY <2>3
    <2>5. FreshOf(c)'  BY <1>1, <2>1, <2>2, <2>4 DEF FreshOf
    <2>6. ASSUME NEW d \in Others(c)  PROVE FreshOf(d)'
      <3>1. ASSUME NEW e \in Others(d), Working(d)', Working(e)'
            PROVE  job'[e].run # job'[d].run
        <4>1. CASE e = c  BY <1>1, <2>2, <3>1, <4>1
        <4>2. CASE e # c
          <5>1. e \in Others(c)  BY <4>2 DEF Others
          <5> QED  BY <1>0, <1>1, <3>1, <5>1 DEF FreshOf
        <4> QED  BY <4>1, <4>2
      <3>2. Working(d) => job[d].run <= saves'  BY <1>0, <1>1, <2>2 DEF FreshOf
      <3>3. Working(d) => job[d].run \notin Settled  BY <1>0, <1>1 DEF FreshOf
      <3> QED  BY <1>1, <2>1, <3>1, <3>2, <3>3 DEF FreshOf, Others
    <2> QED  BY <2>5, <2>6 DEF FreshInv, Others
  <1>4. CASE ~ Commit(c) /\ ~ Fails(c) /\ ~ \E n \in Counts : SaveRun(c, n)
    <2>1. Settled' = Settled /\ saves' = saves  BY <1>4, HistoryStep
    <2>2. Working(c)' => Working(c) /\ job'[c] = job[c]  BY <1>4, ClientStep
    <2>3. \A d \in Client : Working(d)' => Working(d) /\ job'[d] = job[d]
      BY <1>1, <2>2 DEF Others
    <2>4. ASSUME NEW d \in Client  PROVE FreshOf(d)'
      BY <1>0, <2>1, <2>3 DEF FreshOf, Others
    <2> QED  BY <2>4 DEF FreshInv
  <1> QED  BY <1>2, <1>3, <1>4

\* Only a save_run that is over leaves its row to the transaction, and then
\* it has failed.
LEMMA OwnedStep ==
  ASSUME TypeOK, LockInv, CallInv, TableInv, NEW c \in Client, Step(c)
  PROVE  OwnedInv'
  <1>0. failed \subseteq failed'  BY FailedGrows
  <1>1. ASSUME NEW d \in Others(c)  PROVE OwnedOf(d)'
    <2>1. d \in Client /\ OwnedOf(d)  BY DEF Others, TableInv, OwnedInv
    <2>2. pc'[d] = pc[d] /\ rows'[d] = rows[d]  BY OthersKeep
    <2> QED  BY <1>0, <2>1, <2>2 DEF OwnedOf, Saving
  <1>2. OwnedOf(c)'
    <2>0. OwnedOf(c) /\ CallOf(c)  BY DEF TableInv, OwnedInv, CallInv
    <2>1. CASE rows'[c] = <<>>  BY <2>1 DEF OwnedOf
    <2>2. CASE Commit(c)  BY <2>1, <2>2, CommitIs
    <2>3. CASE Fails(c) /\ ~ Commit(c) /\ rows' = rows
      <3>1. failed' = failed \cup {job[c].run}  BY <2>3, SettledIs
      <3>2. Saving(c) => rows[c][Len(rows[c])].run = job[c].run  BY <2>0 DEF CallOf, LastRow
      <3> QED  BY <2>0, <2>3, <3>1, <3>2 DEF OwnedOf
    <2>4. CASE SameRuns(c) /\ (Saving(c) => Saving(c)')
      BY <1>0, <2>0, <2>4 DEF SameRuns, OwnedOf
    <2>5. CASE InsertRun(c)
      <3>1. job[c] \in Run /\ ~ Saving(c) /\ Saving(c)'
        BY <2>0, <2>5 DEF InsertRun, CallOf, Saving, GoTo, TypeOK
      <3>2. NewRow(c) \in Row  BY <3>1 DEF NewRow, Run, Row
      <3>3. rows'[c] = Append(rows[c], NewRow(c))  BY <2>5 DEF InsertRun, TypeOK
      <3>4. rows[c] \in Seq(Row)  BY DEF TypeOK
      <3>5. /\ Len(rows'[c]) = Len(rows[c]) + 1 /\ Len(rows[c]) \in Nat
            /\ \A k \in 1..Len(rows[c]) : rows'[c][k] = rows[c][k]
        BY <3>2, <3>3, <3>4
      <3>6. ASSUME NEW k \in 1..Len(rows'[c])
            PROVE  k = Len(rows'[c]) \/ (k \in 1..Len(rows[c]) /\ rows'[c][k] = rows[c][k])
        BY <3>5
      <3> QED  BY <1>0, <2>0, <3>1, <3>6 DEF OwnedOf
    <2> QED  BY <2>1, <2>2, <2>3, <2>4, <2>5, SettledIs, ClientStep
  <1> QED  BY <1>1, <1>2 DEF OwnedInv, Others

\* A transaction gets the row of a run that no row is of.
LEMMA NewRowUnique ==
  ASSUME TypeOK, CallInv, TableInv, NEW c \in Client, InsertRun(c), file' = file
  PROVE  UniqueOf(c)'
  <1>0. SettledInv /\ FreshOf(c) /\ OwnedOf(c) /\ UniqueOf(c)
    BY DEF TableInv, FreshInv, OwnedInv, UniqueInv
  <1>1. pc[c] = "insert run"  BY DEF InsertRun
  <1>2. job[c] \in Run /\ job[c].run \notin Settled
    BY <1>0, <1>1 DEF CallInv, CallOf, FreshOf, Working
  <1>3. NewRow(c) \in Row /\ NewRow(c).run = job[c].run  BY <1>2 DEF NewRow, Run, Row
  <1>4. rows'[c] = Append(rows[c], NewRow(c)) /\ rows[c] \in Seq(Row)  BY DEF InsertRun, TypeOK
  <1> DEFINE n == Len(rows[c]) + 1
  <1>5. /\ Len(rows'[c]) = n /\ rows'[c][n] = NewRow(c)
        /\ \A k \in 1..n : k = n \/ (k \in 1..Len(rows[c]) /\ rows'[c][k] = rows[c][k])
    BY <1>3, <1>4
  <1>6. \A k \in 1..Len(rows[c]) : rows[c][k].run # job[c].run
    <2>1. ~ Saving(c)  BY <1>1 DEF Saving
    <2> QED  BY <1>0, <1>2, <2>1 DEF OwnedOf, Settled
  <1>7. \A k \in 1..Len(file) : file[k].run # job[c].run  BY <1>0, <1>2 DEF SettledInv
  <1> HIDE DEF n
  <1>8. \A j, k \in 1..n : rows'[c][j].run = rows'[c][k].run => j = k
    BY <1>0, <1>3, <1>5, <1>6 DEF UniqueOf
  <1>9. \A j \in 1..Len(file), k \in 1..n : file[j].run # rows'[c][k].run
    BY <1>0, <1>3, <1>5, <1>7 DEF UniqueOf
  <1> QED  BY <1>5, <1>8, <1>9 DEF UniqueOf

LEMMA UniqueStep ==
  ASSUME TypeOK, LockInv, CallInv, TableInv, NEW c \in Client, Step(c)
  PROVE  UniqueInv'
  <1>0. FileUnique /\ \A d \in Client : UniqueOf(d)  BY DEF TableInv, UniqueInv
  <1>1. CASE Commit(c)
    <2>1. \A k \in 1..Len(file') :
            \/ k \in 1..Len(file) /\ file'[k] = file[k]
            \/ \E i \in 1..Len(rows[c]) : k = Len(file) + i /\ file'[k] = rows[c][i]
      BY <1>1, CommittedRows
    <2>2. FileUnique'
      <3> SUFFICES ASSUME NEW j \in 1..Len(file'), NEW k \in 1..Len(file'),
                          file'[j].run = file'[k].run
                   PROVE  j = k
        BY DEF FileUnique
      <3>1. UniqueOf(c)  BY <1>0
      <3>2. CASE j \in 1..Len(file) /\ file'[j] = file[j] /\ k \in 1..Len(file) /\ file'[k] = file[k]
        BY <1>0, <3>2 DEF FileUnique
      <3>3. ASSUME NEW i \in 1..Len(rows[c]), j = Len(file) + i, file'[j] = rows[c][i]
            PROVE  j = k
        <4>1. CASE k \in 1..Len(file) /\ file'[k] = file[k]
          BY <3>1, <3>3, <4>1 DEF UniqueOf
        <4>2. ASSUME NEW l \in 1..Len(rows[c]), k = Len(file) + l, file'[k] = rows[c][l]
              PROVE  j = k
          <5>1. i = l  BY <3>1, <3>3, <4>2 DEF UniqueOf
          <5> QED  BY <3>3, <4>2, <5>1
        <4> QED  BY <2>1, <4>1, <4>2
      <3>4. ASSUME j \in 1..Len(file), file'[j] = file[j],
                   NEW l \in 1..Len(rows[c]), k = Len(file) + l, file'[k] = rows[c][l]
            PROVE  j = k
        BY <3>1, <3>4 DEF UniqueOf
      <3> QED  BY <2>1, <3>2, <3>3, <3>4
    <2>3. \A d \in Client : rows'[d] = <<>>  BY <1>1, CommitIs DEF Others
    <2>4. \A d \in Client : UniqueOf(d)'  BY <2>3 DEF UniqueOf
    <2> QED  BY <2>2, <2>4 DEF UniqueInv
  <1>2. CASE ~ Commit(c)
    <2>1. file' = file  BY <1>2, FileStep
    <2>2. FileUnique'  BY <1>0, <2>1 DEF FileUnique
    <2>3. ASSUME NEW d \in Others(c)  PROVE UniqueOf(d)'
      <3>1. d \in Client  BY DEF Others
      <3>2. rows'[d] = rows[d]  BY OthersKeep
      <3> QED  BY <1>0, <2>1, <3>1, <3>2 DEF UniqueOf
    <2>4. UniqueOf(c)'
      <3>1. CASE rows'[c] = <<>>  BY <3>1 DEF UniqueOf
      <3>2. CASE rows' = rows \/ SameRuns(c)  BY <1>0, <2>1, <3>2 DEF UniqueOf, SameRuns
      <3>3. CASE InsertRun(c)  BY <2>1, <3>3, NewRowUnique
      <3> QED  BY <1>2, <3>1, <3>2, <3>3, SettledIs, ClientStep
    <2> QED  BY <2>2, <2>3, <2>4 DEF UniqueInv, Others
  <1> QED  BY <1>1, <1>2

LEMMA TableInitially == Init => TableInv
  <1> SUFFICES ASSUME Init  PROVE TableInv  OBVIOUS
  <1>1. Len(<<>>) = 0  BY EmptySeq
  <1>2. file = <<>> /\ failed = {} /\ returned = {}  BY DEF Init
  <1>3. \A c \in Client : pc[c] = "closed" /\ rows[c] = <<>>  BY DEF Init
  <1>4. SettledInv  BY <1>1, <1>2 DEF SettledInv, Settled
  <1>5. FreshInv  BY <1>3 DEF FreshInv, FreshOf, Working, Saving
  <1>6. OwnedInv  BY <1>1, <1>3 DEF OwnedInv, OwnedOf
  <1>7. UniqueInv  BY <1>1, <1>2, <1>3 DEF UniqueInv, UniqueOf, FileUnique
  <1> QED  BY <1>4, <1>5, <1>6, <1>7 DEF TableInv

LEMMA TableInductive == IInv /\ TableInv /\ [Next]_vars => TableInv'
  <1> SUFFICES ASSUME IInv, TableInv, [Next]_vars  PROVE TableInv'  OBVIOUS
  <1>1. CASE Next
    <2>1. PICK c \in Client : Step(c)  BY <1>1 DEF Next, Step
    <2>2. TypeOK /\ LockInv /\ CallInv  BY DEF IInv
    <2>3. SettledInv'  BY <2>1, <2>2, SettledStep
    <2>4. FreshInv'  BY <2>1, <2>2, FreshStep
    <2>5. OwnedInv'  BY <2>1, <2>2, OwnedStep
    <2>6. UniqueInv'  BY <2>1, <2>2, UniqueStep
    <2> QED  BY <2>3, <2>4, <2>5, <2>6 DEF TableInv
  <1>2. CASE UNCHANGED vars
    <2> USE <1>2 DEF vars, connection, locals, history, TableInv
    <2>1. SettledInv'  BY DEF SettledInv, Settled
    <2>2. FreshInv'  BY DEF FreshInv, FreshOf, Working, Saving, Settled
    <2>3. OwnedInv'  BY DEF OwnedInv, OwnedOf, Saving
    <2>4. UniqueInv'  BY DEF UniqueInv, UniqueOf, FileUnique
    <2> QED  BY <2>1, <2>2, <2>3, <2>4
  <1> QED  BY <1>1, <1>2

-----------------------------------------------------------------------------
(***************************************************************************)
(* What get_run saw: a row of the file, or one of its own connection's,    *)
(* left there by a save_run that raised.                                   *)
(***************************************************************************)
Seen(c, r) ==
  \/ r.id \in 1..Len(file) /\ file[r.id] = r.row
  \/ c \in spoilt /\ r.row.run \in failed

SeenOf(c) ==
  /\ pc[c] = "select iterations" => Seen(c, run_row[c])
  /\ record[c] # None => Seen(c, record[c])

SeenInv == \A c \in Client : SeenOf(c)

\* What a client between two calls sees is in the file, or was given up.
LEMMA ViewSeen ==
  ASSUME TypeOK, CleanInv, OwnedInv, NEW c \in Client, ~ Saving(c), NEW k \in 1..Len(View(c))
  PROVE  Seen(c, [id |-> k, row |-> View(c)[k]])
  <1>1. CASE k \in 1..Len(file) /\ View(c)[k] = file[k]  BY <1>1 DEF Seen
  <1>2. CASE \E i \in 1..Len(rows[c]) : k = Len(file) + i /\ View(c)[k] = rows[c][i]
    <2>1. PICK i \in 1..Len(rows[c]) : View(c)[k] = rows[c][i]  BY <1>2
    <2>2. rows[c][i].run \in failed  BY DEF OwnedInv, OwnedOf
    <2>3. rows[c] # <<>>
      <3>1. Len(<<>>) = 0  BY EmptySeq
      <3> QED  BY <3>1
    <2>4. c \in spoilt  BY <2>3 DEF CleanInv, CleanOf
    <2> QED  BY <2>1, <2>2, <2>4 DEF Seen
  <1> QED  BY <1>1, <1>2, ViewProperties

LEMMA SeenStep ==
  ASSUME TypeOK, LockInv, CallInv, CleanInv, OwnedInv, SeenInv, NEW c \in Client, Step(c)
  PROVE  SeenInv'
  <1> DEFINE SeenNext(e, r) == \/ r.id \in 1..Len(file') /\ file'[r.id] = r.row
                               \/ e \in spoilt' /\ r.row.run \in failed'
  <1>1. \A k \in 1..Len(file) : k \in 1..Len(file') /\ file'[k] = file[k]
    <2>1. CASE ~ Commit(c)  BY <2>1, FileStep
    <2>2. CASE Commit(c)
      <3>1. Len(file') = Len(file) + Len(rows[c]) /\ \A k \in 1..Len(file) : file'[k] = file[k]
        BY <2>2, CommitIs
      <3>2. Len(file) \in Nat /\ Len(rows[c]) \in Nat  BY LenProperties DEF TypeOK
      <3>3. 1..Len(file) \subseteq 1..Len(file')  BY <3>1, <3>2
      <3> QED  BY <3>1, <3>3
    <2> QED  BY <2>1, <2>2
  <1>2. ASSUME NEW e, NEW r, Seen(e, r), e \in spoilt => e \in spoilt'
        PROVE  SeenNext(e, r)
    BY <1>1, <1>2, FailedGrows DEF Seen
  <1>3. ASSUME NEW e \in Others(c)  PROVE SeenOf(e)'
    <2>1. e \in Client /\ SeenOf(e)  BY DEF Others, SeenInv
    <2>2. /\ pc'[e] = pc[e] /\ run_row'[e] = run_row[e] /\ record'[e] = record[e]
          /\ e \in spoilt <=> e \in spoilt'
      BY OthersKeep
    <2>3. Seen(e, run_row[e]) => SeenNext(e, run_row'[e])  BY <1>2, <2>2
    <2>4. Seen(e, record[e]) => SeenNext(e, record'[e])  BY <1>2, <2>2
    <2> QED  BY <2>1, <2>2, <2>3, <2>4 DEF SeenOf, Seen
  <1>4. SeenOf(c)'
    <2> USE DEF GoTo, connection, locals, history
    <2>1. SeenOf(c)  BY DEF SeenInv
    <2>2. ASSUME record' = record, spoilt \subseteq spoilt'
          PROVE  record'[c] # None => SeenNext(c, record'[c])
      BY <1>2, <2>1, <2>2 DEF SeenOf
    <2>3. CASE Leaves(c)
      <3>1. Disconnected(c)  BY <2>3 DEF Leaves, OpenRaises, Close, Crash
      <3>2. pc'[c] = "closed" /\ record'[c] = None  BY <3>1 DEF Disconnected, TypeOK
      <3> QED  BY <3>2 DEF SeenOf
    <2>4. CASE \/ Quiet(c) \/ Fails(c) \/ \E n \in Counts : SaveRun(c, n)
               \/ InsertRun(c) \/ InsertIteration(c) \/ IterationsInserted(c) \/ Commit(c)
               \/ GetIterationsRaises(c) \/ ListRuns(c)
      <3>1. record' = record /\ spoilt \subseteq spoilt' /\ pc'[c] # "select iterations"
        <4>1. CASE Quiet(c)
          BY <4>1 DEF Quiet, Open, CreateRuns, CreateIterations, CreateTable, TypeOK
        <4>2. CASE Fails(c)
          <5>1. /\ spoilt' = spoilt \cup {c} /\ UNCHANGED record
                /\ pc' = [pc EXCEPT ![c] = "idle"]
            BY <4>2, FailsIs
          <5> QED  BY <5>1 DEF TypeOK
        <4>3. CASE \E n \in Counts : SaveRun(c, n)  BY <4>3 DEF SaveRun, TypeOK
        <4>4. CASE InsertRun(c) \/ InsertIteration(c) \/ IterationsInserted(c)
          BY <4>4 DEF InsertRun, InsertIteration, IterationsInserted, TypeOK
        <4>5. CASE Commit(c)  BY <4>5 DEF Commit, SaveEnds, TypeOK
        <4>6. CASE GetIterationsRaises(c) \/ ListRuns(c)
          BY <4>6 DEF GetIterationsRaises, ListRuns, TypeOK
        <4> QED  BY <2>4, <4>1, <4>2, <4>3, <4>4, <4>5, <4>6
      <3>2. record'[c] # None => SeenNext(c, record'[c])  BY <2>2, <3>1
      <3> QED  BY <3>1, <3>2 DEF SeenOf, Seen
    <2>5. ASSUME NEW id \in 1..(MaxSaves + 1), GetRun(c, id)  PROVE SeenOf(c)'
      <3>1. pc[c] = "idle" /\ UNCHANGED <<file, failed, spoilt>>  BY <2>5 DEF GetRun
      <3>2. CASE NotFound(c, id)
        <4>1. record'[c] = None /\ pc'[c] = "idle"  BY <3>1, <3>2 DEF NotFound, TypeOK
        <4> QED  BY <4>1 DEF SeenOf
      <3>3. CASE ~ NotFound(c, id)
        <4>1. /\ id <= Len(View(c)) /\ record' = record
              /\ run_row'[c] = [id |-> id, row |-> View(c)[id]]
          BY <2>5, <3>3 DEF GetRun, TypeOK
        <4>2. id \in 1..Len(View(c))
          <5>1. id \in Nat \ {0}  BY StorageAssumption
          <5>2. Len(View(c)) \in Nat  BY ViewProperties, LenProperties
          <5> QED  BY <4>1, <5>1, <5>2
        <4>3. SeenNext(c, run_row'[c])
          <5>1. Seen(c, [id |-> id, row |-> View(c)[id]])  BY <3>1, <4>2, ViewSeen DEF Saving
          <5> QED  BY <3>1, <4>1, <5>1 DEF Seen
        <4>4. record'[c] # None => SeenNext(c, record'[c])  BY <2>2, <3>1, <4>1
        <4> QED  BY <3>1, <4>3, <4>4 DEF SeenOf, Seen
      <3> QED  BY <3>2, <3>3
    <2>6. CASE GetIterations(c)
      <3> DEFINE r == run_row[c]
                 n == View(c)[r.id].iterations
      <3>1. /\ pc[c] = "select iterations" /\ pc'[c] = "idle" /\ UNCHANGED <<file, failed, spoilt>>
            /\ record'[c] = [r EXCEPT !.row.iterations = n]
        BY <2>6 DEF GetIterations, TypeOK
      <3>2. r \in Found /\ Seen(c, r)  BY <2>1, <3>1 DEF SeenOf, CallInv, CallOf
      <3>3. record'[c].id = r.id /\ record'[c].row = [r.row EXCEPT !.iterations = n]
        BY <3>1, <3>2 DEF Found
      <3>4. SeenNext(c, record'[c])
        <4>1. CASE r.id \in 1..Len(file) /\ file[r.id] = r.row
          <5>1. n = r.row.iterations  BY <4>1, ViewProperties
          <5>2. [r.row EXCEPT !.iterations = n] = r.row  BY <3>2, <5>1 DEF Found, Row
          <5> QED  BY <3>1, <3>3, <4>1, <5>2
        <4>2. CASE c \in spoilt /\ r.row.run \in failed
          <5>1. record'[c].row.run = r.row.run  BY <3>2, <3>3 DEF Found, Row
          <5> QED  BY <3>1, <4>2, <5>1
        <4> QED  BY <3>2, <4>1, <4>2 DEF Seen
      <3> QED  BY <3>1, <3>4 DEF SeenOf, Seen
    <2> QED  BY <2>3, <2>4, <2>5, <2>6, StepIsAction
  <1> QED  BY <1>3, <1>4 DEF SeenInv, Others

THEOREM WholeInvariance == Spec => [](IInv /\ TableInv /\ SeenInv)
  <1>1. Init => IInv /\ TableInv /\ SeenInv
    <2>1. Init => SeenInv  BY DEF Init, SeenInv, SeenOf
    <2> QED  BY <2>1, Initially, TableInitially
  <1>2. IInv /\ SeenInv /\ TableInv /\ [Next]_vars => SeenInv'
    <2> SUFFICES ASSUME IInv, TableInv, SeenInv, [Next]_vars  PROVE SeenInv'  OBVIOUS
    <2>1. CASE Next
      <3>1. PICK c \in Client : Step(c)  BY <2>1 DEF Next, Step
      <3> QED  BY <3>1, SeenStep DEF IInv, TableInv
    <2>2. CASE UNCHANGED vars
      BY <2>2 DEF vars, connection, locals, history, SeenInv, SeenOf, Seen
    <2> QED  BY <2>1, <2>2
  <1> QED  BY <1>1, <1>2, Inductive, TableInductive, PTL DEF Spec

\* What get_run returned is in the file for good, although it reads it with two
\* statements, or is of a save_run that raised on the same connection.
THEOREM RecordCommittedHolds == Spec => []RecordCommitted
  <1>1. SeenInv => RecordCommitted  BY DEF SeenInv, SeenOf, Seen, RecordCommitted
  <1> QED  BY <1>1, WholeInvariance, PTL

\* Outside a call a client keeps no lock and no rows, or what it keeps is of a
\* save_run that raised.
THEOREM IdleHoldsNothingHolds == Spec => []IdleHoldsNothing
  <1>1. IInv /\ TableInv => IdleHoldsNothing
    BY DEF IInv, CleanInv, CleanOf, TableInv, OwnedInv, OwnedOf, Saving, IdleHoldsNothing
  <1> QED  BY <1>1, WholeInvariance, PTL

-----------------------------------------------------------------------------
\* The commit of a save_run saves its run in the table.
LEMMA CommitSaves ==
  ASSUME TypeOK, LockInv, CallInv, TableInv, TableInv', NEW c \in Client, Commit(c)
  PROVE  Table!Save(job[c])
  <1>0. FreshOf(c) /\ OwnedOf(c) /\ FileUnique'
    BY DEF TableInv, FreshInv, OwnedInv, UniqueInv
  <1>1. /\ Saving(c) /\ Len(file') = Len(file) + Len(rows[c])
        /\ \A k \in 1..Len(file) : file'[k] = file[k]
        /\ file'[run_id[c]] = LastRow(c)
        /\ LastRow(c) = [run |-> job[c].run, iteration_count |-> job[c].iteration_count,
                         iterations |-> job[c].iteration_count]
    BY CommitIs
  <1>2. rows[c] # <<>> /\ run_id[c] = Len(file) + Len(rows[c])
    BY <1>1 DEF CallInv, CallOf
  <1>3. Len(file) \in Nat /\ Len(rows[c]) \in 1..Len(rows[c])
    <2>1. file \in Seq(Row) /\ rows[c] \in Seq(Row)  BY DEF TypeOK
    <2> QED  BY <1>2, <2>1, LenProperties, LastIndex
  <1>4. Table!Grows
    <2>1. Len(file) < Len(file')  BY <1>1, <1>3
    <2> QED  BY <1>0, <1>1, <2>1 DEF Table!Grows, FileUnique
  <1>5. file'[Len(file')] = Table!Whole(job[c])  BY <1>1, <1>2 DEF Table!Whole
  <1>6. ASSUME NEW k \in (Len(file) + 1)..(Len(file') - 1)  PROVE file'[k].run \in failed
    <2>1. \A l \in 1..Len(file') :
            \/ l \in 1..Len(file) /\ file'[l] = file[l]
            \/ \E i \in 1..Len(rows[c]) : l = Len(file) + i /\ file'[l] = rows[c][i]
      BY CommittedRows
    <2>2. PICK i \in 1..Len(rows[c]) : k = Len(file) + i /\ file'[k] = rows[c][i]
      <3>1. Len(file') \in Nat /\ Len(file) \in Nat
        <4>1. Len(file') = Len(file) + Len(rows[c])  BY <1>1
        <4> QED  BY <1>3, <4>1
      <3>2. k \in 1..Len(file') /\ k \notin 1..Len(file)  BY <3>1
      <3> QED  BY <2>1, <3>2
    <2>3. i # Len(rows[c])  BY <1>1, <1>3, <2>2
    <2> QED  BY <1>0, <2>2, <2>3 DEF OwnedOf
  <1>7. job[c].run \notin failed  BY <1>0, <1>1 DEF FreshOf, Working, Settled
  <1>8. /\ returned' = returned \cup {[id |-> run_id[c], job |-> job[c]]} /\ failed' = failed
        /\ run_id[c] = Len(file')
    BY <1>1, <1>2 DEF Commit
  <1> QED  BY <1>4, <1>5, <1>6, <1>7, <1>8 DEF Table!Save

\* Every step is a Save, a Fail or none of the table.
LEMMA TableStep ==
  ASSUME IInv, TableInv, TableInv', [Next]_vars
  PROVE  [Table!Next]_(Table!vars)
  <1>0. TypeOK /\ LockInv /\ CallInv  BY DEF IInv
  <1>1. CASE Next
    <2>1. PICK c \in Client : Step(c)  BY <1>1 DEF Next, Step
    <2>2. Commit(c) \/ Fails(c) => job[c] \in Run /\ FreshOf(c) /\ Working(c)
      BY <1>0, SettledIs DEF CallInv, CallOf, Working, TableInv, FreshInv
    <2>3. CASE Commit(c)
      BY <1>0, <2>2, <2>3, CommitSaves DEF Table!Next
    <2>4. CASE Fails(c) /\ ~ Commit(c)
      <3>1. failed' = failed \cup {job[c].run} /\ UNCHANGED <<file, returned>>
        BY <1>0, <2>4, SettledIs
      <3>2. job[c].run \notin Table!RunsOf(file)
        <4>1. \A k \in 1..Len(file) : file[k].run # job[c].run
          BY <2>2, <2>4 DEF FreshOf, TableInv, SettledInv
        <4>2. DOMAIN file = 1..Len(file)  BY <1>0, LenProperties DEF TypeOK
        <4> QED  BY <4>1, <4>2 DEF Table!RunsOf
      <3>3. Table!Fail(job[c])  BY <3>1, <3>2 DEF Table!Fail
      <3> QED  BY <2>2, <2>4, <3>3 DEF Table!Next
    <2>5. CASE ~ Commit(c) /\ ~ Fails(c)
      BY <2>1, <2>5, HistoryStep DEF Table!vars
    <2> QED  BY <2>3, <2>4, <2>5
  <1>2. CASE UNCHANGED vars
    BY <1>2 DEF vars, history, Table!vars
  <1> QED  BY <1>1, <1>2

\* save_run is atomic, for any clients whose statements, failures, commits and
\* crashes come in any order: the database they share implements a table to
\* which a run is added in one step, or not and its save_run raises.
THEOREM TableKept == Spec => KeepsTable
  <1>1. Init => Table!Init  BY DEF Init, Table!Init
  <1>2. IInv /\ TableInv /\ TableInv' /\ [Next]_vars => [Table!Next]_(Table!vars)
    BY TableStep
  <1> QED  BY <1>1, <1>2, WholeInvariance, PTL DEF Spec, KeepsTable, Table!Spec
=============================================================================
