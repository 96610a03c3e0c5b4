------------------------------ MODULE CliProofs ------------------------------
(***************************************************************************)
(* Proofs about the command line: for every set of commands, every         *)
(* environment and every number of commands, each of which may fail or be  *)
(* killed anywhere.                                                        *)
(***************************************************************************)
EXTENDS Cli, TLAPS

(***************************************************************************)
(* What a process knows at each point of its life: how it got there, and   *)
(* that its database is open from Connect on.                              *)
(***************************************************************************)
ProcessInv ==
  /\ pc \in {"shell", "llm", "open", "connect", "select", "mkdtemp", "run_task",
             "save", "rmtree", "echo"}
  /\ n \in Nat /\ attempts \in Nat
  /\ pc \notin {"shell", "rmtree"} => ~ raised
  /\ pc = "select" => cmd.command = "trace"
  /\ pc \notin {"shell", "connect", "select"} => cmd.command # "trace"

DbInv ==
  /\ db = None \/ db \in Seq(SavedRow)
  /\ HasDb /\ pc \in {"mkdtemp", "run_task", "save"} => db # None
  /\ HasDb /\ ~ raised /\ pc \in {"rmtree", "echo"} =>
       db # None /\ db # <<>> /\ db[Len(db)] = Row(report)
  /\ \A v \in vouched : db # None /\ v.id \in 1..Len(db) /\ db[v.id] = v.row
                        /\ v.row.status = "success"

\* The process's own temporary directory is there while run_task runs.
TempInv ==
  /\ pc \in {"run_task", "save", "rmtree"} => temps \subseteq abandoned \cup {n}
  /\ pc \notin {"run_task", "save", "rmtree"} => temps \subseteq abandoned

BeforeInv ==
  /\ pc = "llm" \/ CannotStart => before = files
  /\ pc \notin {"shell", "llm"} => ~ CannotStart

CliInv == ProcessInv /\ DbInv /\ TempInv /\ BeforeInv

\* An appended row leaves the others where they are.
LEMMA AppendRow ==
  ASSUME NEW d \in Seq(SavedRow), NEW r \in SavedRow
  PROVE  /\ Append(d, r) \in Seq(SavedRow) /\ Append(d, r) # None /\ Append(d, r) # <<>>
         /\ Append(d, r)[Len(Append(d, r))] = r
         /\ \A k \in 1..Len(d) : k \in 1..Len(Append(d, r)) /\ Append(d, r)[k] = d[k]
  <1>1. Append(d, r) \in Seq(SavedRow)
    OBVIOUS
  <1>2. Append(d, r) # None
    BY <1>1, CliAssumption
  <1> QED BY <1>1, <1>2

\* The database as Storage leaves it.
LEMMA CreatedRows ==
  ASSUME DbInv
  PROVE  /\ Created \in Seq(SavedRow) /\ Created # None
         /\ db # None => Created = db
  <1>1. CASE db = None
    <2>1. Created = <<>> /\ <<>> \in Seq(SavedRow)
      BY <1>1 DEF Created
    <2> QED BY <1>1, <2>1, CliAssumption
  <1>2. CASE db # None
    <2>1. Created = db
      BY <1>2 DEF Created
    <2> QED BY <1>2, <2>1 DEF DbInv
  <1> QED BY <1>1, <1>2

LEMMA CliInitially == Init => CliInv
  <1> SUFFICES ASSUME Init PROVE CliInv
    OBVIOUS
  <1>1. /\ pc = "shell" /\ n = 0 /\ attempts = 0 /\ db = None /\ vouched = {} /\ temps = {}
        /\ exit = None /\ before = files /\ cmd = None
    BY DEF Init, Contract!Init
  <1> QED BY <1>1 DEF CliInv, ProcessInv, DbInv, TempInv, BeforeInv, CannotStart

\* A command is typed.
LEMMA InvokeInv ==
  ASSUME CliInv, NEW c, Invoke(c)
  PROVE  CliInv'
  <1>1. /\ pc = "shell" /\ n' = n + 1 /\ cmd' = c /\ before' = files /\ files' = files
        /\ pc' = (IF c.command = "trace" THEN "connect" ELSE "llm")
        /\ client' = None /\ raised' = FALSE /\ attempts' = 0
        /\ temps' = temps /\ abandoned' = abandoned /\ vouched' = vouched /\ db' = db
        /\ env' = env
    BY DEF Invoke, files
  <1>2. /\ (pc' = "connect" /\ c.command = "trace") \/ (pc' = "llm" /\ c.command # "trace")
    BY <1>1
  <1>3. ProcessInv'
    BY <1>1, <1>2 DEF CliInv, ProcessInv
  <1>4. DbInv'
    BY <1>1, <1>2 DEF CliInv, DbInv
  <1>5. TempInv'
    BY <1>1, <1>2 DEF CliInv, TempInv
  <1>6. BeforeInv'
    BY <1>1, <1>2 DEF BeforeInv, CannotStart, files
  <1> QED BY <1>3, <1>4, <1>5, <1>6 DEF CliInv

\* The LLM is built before any file is touched.
LEMMA BuildInv ==
  ASSUME CliInv, BuildLLM
  PROVE  CliInv'
  <1>1. /\ pc = "llm" /\ n' = n /\ cmd' = cmd /\ env' = env /\ raised' = raised
        /\ attempts' = attempts /\ report' = report /\ files' = files /\ db' = db
        /\ temps' = temps /\ abandoned' = abandoned /\ before' = before /\ vouched' = vouched
        /\ \/ Known(Task) /\ LLM # None /\ pc' = "open"
           \/ pc' = "shell"
    BY DEF BuildLLM, contract, files, history, Exits
  <1>2. ProcessInv'
    BY <1>1 DEF CliInv, ProcessInv
  <1>3. DbInv'
    BY <1>1 DEF CliInv, DbInv
  <1>4. TempInv'
    BY <1>1 DEF CliInv, TempInv
  <1>5. CannotStart' = CannotStart
    BY <1>1 DEF CannotStart, Task, IsRun
  <1>6. Known(Task) /\ LLM # None => ~ CannotStart
    <2>1. from_env(env) # None => \E p \in Provider : environ(env, p) = "key"
      BY DEF from_env, Provider
    <2> QED BY <2>1 DEF CannotStart, LLM
  <1>7. before' = files'
    BY <1>1 DEF CliInv, BeforeInv
  <1>8. BeforeInv'
    BY <1>1, <1>5, <1>6, <1>7 DEF BeforeInv
  <1> QED BY <1>2, <1>3, <1>4, <1>8 DEF CliInv

\* Once an LLM is there, nothing is said of the files left behind.
LEMMA LaterStep ==
  ASSUME CliInv, pc \notin {"shell", "llm"}, pc' # "llm",
         n' = n, cmd' = cmd, env' = env
  PROVE  BeforeInv'
  <1>1. CannotStart' = CannotStart
    BY DEF CannotStart, Task, IsRun
  <1>2. ~ CannotStart
    BY DEF CliInv, BeforeInv
  <1> QED BY <1>1, <1>2 DEF BeforeInv

\* The trace file and the database are opened, the directory is made.
LEMMA OpenInv ==
  ASSUME CliInv, OpenTrace
  PROVE  CliInv'
  <1>1. /\ pc = "open" /\ pc' \in {"connect", "shell"}
        /\ n' = n /\ cmd' = cmd /\ env' = env /\ client' = client /\ raised' = raised
        /\ attempts' = attempts /\ report' = report /\ db' = db
        /\ temps' = temps /\ abandoned' = abandoned /\ vouched' = vouched
    BY DEF OpenTrace, process, contract, history, Exits
  <1>2. ProcessInv' /\ TempInv'
    BY <1>1 DEF CliInv, ProcessInv, TempInv
  <1>3. DbInv'
    BY <1>1 DEF CliInv, DbInv
  <1> QED BY <1>1, <1>2, <1>3, LaterStep DEF CliInv

LEMMA ConnectInv ==
  ASSUME CliInv, Connect
  PROVE  CliInv'
  <1>1. /\ pc = "connect"
        /\ n' = n /\ cmd' = cmd /\ env' = env /\ client' = client /\ raised' = raised
        /\ attempts' = attempts /\ report' = report
        /\ temps' = temps /\ abandoned' = abandoned /\ vouched' = vouched
    BY DEF Connect, process, contract, history
  <1>2. \/ HasDb /\ db' = Created /\ pc' \in {"select", "mkdtemp", "shell"}
        \/ db' = db /\ pc' \in {"select", "mkdtemp"} /\ ~ HasDb
        \/ db' = db /\ pc' = "shell"
    BY DEF Connect, Exits
  <1>3. /\ pc' = "select" => cmd.command = "trace"
        /\ pc' = "mkdtemp" => cmd.command # "trace"
    BY DEF Connect, Exits
  <1>4. /\ Created \in Seq(SavedRow) /\ Created # None /\ (db # None => Created = db)
    BY CreatedRows DEF CliInv
  <1>5. ProcessInv' /\ TempInv'
    BY <1>1, <1>2, <1>3 DEF CliInv, ProcessInv, TempInv
  <1>6. DbInv'
    <2>1. HasDb' = HasDb
      BY <1>1 DEF HasDb, IsRun
    <2>2. CASE HasDb /\ db' = Created /\ pc' \in {"select", "mkdtemp", "shell"}
      BY <1>1, <1>4, <2>2 DEF CliInv, DbInv
    <2>3. CASE db' = db /\ pc' \in {"select", "mkdtemp"} /\ ~ HasDb
      BY <1>1, <2>1, <2>3 DEF CliInv, DbInv
    <2>4. CASE db' = db /\ pc' = "shell"
      BY <1>1, <2>4 DEF CliInv, DbInv
    <2> QED BY <1>2, <2>2, <2>3, <2>4
  <1>7. pc \notin {"shell", "llm"} /\ pc' # "llm"
    BY <1>1, <1>2
  <1> QED BY <1>1, <1>5, <1>6, <1>7, LaterStep DEF CliInv

LEMMA SelectInv ==
  ASSUME CliInv, SelectRun
  PROVE  CliInv'
  <1>1. /\ pc = "select" /\ pc' = "shell"
        /\ n' = n /\ cmd' = cmd /\ env' = env /\ client' = client /\ raised' = raised
        /\ attempts' = attempts /\ report' = report /\ db' = db
        /\ temps' = temps /\ abandoned' = abandoned /\ vouched' = vouched
    BY DEF SelectRun, process, contract, files, history, Exits
  <1>2. ProcessInv' /\ TempInv' /\ DbInv'
    BY <1>1 DEF CliInv, ProcessInv, TempInv, DbInv
  <1> QED BY <1>1, <1>2, LaterStep DEF CliInv

LEMMA MakeTempInv ==
  ASSUME CliInv, MakeTemp
  PROVE  CliInv'
  <1>1. /\ pc = "mkdtemp"
        /\ \/ pc' = "run_task" /\ temps' = temps \cup {n}
           \/ pc' = "shell" /\ temps' = temps
        /\ n' = n /\ cmd' = cmd /\ env' = env /\ client' = client /\ raised' = raised
        /\ attempts' = attempts /\ report' = report /\ db' = db
        /\ abandoned' = abandoned /\ vouched' = vouched
    BY DEF MakeTemp, process, contract, files, history, Exits
  <1>2. ProcessInv' /\ TempInv'
    BY <1>1 DEF CliInv, ProcessInv, TempInv
  <1>3. DbInv'
    BY <1>1 DEF CliInv, DbInv, HasDb, IsRun, Row
  <1> QED BY <1>1, <1>2, <1>3, LaterStep DEF CliInv

\* run_task writes to the trace file only, until it saves.
LEMMA RunTaskInv ==
  ASSUME CliInv, CallRunTask \/ Attempt \/ FinishRun \/ RunTaskRaises
  PROVE  CliInv'
  <1>1. /\ pc \in {"run_task", "save"}
        /\ \/ pc' \in {"run_task", "save"} /\ raised' = raised
           \/ pc' = "rmtree" /\ raised' = TRUE
        /\ n' = n /\ cmd' = cmd /\ env' = env /\ client' = client /\ db' = db
        /\ temps' = temps /\ abandoned' = abandoned /\ vouched' = vouched
    BY DEF CallRunTask, Attempt, FinishRun, RunTaskRaises, Raise, process, files, history
  <1>2. attempts' \in Nat
    <2>1. attempts' \in {0, attempts, attempts + 1}
      BY DEF CallRunTask, Attempt, FinishRun, RunTaskRaises, contract,
             Contract!Start, Contract!Refuse, Contract!Attempt, Contract!Report
    <2> QED BY <2>1 DEF CliInv, ProcessInv
  <1>3. ProcessInv' /\ TempInv'
    BY <1>1, <1>2 DEF CliInv, ProcessInv, TempInv
  <1>4. DbInv'
    BY <1>1 DEF CliInv, DbInv, HasDb, IsRun, Row
  <1> QED BY <1>1, <1>3, <1>4, LaterStep DEF CliInv

LEMMA SaveInv ==
  ASSUME CliInv, SaveRun
  PROVE  CliInv'
  <1>1. /\ pc = "save" /\ pc' = "rmtree" /\ report' \in {"success", "failed"}
        /\ n' = n /\ cmd' = cmd /\ env' = env /\ client' = client /\ raised' = raised
        /\ attempts' = attempts
        /\ \/ HasDb /\ db' = Append(db, Row(report'))
           \/ ~ HasDb /\ db' = db
        /\ temps' = temps /\ abandoned' = abandoned /\ vouched' = vouched
    BY DEF SaveRun, Contract!Report, process, history
  <1>2. ProcessInv' /\ TempInv'
    BY <1>1 DEF CliInv, ProcessInv, TempInv
  <1>3. DbInv'
    <2>1. CASE HasDb /\ db' = Append(db, Row(report'))
      <3> DEFINE r == Row(report')
      <3>1. r \in SavedRow /\ r.status = report'
        BY <1>1 DEF CliInv, ProcessInv, Row, SavedRow
      <3>2. db \in Seq(SavedRow) /\ db # None
        BY <1>1, <2>1 DEF CliInv, DbInv
      <3> HIDE DEF r
      <3>3. /\ Append(db, r) \in Seq(SavedRow) /\ Append(db, r) # None /\ Append(db, r) # <<>>
            /\ Append(db, r)[Len(Append(db, r))] = r
            /\ \A k \in 1..Len(db) : k \in 1..Len(Append(db, r)) /\ Append(db, r)[k] = db[k]
        BY <3>1, <3>2, AppendRow
      <3>4. db' = Append(db, r)
        BY <2>1 DEF r
      <3>5. /\ db' \in Seq(SavedRow) /\ db' # None /\ db' # <<>>
            /\ db'[Len(db')] = Row(report)'
        BY <1>1, <3>1, <3>3, <3>4 DEF r, Row
      <3>6. \A v \in vouched : v.id \in 1..Len(db') /\ db'[v.id] = v.row
                               /\ v.row.status = "success"
        BY <3>3, <3>4 DEF CliInv, DbInv
      <3> QED BY <1>1, <3>5, <3>6 DEF DbInv
    <2>2. CASE ~ HasDb /\ db' = db
      BY <1>1, <2>2 DEF CliInv, DbInv, HasDb, IsRun, Row
    <2> QED BY <1>1, <2>1, <2>2
  <1> QED BY <1>1, <1>2, <1>3, LaterStep DEF CliInv

\* The with block is left.
LEMMA RemoveTempInv ==
  ASSUME CliInv, RemoveTemp
  PROVE  CliInv'
  <1>1. /\ pc = "rmtree"
        /\ \/ temps' = temps \ {n} /\ abandoned' = abandoned
           \/ temps' = temps /\ abandoned' = abandoned \cup {n}
        /\ \/ pc' = "shell"
           \/ pc' = "echo" /\ ~ raised
        /\ n' = n /\ cmd' = cmd /\ env' = env /\ client' = client /\ raised' = raised
        /\ attempts' = attempts /\ report' = report /\ db' = db /\ vouched' = vouched
    BY DEF RemoveTemp, process, contract, files, Exits
  <1>2. ProcessInv' /\ TempInv'
    BY <1>1 DEF CliInv, ProcessInv, TempInv
  <1>3. DbInv'
    BY <1>1 DEF CliInv, DbInv, HasDb, IsRun, Row
  <1> QED BY <1>1, <1>2, <1>3, LaterStep DEF CliInv

\* The status is printed.
LEMMA EchoInv ==
  ASSUME CliInv, Echo
  PROVE  CliInv'
  <1>1. /\ pc = "echo" /\ pc' = "shell"
        /\ \/ vouched' = vouched
           \/ /\ HasDb /\ Code = "0"
              /\ vouched' = vouched \cup {[id |-> Len(db), row |-> db[Len(db)]]}
        /\ n' = n /\ cmd' = cmd /\ env' = env /\ client' = client /\ raised' = raised
        /\ attempts' = attempts /\ report' = report /\ db' = db
        /\ temps' = temps /\ abandoned' = abandoned
    BY DEF Echo, process, contract, files, Exits
  <1>2. ProcessInv' /\ TempInv'
    BY <1>1 DEF CliInv, ProcessInv, TempInv
  <1>3. DbInv'
    <2>1. CASE vouched' = vouched
      BY <1>1, <2>1 DEF CliInv, DbInv
    <2>2. CASE /\ HasDb /\ Code = "0"
               /\ vouched' = vouched \cup {[id |-> Len(db), row |-> db[Len(db)]]}
      <3>1. ~ raised /\ cmd.command # "trace"
        BY <1>1 DEF CliInv, ProcessInv
      <3>2. db # None /\ db # <<>> /\ db \in Seq(SavedRow) /\ db[Len(db)].status = report
        BY <1>1, <2>2, <3>1 DEF CliInv, DbInv, Row
      <3>3. report = "success"
        BY <2>2, <3>1 DEF HasDb, Code
      <3>4. Len(db) \in 1..Len(db)
        BY <3>2
      <3>5. \A v \in vouched' : /\ db # None /\ v.id \in 1..Len(db) /\ db[v.id] = v.row
                                /\ v.row.status = "success"
        BY <2>2, <3>2, <3>3, <3>4 DEF CliInv, DbInv
      <3> QED BY <1>1, <3>2, <3>5 DEF DbInv
    <2> QED BY <1>1, <2>1, <2>2
  <1> QED BY <1>1, <1>2, <1>3, LaterStep DEF CliInv

\* The process is killed.
LEMMA KillInv ==
  ASSUME CliInv, Kill
  PROVE  CliInv'
  <1>1. /\ pc # "shell" /\ pc' = "shell" /\ exit' = "killed"
        /\ n' = n /\ cmd' = cmd /\ env' = env /\ client' = client /\ raised' = raised
        /\ attempts' = attempts /\ report' = report /\ db' = db
        /\ temps' = temps /\ abandoned' = abandoned \cup (temps \cap {n})
        /\ vouched' = vouched /\ before' = before /\ files' = files
    BY DEF Kill, process, contract, files, Exits
  <1>2. ProcessInv' /\ TempInv'
    BY <1>1 DEF CliInv, ProcessInv, TempInv
  <1>3. DbInv'
    BY <1>1 DEF CliInv, DbInv
  <1>4. CannotStart' = CannotStart
    BY <1>1 DEF CannotStart, Task, IsRun
  <1>5. BeforeInv'
    BY <1>1, <1>4 DEF CliInv, BeforeInv
  <1> QED BY <1>2, <1>3, <1>5 DEF CliInv

LEMMA CliStutters ==
  ASSUME CliInv, UNCHANGED vars
  PROVE  CliInv'
  <1>1. /\ pc' = pc /\ n' = n /\ cmd' = cmd /\ env' = env /\ client' = client
        /\ raised' = raised /\ attempts' = attempts /\ report' = report /\ exit' = exit
        /\ files' = files /\ db' = db
        /\ temps' = temps /\ abandoned' = abandoned /\ before' = before /\ vouched' = vouched
    BY DEF vars, process, contract, files, history
  <1>2. ProcessInv' /\ TempInv'
    BY <1>1 DEF CliInv, ProcessInv, TempInv
  <1>3. DbInv'
    BY <1>1 DEF CliInv, DbInv, HasDb, IsRun, Row
  <1>4. CannotStart' = CannotStart
    BY <1>1 DEF CannotStart, Task, IsRun
  <1>5. BeforeInv'
    BY <1>1, <1>4 DEF CliInv, BeforeInv
  <1> QED BY <1>2, <1>3, <1>5 DEF CliInv

LEMMA CliInvariant == Spec => []CliInv
  <1>1. CliInv /\ [Next]_vars => CliInv'
    BY InvokeInv, BuildInv, OpenInv, ConnectInv, SelectInv, MakeTempInv, RunTaskInv,
       SaveInv, RemoveTempInv, EchoInv, KillInv, CliStutters DEF Next
  <1> QED BY <1>1, CliInitially, PTL DEF Spec

\* A command that cannot start touches no file, and no command leaves its
\* temporary directory but by being killed or failing to remove it.
THEOREM LeavesNothingHolds == Spec => []LeavesNothing
  <1>1. CliInv => LeavesNothing
    BY DEF CliInv, BeforeInv, TempInv, LeavesNothing
  <1> QED BY <1>1, CliInvariant, PTL

\* What the exit code vouched for is never lost.
THEOREM VouchedKeptHolds == Spec => []VouchedKept
  <1>1. CliInv => VouchedKept
    <2> SUFFICES ASSUME CliInv, NEW v \in vouched
                 PROVE  v.id \in DOMAIN db /\ db[v.id] = v.row /\ v.row.status = "success"
      BY DEF VouchedKept
    <2>1. db # None /\ v.id \in 1..Len(db) /\ db[v.id] = v.row /\ v.row.status = "success"
      BY DEF CliInv, DbInv
    <2>2. DOMAIN db = 1..Len(db)
      BY <2>1 DEF CliInv, DbInv
    <2> QED BY <2>1, <2>2
  <1> QED BY <1>1, CliInvariant, PTL

-----------------------------------------------------------------------------
(***************************************************************************)
(* What the exit code 0 says of the trace file.  While run_task runs, the  *)
(* file ends with the record of the last thing that happened; at its end,  *)
(* with run_end, unless an exception is on its way out.                    *)
(***************************************************************************)
Line ==
  [run : Nat, event : {"run_start"}] \cup
  [run : Nat, event : {"iteration"}, number : Nat, accepted : BOOLEAN] \cup
  [run : Nat, event : {"run_end"}, status : {"success", "failed"}, iteration_count : Nat]

\* run_task, as far as the process has come.
CallInv ==
  /\ accepted \in BOOLEAN
  /\ pc \in {"llm", "open", "connect", "mkdtemp"} =>
       ~ running /\ report = "none" /\ attempts = 0 /\ ~ accepted
  /\ pc = "run_task" /\ ~ running => report = "none"
  /\ pc = "save" => running
  /\ running => limit \in Nat /\ limit = Cap /\ attempts <= limit
  /\ pc \in {"rmtree", "echo"} /\ ~ raised /\ report = "success" =>
       accepted /\ attempts <= Cap
  /\ pc # "shell" => exit = None

Growing ==
  /\ trace_file \in Seq(Line) /\ OneRun(trace_file)
  /\ Len(trace_file) = attempts + 1 /\ trace_file[1].run = n
  /\ attempts = 0 => Last(trace_file).event = "run_start"
  /\ attempts > 0 => /\ Last(trace_file).event = "iteration"
                     /\ Last(trace_file).accepted <=> accepted

Closed ==
  /\ trace_file \in Seq(Line) /\ OneRun(trace_file) /\ trace_file # <<>>
  /\ Last(trace_file) = EndRecord

FileInv ==
  /\ trace_file # None => trace_file \in Seq(Line) /\ OneRun(trace_file)
  /\ HasTrace =>
       /\ pc \in {"connect", "mkdtemp"} => trace_file = <<>>
       /\ pc = "run_task" /\ ~ running => trace_file = <<>>
       /\ pc = "run_task" /\ running => Growing
       /\ pc = "save" \/ (pc \in {"rmtree", "echo"} /\ ~ raised) => Closed

ExitInv == CallInv /\ FileInv /\ ExitTruthful

\* What one record has to be, at its place in the trace of one run.
Fits(log, k) ==
  /\ log[k].run = log[1].run
  /\ log[k].event = "run_start" => k = 1
  /\ log[k].event = "iteration" =>
       /\ log[k].number = k - 1
       /\ k + 1 \in 1..Len(log) =>
            (log[k].accepted <=> /\ log[k + 1].event = "run_end"
                                 /\ log[k + 1].status = "success")
  /\ log[k].event = "run_end" => k = Len(log) /\ log[k].iteration_count = k - 2

LEMMA OneRunFits ==
  ASSUME NEW log \in Seq(Line)
  PROVE  OneRun(log) <=> \A k \in 1..Len(log) : Fits(log, k)
  <1>1. DOMAIN log = 1..Len(log)
    OBVIOUS
  <1>2. \A k \in 1..Len(log) : log[k].event \in {"run_start", "iteration", "run_end"}
    BY DEF Line
  <1>3. ASSUME NEW k \in 1..Len(log)
        PROVE  Fits(log, k) <=>
                 /\ log[k].run = log[1].run
                 /\ CASE log[k].event = "run_start" -> k = 1
                      [] log[k].event = "iteration" ->
                           /\ log[k].number = k - 1
                           /\ k + 1 \in 1..Len(log) =>
                                (log[k].accepted <=> /\ log[k + 1].event = "run_end"
                                                     /\ log[k + 1].status = "success")
                      [] log[k].event = "run_end" ->
                           k = Len(log) /\ log[k].iteration_count = k - 2
    <2>1. CASE log[k].event = "run_start"
      BY <2>1 DEF Fits
    <2>2. CASE log[k].event = "iteration"
      BY <2>2 DEF Fits
    <2>3. CASE log[k].event = "run_end"
      BY <2>3 DEF Fits
    <2> QED BY <1>2, <2>1, <2>2, <2>3
  <1> QED BY <1>1, <1>3 DEF OneRun

\* The first record.
LEMMA FirstLine ==
  ASSUME NEW id \in Nat, NEW e \in Line, e.run = id, e.event = "run_start"
  PROVE  /\ Append(<<>>, e) \in Seq(Line) /\ OneRun(Append(<<>>, e))
         /\ Len(Append(<<>>, e)) = 1 /\ Append(<<>>, e)[1] = e
  <1> DEFINE new == Append(<<>>, e)
  <1>1. new \in Seq(Line) /\ Len(new) = 1 /\ new[1] = e
    OBVIOUS
  <1> HIDE DEF new
  <1>2. ASSUME NEW k \in 1..Len(new) PROVE Fits(new, k)
    <2>1. k = 1 /\ new[k] = e
      BY <1>1
    <2> QED BY <1>1, <2>1 DEF Fits
  <1>3. OneRun(new)
    BY <1>1, <1>2, OneRunFits
  <1> QED BY <1>1, <1>3 DEF new

\* A record that continues the trace of a run.
LEMMA NextLine ==
  ASSUME NEW log \in Seq(Line), NEW e \in Line, OneRun(log), log # <<>>,
         e.run = log[1].run, e.event \in {"iteration", "run_end"},
         Last(log).event \in {"run_start", "iteration"},
         Last(log).event = "iteration" =>
           (Last(log).accepted <=> (e.event = "run_end" /\ e.status = "success")),
         e.event = "iteration" => e.number = Len(log),
         e.event = "run_end" => e.iteration_count = Len(log) - 1
  PROVE  /\ Append(log, e) \in Seq(Line) /\ OneRun(Append(log, e))
         /\ Append(log, e) # <<>> /\ Last(Append(log, e)) = e
         /\ Len(Append(log, e)) = Len(log) + 1 /\ Append(log, e)[1] = log[1]
  <1> DEFINE new == Append(log, e)
             m   == Len(log)
  <1>1. /\ new \in Seq(Line) /\ Len(new) = m + 1 /\ new[m + 1] = e /\ new # <<>>
        /\ m \in Nat /\ m >= 1 /\ \A k \in 1..m : new[k] = log[k]
    OBVIOUS
  <1>2. Last(log) = log[m]
    BY DEF Last
  <1>3. \A k \in 1..m : Fits(log, k)
    BY OneRunFits
  <1>4. e.number = m \/ e.event # "iteration"
    OBVIOUS
  <1>5. e.iteration_count = m - 1 \/ e.event # "run_end"
    OBVIOUS
  <1> HIDE DEF new, m
  <1>6. ASSUME NEW k \in 1..(m - 1) PROVE Fits(new, k)
    <2>1. k \in 1..m /\ k + 1 \in 1..m /\ k # m /\ 1 \in 1..m /\ m + 1 \in Nat
      BY <1>1
    <2>2. new[k] = log[k] /\ new[k + 1] = log[k + 1] /\ new[1] = log[1]
      BY <1>1, <2>1
    <2>3. Fits(log, k)
      BY <1>3, <2>1
    <2>4. log[k].event # "run_end"
      BY <2>1, <2>3 DEF Fits, m
    <2> QED BY <2>1, <2>2, <2>3, <2>4 DEF Fits, m
  <1>7. Fits(new, m)
    <2>1. new[m] = log[m] /\ new[1] = log[1] /\ new[m + 1] = e
      BY <1>1
    <2>2. Fits(log, m)
      BY <1>1, <1>3
    <2>3. log[m].event \in {"run_start", "iteration"}
      BY <1>2
    <2>4. log[m].event = "iteration" =>
            (log[m].accepted <=> (e.event = "run_end" /\ e.status = "success"))
      BY <1>2
    <2>5. log[m].run = log[1].run
          /\ (log[m].event = "run_start" => m = 1)
          /\ (log[m].event = "iteration" => log[m].number = m - 1)
      BY <2>2 DEF Fits
    <2> QED BY <1>1, <2>1, <2>3, <2>4, <2>5 DEF Fits
  <1>8. Fits(new, m + 1)
    <2>1. new[m + 1] = e /\ new[1] = log[1]
      BY <1>1
    <2>2. ~ (m + 1 + 1 \in 1..Len(new)) /\ m + 1 = Len(new) /\ (m + 1) - 1 = m /\ (m + 1) - 2 = m - 1
      BY <1>1
    <2> QED BY <1>4, <1>5, <2>1, <2>2 DEF Fits
  <1>9. OneRun(new)
    <2>1. \A k \in 1..Len(new) : k \in 1..(m - 1) \/ k = m \/ k = m + 1
      BY <1>1
    <2>2. \A k \in 1..Len(new) : Fits(new, k)
      BY <1>6, <1>7, <1>8, <2>1
    <2> QED BY <1>1, <2>2, OneRunFits
  <1>10. Last(new) = e /\ new[1] = log[1]
    BY <1>1 DEF Last
  <1> QED BY <1>1, <1>9, <1>10 DEF new, m

LEMMA ExitInitially == Init => ExitInv
  <1> SUFFICES ASSUME Init PROVE ExitInv
    OBVIOUS
  <1>1. /\ pc = "shell" /\ running = FALSE /\ accepted = FALSE /\ exit = None
        /\ trace_file = None
    BY DEF Init, Contract!Init
  <1>2. exit # "0"
    BY <1>1, CliAssumption
  <1> QED BY <1>1, <1>2 DEF ExitInv, CallInv, FileInv, ExitTruthful

\* A step after which the process is still there reports nothing.
LEMMA NotYet ==
  ASSUME pc' # "shell", CallInv'
  PROVE  ExitTruthful'
  <1>1. exit' = None
    BY DEF CallInv
  <1>2. exit' # "0"
    BY <1>1, CliAssumption
  <1> QED BY <1>2 DEF ExitTruthful

LEMMA InvokeExit ==
  ASSUME CliInv, ExitInv, NEW c, Invoke(c)
  PROVE  ExitInv'
  <1>1. /\ cmd' = c /\ exit' = None /\ trace_file' = trace_file
        /\ running' = FALSE /\ attempts' = 0 /\ accepted' = FALSE /\ report' = "none"
        /\ pc' = (IF c.command = "trace" THEN "connect" ELSE "llm")
    BY DEF Invoke, files
  <1>2. (pc' = "connect" /\ c.command = "trace") \/ pc' = "llm"
    BY <1>1
  <1>3. CallInv'
    BY <1>1, <1>2 DEF CallInv
  <1>4. pc' = "connect" => ~ HasTrace'
    BY <1>1, <1>2 DEF HasTrace, IsRun
  <1>5. FileInv'
    BY <1>1, <1>2, <1>4 DEF ExitInv, FileInv
  <1> QED BY <1>2, <1>3, <1>5, NotYet DEF ExitInv

\* A step that leaves the call, the file and the command alone.
LEMMA SameCall ==
  ASSUME ExitInv, UNCHANGED <<process, contract, trace_file>>
  PROVE  /\ IsRun' = IsRun /\ Cap' = Cap /\ HasTrace' = HasTrace /\ HasDb' = HasDb
         /\ Growing' = Growing /\ Closed' = Closed /\ EndRecord' = EndRecord
         /\ cmd' = cmd /\ running' = running /\ attempts' = attempts /\ limit' = limit
         /\ accepted' = accepted /\ report' = report /\ trace_file' = trace_file /\ n' = n
  BY DEF process, contract, IsRun, Cap, HasTrace, HasDb, Growing, Closed, EndRecord

LEMMA BuildExit ==
  ASSUME CliInv, ExitInv, BuildLLM
  PROVE  ExitInv'
  <1>1. /\ pc = "llm" /\ trace_file' = trace_file /\ cmd' = cmd /\ UNCHANGED contract
        /\ \/ pc' = "open" /\ exit' = exit
           \/ pc' = "shell" /\ exit' = "1"
    BY DEF BuildLLM, Exits, files
  <1>2. CallInv'
    BY <1>1 DEF ExitInv, CallInv, contract, Cap, IsRun
  <1>3. FileInv'
    BY <1>1 DEF ExitInv, FileInv
  <1>4. ExitTruthful'
    BY <1>1, <1>2, NotYet DEF ExitTruthful
  <1> QED BY <1>2, <1>3, <1>4 DEF ExitInv

LEMMA OpenExit ==
  ASSUME CliInv, ExitInv, OpenTrace
  PROVE  ExitInv'
  <1>1. /\ pc = "open" /\ cmd' = cmd /\ UNCHANGED contract
        /\ \/ pc' = "connect" /\ exit' = exit /\ HasTrace /\ trace_file' = <<>>
           \/ pc' = "connect" /\ exit' = exit /\ ~ HasTrace /\ trace_file' = trace_file
           \/ pc' = "shell" /\ exit' = "1" /\ trace_file' = trace_file
    BY DEF OpenTrace, Exits, process
  <1>2. CallInv'
    BY <1>1 DEF ExitInv, CallInv, contract, Cap, IsRun
  <1>3. FileInv'
    <2>1. <<>> \in Seq(Line) /\ OneRun(<<>>)
      <3>1. <<>> \in Seq(Line) /\ Len(<<>>) = 0
        OBVIOUS
      <3>2. OneRun(<<>>) <=> \A k \in 1..Len(<<>>) : Fits(<<>>, k)
        BY <3>1, OneRunFits
      <3> QED BY <3>1, <3>2
    <2>2. HasTrace' = HasTrace
      BY <1>1 DEF HasTrace, IsRun
    <2> QED BY <1>1, <2>1, <2>2 DEF ExitInv, FileInv
  <1>4. ExitTruthful'
    BY <1>1, <1>2, NotYet DEF ExitTruthful
  <1> QED BY <1>2, <1>3, <1>4 DEF ExitInv

LEMMA ConnectExit ==
  ASSUME CliInv, ExitInv, Connect \/ MakeTemp
  PROVE  ExitInv'
  <1>1. /\ UNCHANGED <<process, contract, trace_file>>
        /\ \/ pc = "connect" /\ pc' = "select" /\ exit' = exit
           \/ pc = "connect" /\ pc' = "mkdtemp" /\ exit' = exit
           \/ pc = "mkdtemp" /\ pc' = "run_task" /\ exit' = exit
           \/ pc' = "shell" /\ exit' = "1"
    BY DEF Connect, MakeTemp, Exits, process, contract, files
  <1>2. /\ Cap' = Cap /\ HasTrace' = HasTrace /\ Growing' = Growing
        /\ running' = running /\ attempts' = attempts /\ limit' = limit
        /\ accepted' = accepted /\ report' = report /\ trace_file' = trace_file
    BY <1>1, SameCall
  <1>3. CallInv'
    BY <1>1, <1>2 DEF ExitInv, CallInv
  <1>4. FileInv'
    BY <1>1, <1>2 DEF ExitInv, FileInv, CallInv
  <1>5. ExitTruthful'
    BY <1>1, <1>3, NotYet DEF ExitTruthful
  <1> QED BY <1>3, <1>4, <1>5 DEF ExitInv

LEMMA SelectExit ==
  ASSUME CliInv, ExitInv, SelectRun
  PROVE  ExitInv'
  <1>1. /\ pc = "select" /\ pc' = "shell" /\ exit' \in {"0", "1"}
        /\ UNCHANGED <<process, contract, trace_file>> /\ db' = db
        /\ exit' = "0" => cmd.run_id \in DOMAIN db
    BY DEF SelectRun, Exits, files
  <1>2. /\ IsRun' = IsRun /\ cmd' = cmd /\ running' = running
        /\ attempts' = attempts /\ limit' = limit /\ Cap' = Cap
        /\ accepted' = accepted /\ report' = report /\ trace_file' = trace_file
    BY <1>1, SameCall
  <1>3. CallInv' /\ FileInv'
    BY <1>1, <1>2 DEF ExitInv, CallInv, FileInv
  <1>4. ~ IsRun
    <2>1. cmd.command = "trace"
      BY <1>1 DEF CliInv, ProcessInv
    <2> QED BY <2>1 DEF IsRun
  <1>5. ExitTruthful'
    BY <1>1, <1>2, <1>4 DEF ExitTruthful
  <1> QED BY <1>3, <1>5 DEF ExitInv

\* The records of run_task are lines of the file.
LEMMA Lines ==
  ASSUME CliInv, ExitInv
  PROVE  /\ Record("run_start") \in Line /\ Record("run_start").run = n
         /\ Record("run_start").event = "run_start"
         /\ EndRecord \in Line /\ EndRecord.run = n /\ EndRecord.event = "run_end"
         /\ EndRecord.iteration_count = attempts
         /\ EndRecord.status = "success" <=> accepted
  <1>1. n \in Nat /\ attempts \in Nat /\ accepted \in BOOLEAN
    BY DEF CliInv, ProcessInv, ExitInv, CallInv
  <1>2. Record("run_start") = [run |-> n, event |-> "run_start"]
    BY DEF Record
  <1>3. CASE accepted
    <2>1. EndRecord = [run |-> n, event |-> "run_end", status |-> "success",
                       iteration_count |-> attempts]
      BY <1>3 DEF EndRecord
    <2> QED BY <1>1, <1>2, <1>3, <2>1 DEF Line
  <1>4. CASE ~ accepted
    <2>1. EndRecord = [run |-> n, event |-> "run_end", status |-> "failed",
                       iteration_count |-> attempts]
      BY <1>4 DEF EndRecord
    <2> QED BY <1>1, <1>2, <1>4, <2>1 DEF Line
  <1> QED BY <1>3, <1>4

\* run_task starts.
LEMMA CallExit ==
  ASSUME CliInv, ExitInv, CallRunTask
  PROVE  ExitInv'
  <1> DEFINE e == Record("run_start")
  <1>1. /\ pc = "run_task" /\ ~ running /\ report = "none" /\ exit' = exit
        /\ n' = n /\ cmd' = cmd
    BY DEF CallRunTask, process
  <1>2. \/ /\ limit' \in Nat /\ limit' = Cap /\ attempts' = 0 /\ accepted' = FALSE
           /\ running' = TRUE /\ report' = "none" /\ Emit(e) /\ pc' = pc /\ raised' = raised
        \/ /\ limit' = Cap /\ attempts' = 0 /\ accepted' = FALSE
           /\ running' = FALSE /\ EmitRaises(e) /\ Raise
        \/ /\ UNCHANGED <<running, limit, attempts, accepted, trace_file>> /\ Raise
    BY DEF CallRunTask, Contract!Start, Contract!Refuse
  <1>3. Cap' = Cap /\ HasTrace' = HasTrace
    BY <1>1 DEF Cap, HasTrace, IsRun
  <1>4. CallInv'
    <2>1. pc # "shell" /\ accepted \in BOOLEAN /\ exit = None
      BY <1>1 DEF ExitInv, CallInv
    <2>2. accepted' \in BOOLEAN /\ exit' = None
      BY <1>1, <1>2, <2>1
    <2>3. CASE /\ limit' \in Nat /\ limit' = Cap /\ attempts' = 0
               /\ running' = TRUE /\ pc' = pc
      <3>1. limit' \in Nat /\ limit' = Cap' /\ attempts' <= limit'
        BY <1>3, <2>3
      <3> QED BY <1>1, <2>2, <2>3, <3>1 DEF CallInv
    <2>4. CASE Raise
      <3>1. ~ running'
        BY <1>1, <1>2, <2>4 DEF Raise
      <3> QED BY <2>2, <2>4, <3>1 DEF CallInv, Raise
    <2> QED BY <1>2, <2>3, <2>4
  <1>5. e \in Line /\ e.run = n /\ e.event = "run_start" /\ n \in Nat
    BY Lines DEF CliInv, ProcessInv
  <1> HIDE DEF e
  <1>6. /\ Append(<<>>, e) \in Seq(Line) /\ OneRun(Append(<<>>, e))
        /\ Len(Append(<<>>, e)) = 1 /\ Append(<<>>, e)[1] = e
    BY <1>5, FirstLine
  <1>7. HasTrace => trace_file = <<>>
    BY <1>1 DEF ExitInv, FileInv
  <1>8. /\ ~ HasTrace => trace_file' = trace_file
        /\ HasTrace => trace_file' \in {trace_file, Append(<<>>, e)}
    BY <1>2, <1>7 DEF Emit, EmitRaises
  <1>9. trace_file' # None => trace_file' \in Seq(Line) /\ OneRun(trace_file')
    BY <1>6, <1>8 DEF ExitInv, FileInv
  <1>10. CASE running' = TRUE /\ attempts' = 0 /\ Emit(e) /\ pc' = pc
    <2>1. HasTrace => trace_file' = Append(<<>>, e)
      BY <1>7, <1>10 DEF Emit
    <2>2. HasTrace => Growing'
      <3> SUFFICES ASSUME HasTrace PROVE Growing'
        OBVIOUS
      <3>1. /\ trace_file' \in Seq(Line) /\ OneRun(trace_file')
            /\ Len(trace_file') = 1 /\ trace_file'[1] = e
        BY <1>6, <2>1
      <3>2. trace_file'[1].run = n' /\ trace_file'[Len(trace_file')].event = "run_start"
        BY <1>1, <1>5, <3>1
      <3>3. Len(trace_file') = attempts' + 1 /\ ~ (attempts' > 0)
        BY <1>10, <3>1
      <3> QED BY <3>1, <3>2, <3>3 DEF Growing, Last
    <2> QED BY <1>1, <1>3, <1>4, <1>9, <1>10, <2>2, NotYet DEF ExitInv, FileInv
  <1>11. CASE Raise
    BY <1>1, <1>3, <1>4, <1>9, <1>11, NotYet DEF ExitInv, FileInv, Raise
  <1> QED BY <1>2, <1>10, <1>11

\* An attempt ends.
LEMMA AttemptExit ==
  ASSUME CliInv, ExitInv, Attempt
  PROVE  ExitInv'
  <1> DEFINE e == [run |-> n, event |-> "iteration", number |-> attempts', accepted |-> accepted']
  <1>1. /\ pc = "run_task" /\ running /\ attempts < limit /\ ~ accepted /\ exit' = exit
        /\ n' = n /\ cmd' = cmd /\ attempts' = attempts + 1 /\ accepted' \in BOOLEAN
        /\ limit' = limit
        /\ \/ running' = running /\ Emit(e) /\ pc' = pc /\ raised' = raised
           \/ running' = FALSE /\ EmitRaises(e) /\ Raise
    BY DEF Attempt, Contract!Attempt, process
  <1>2. Cap' = Cap /\ HasTrace' = HasTrace
    BY <1>1 DEF Cap, HasTrace, IsRun
  <1>3. attempts \in Nat /\ n \in Nat /\ limit = Cap /\ limit \in Nat
    BY <1>1 DEF CliInv, ProcessInv, ExitInv, CallInv
  <1>4. CallInv'
    <2>1. exit' = None
      BY <1>1 DEF ExitInv, CallInv
    <2>2. limit' \in Nat /\ limit' = Cap' /\ attempts' <= limit'
      BY <1>1, <1>2, <1>3
    <2>3. CASE running' = running /\ pc' = pc
      <3>1. running'
        BY <1>1, <2>3
      <3> QED BY <1>1, <2>1, <2>2, <2>3, <3>1 DEF CallInv
    <2>4. CASE running' = FALSE /\ Raise
      BY <1>1, <2>1, <2>4 DEF CallInv, Raise
    <2> QED BY <1>1, <2>3, <2>4
  <1>5. e \in Line /\ e.run = n /\ e.event = "iteration" /\ e.number = attempts + 1
        /\ e.accepted = accepted'
    BY <1>1, <1>3 DEF Line
  <1> HIDE DEF e
  <1>6. HasTrace =>
          /\ trace_file \in Seq(Line) /\ OneRun(trace_file) /\ trace_file # <<>>
          /\ Len(trace_file) = attempts + 1 /\ trace_file[1].run = n
          /\ Last(trace_file).event \in {"run_start", "iteration"}
          /\ Last(trace_file).event = "iteration" => ~ Last(trace_file).accepted
    <2> SUFFICES ASSUME HasTrace
                 PROVE  /\ trace_file \in Seq(Line) /\ OneRun(trace_file) /\ trace_file # <<>>
                        /\ Len(trace_file) = attempts + 1 /\ trace_file[1].run = n
                        /\ Last(trace_file).event \in {"run_start", "iteration"}
                        /\ Last(trace_file).event = "iteration" => ~ Last(trace_file).accepted
      OBVIOUS
    <2>1. Growing
      BY <1>1 DEF ExitInv, FileInv
    <2>2. attempts = 0 \/ attempts > 0
      BY <1>3
    <2>3. trace_file # <<>>
      BY <1>3, <2>1 DEF Growing
    <2> QED BY <1>1, <2>1, <2>2, <2>3 DEF Growing
  <1>7. HasTrace =>
          /\ Append(trace_file, e) \in Seq(Line) /\ OneRun(Append(trace_file, e))
          /\ Append(trace_file, e) # <<>> /\ Last(Append(trace_file, e)) = e
          /\ Len(Append(trace_file, e)) = Len(trace_file) + 1
          /\ Append(trace_file, e)[1] = trace_file[1]
    <2>1. e.event # "run_end" /\ e.event \in {"iteration", "run_end"}
      BY <1>5
    <2>2. HasTrace => e.run = trace_file[1].run /\ e.number = Len(trace_file)
      BY <1>5, <1>6
    <2> QED BY <1>5, <1>6, <2>1, <2>2, NextLine
  <1>8. /\ ~ HasTrace => trace_file' = trace_file
        /\ HasTrace => trace_file' \in {trace_file, Append(trace_file, e)}
    BY <1>1 DEF Emit, EmitRaises
  <1>9. trace_file' # None => trace_file' \in Seq(Line) /\ OneRun(trace_file')
    BY <1>6, <1>7, <1>8 DEF ExitInv, FileInv
  <1>10. CASE running' = running /\ Emit(e) /\ pc' = pc
    <2>1. HasTrace => Growing'
      <3> SUFFICES ASSUME HasTrace PROVE Growing'
        OBVIOUS
      <3>1. trace_file' = Append(trace_file, e)
        BY <1>10 DEF Emit
      <3>2. /\ trace_file' \in Seq(Line) /\ OneRun(trace_file')
            /\ Len(trace_file') = attempts + 2 /\ trace_file'[1].run = n'
            /\ Last(trace_file') = e
        BY <1>1, <1>3, <1>6, <1>7, <3>1
      <3>3. Len(trace_file') = attempts' + 1 /\ attempts' # 0
        BY <1>1, <1>3, <3>2
      <3>4. Last(trace_file').event = "iteration" /\ (Last(trace_file').accepted <=> accepted')
        BY <1>5, <3>2
      <3> QED BY <3>2, <3>3, <3>4 DEF Growing, Last
    <2> QED BY <1>1, <1>2, <1>4, <1>9, <1>10, <2>1, NotYet DEF ExitInv, FileInv
  <1>11. CASE Raise
    BY <1>1, <1>2, <1>4, <1>9, <1>11, NotYet DEF ExitInv, FileInv, Raise
  <1> QED BY <1>1, <1>10, <1>11

\* The end record, written or not.
LEMMA EndLine ==
  ASSUME CliInv, ExitInv, pc = "run_task", Finished, HasTrace
  PROVE  /\ trace_file \in Seq(Line) /\ OneRun(trace_file)
         /\ Append(trace_file, EndRecord) \in Seq(Line)
         /\ OneRun(Append(trace_file, EndRecord))
         /\ Append(trace_file, EndRecord) # <<>>
         /\ Last(Append(trace_file, EndRecord)) = EndRecord
  <1> DEFINE e == EndRecord
  <1>1. Growing
    BY DEF Finished, ExitInv, FileInv
  <1>2. /\ e \in Line /\ e.run = n /\ e.event = "run_end" /\ e.iteration_count = attempts
        /\ e.status = "success" <=> accepted
    BY Lines
  <1>3. attempts \in Nat /\ (attempts = 0 \/ attempts > 0)
    BY DEF CliInv, ProcessInv
  <1> HIDE DEF e
  <1>4. /\ trace_file \in Seq(Line) /\ OneRun(trace_file) /\ Len(trace_file) = attempts + 1
        /\ trace_file[1].run = n /\ trace_file # <<>>
    BY <1>1, <1>3 DEF Growing
  <1>5. /\ Last(trace_file).event \in {"run_start", "iteration"}
        /\ Last(trace_file).event = "iteration" => (Last(trace_file).accepted <=> accepted)
    BY <1>1, <1>3 DEF Growing
  <1>6. /\ e.run = trace_file[1].run /\ e.event \in {"iteration", "run_end"}
        /\ e.event # "iteration" /\ e.iteration_count = Len(trace_file) - 1
    BY <1>2, <1>3, <1>4
  <1>7. Last(trace_file).event = "iteration" =>
          (Last(trace_file).accepted <=> (e.event = "run_end" /\ e.status = "success"))
    BY <1>2, <1>5
  <1>8. /\ Append(trace_file, e) \in Seq(Line) /\ OneRun(Append(trace_file, e))
        /\ Append(trace_file, e) # <<>> /\ Last(Append(trace_file, e)) = e
    BY <1>2, <1>4, <1>5, <1>6, <1>7, NextLine
  <1> QED BY <1>4, <1>8 DEF e

LEMMA FinishExit ==
  ASSUME CliInv, ExitInv, FinishRun
  PROVE  ExitInv'
  <1>1. /\ pc = "run_task" /\ Finished /\ pc' = "save" /\ Emit(EndRecord)
        /\ exit' = exit /\ UNCHANGED process /\ UNCHANGED contract /\ raised' = raised
    BY DEF FinishRun
  <1>2. /\ Cap' = Cap /\ HasTrace' = HasTrace /\ EndRecord' = EndRecord
        /\ running' = running /\ limit' = limit /\ attempts' = attempts
        /\ accepted' = accepted /\ report' = report
    BY <1>1 DEF process, contract, Cap, HasTrace, IsRun, EndRecord
  <1>3. CallInv'
    BY <1>1, <1>2 DEF ExitInv, CallInv, Finished
  <1>4. CASE ~ HasTrace
    <2>1. trace_file' = trace_file
      BY <1>1, <1>4 DEF Emit
    <2>2. FileInv'
      BY <1>2, <1>4, <2>1 DEF ExitInv, FileInv
    <2> QED BY <1>1, <1>3, <2>2, NotYet DEF ExitInv
  <1>5. CASE HasTrace
    <2>1. trace_file' = Append(trace_file, EndRecord)
      BY <1>1, <1>5 DEF Emit
    <2>2. /\ trace_file' \in Seq(Line) /\ OneRun(trace_file') /\ trace_file' # <<>>
          /\ Last(trace_file') = EndRecord'
      BY <1>1, <1>2, <1>5, <2>1, EndLine
    <2>3. Closed'
      BY <2>2 DEF Closed, Last
    <2>4. FileInv'
      BY <1>1, <2>2, <2>3 DEF FileInv
    <2> QED BY <1>1, <1>3, <2>4, NotYet DEF ExitInv
  <1> QED BY <1>4, <1>5

\* The row is saved.
LEMMA SaveExit ==
  ASSUME CliInv, ExitInv, SaveRun
  PROVE  ExitInv'
  <1>1. /\ pc = "save" /\ pc' = "rmtree" /\ running /\ running' = FALSE /\ exit' = exit
        /\ report' = "success" => accepted
        /\ n' = n /\ cmd' = cmd /\ raised' = raised /\ limit' = limit
        /\ attempts' = attempts /\ accepted' = accepted /\ trace_file' = trace_file
    BY DEF SaveRun, Contract!Report, process
  <1>2. Cap' = Cap /\ HasTrace' = HasTrace /\ EndRecord' = EndRecord
    BY <1>1 DEF Cap, HasTrace, IsRun, EndRecord
  <1>3. CallInv'
    BY <1>1, <1>2 DEF ExitInv, CallInv
  <1>4. Closed' = Closed
    BY <1>1, <1>2 DEF Closed
  <1>5. FileInv'
    BY <1>1, <1>2, <1>4 DEF ExitInv, FileInv
  <1> QED BY <1>1, <1>3, <1>5, NotYet DEF ExitInv

\* An exception, anywhere in run_task.
LEMMA RaisesExit ==
  ASSUME CliInv, ExitInv, RunTaskRaises
  PROVE  ExitInv'
  <1>1. /\ pc \in {"run_task", "save"} /\ pc' = "rmtree" /\ raised' = TRUE /\ exit' = exit
        /\ running' = FALSE /\ accepted' = accepted /\ attempts' = attempts /\ cmd' = cmd
        /\ \/ pc = "run_task" /\ Finished /\ EmitRaises(EndRecord)
           \/ trace_file' = trace_file
    BY DEF RunTaskRaises, Contract!Report, process, Raise
  <1>2. CallInv'
    BY <1>1 DEF ExitInv, CallInv
  <1>3. trace_file' # None => trace_file' \in Seq(Line) /\ OneRun(trace_file')
    <2>1. CASE trace_file' = trace_file
      BY <2>1 DEF ExitInv, FileInv
    <2>2. CASE /\ pc = "run_task" /\ Finished /\ HasTrace
               /\ trace_file' = Append(trace_file, EndRecord)
      BY <2>2, EndLine
    <2> QED BY <1>1, <2>1, <2>2 DEF Emit, EmitRaises
  <1>4. FileInv'
    BY <1>1, <1>3 DEF FileInv
  <1> QED BY <1>1, <1>2, <1>4, NotYet DEF ExitInv

LEMMA RemoveExit ==
  ASSUME CliInv, ExitInv, RemoveTemp
  PROVE  ExitInv'
  <1>1. /\ pc = "rmtree" /\ UNCHANGED <<process, contract, trace_file>> /\ raised' = raised
        /\ \/ pc' = "shell" /\ exit' = "1"
           \/ pc' = "echo" /\ ~ raised /\ exit' = exit
    BY DEF RemoveTemp, Exits, files
  <1>2. /\ Cap' = Cap /\ HasTrace' = HasTrace /\ Closed' = Closed
        /\ running' = running /\ attempts' = attempts /\ limit' = limit
        /\ accepted' = accepted /\ report' = report /\ trace_file' = trace_file
    BY <1>1, SameCall
  <1>3. CallInv' /\ FileInv'
    BY <1>1, <1>2 DEF ExitInv, CallInv, FileInv
  <1>4. ExitTruthful'
    BY <1>1, <1>3, NotYet DEF ExitTruthful
  <1> QED BY <1>3, <1>4 DEF ExitInv

\* The status is printed and the code is given.
LEMMA EchoExit ==
  ASSUME CliInv, ExitInv, Echo
  PROVE  ExitInv'
  <1>1. /\ pc = "echo" /\ pc' = "shell" /\ exit' \in {"0", "1"}
        /\ exit' = "0" => Code = "0"
        /\ UNCHANGED <<process, contract, trace_file>> /\ db' = db /\ raised' = raised
    BY DEF Echo, Exits, files, Code
  <1>2. /\ Cap' = Cap /\ HasTrace' = HasTrace /\ Closed' = Closed /\ IsRun' = IsRun
        /\ EndRecord' = EndRecord /\ HasDb' = HasDb /\ cmd' = cmd
        /\ running' = running /\ attempts' = attempts /\ limit' = limit
        /\ accepted' = accepted /\ report' = report /\ trace_file' = trace_file /\ n' = n
    BY <1>1, SameCall
  <1>3. CallInv' /\ FileInv'
    BY <1>1, <1>2 DEF ExitInv, CallInv, FileInv
  <1>4. ~ raised /\ cmd.command # "trace"
    BY <1>1 DEF CliInv, ProcessInv
  <1>5. ASSUME exit' = "0" PROVE ExitTruthful'
    <2>1. ASSUME IsRun
          PROVE  /\ report = "success" /\ accepted /\ attempts <= cmd.max_iterations
                 /\ HasTrace => trace_file[Len(trace_file)] = EndRecord /\ OneRun(trace_file)
                 /\ HasDb => db[Len(db)] = Row("success")
      <3>1. report = "success"
        BY <1>1, <1>5, <2>1 DEF Code
      <3>2. accepted /\ attempts <= cmd.max_iterations
        BY <1>1, <1>4, <2>1, <3>1 DEF ExitInv, CallInv, Cap
      <3>3. HasTrace => trace_file[Len(trace_file)] = EndRecord /\ OneRun(trace_file)
        BY <1>1, <1>4 DEF ExitInv, FileInv, Closed, Last
      <3>4. HasDb => db[Len(db)] = Row("success")
        BY <1>1, <1>4, <3>1 DEF CliInv, DbInv
      <3> QED BY <3>1, <3>2, <3>3, <3>4
    <2>2. Row("success")' = Row("success")
      BY <1>2 DEF Row
    <2> QED BY <1>1, <1>2, <1>4, <2>1, <2>2 DEF ExitTruthful
  <1>6. ASSUME exit' # "0" PROVE ExitTruthful'
    BY <1>6 DEF ExitTruthful
  <1> QED BY <1>3, <1>5, <1>6 DEF ExitInv

LEMMA KillExit ==
  ASSUME CliInv, ExitInv, Kill
  PROVE  ExitInv'
  <1>1. /\ pc' = "shell" /\ exit' = "killed" /\ UNCHANGED <<process, contract, trace_file>>
    BY DEF Kill, Exits, files
  <1>2. /\ Cap' = Cap /\ running' = running /\ attempts' = attempts /\ limit' = limit
        /\ accepted' = accepted /\ trace_file' = trace_file
    BY <1>1, SameCall
  <1> QED BY <1>1, <1>2 DEF ExitInv, CallInv, FileInv, ExitTruthful

LEMMA StutterExit ==
  ASSUME CliInv, ExitInv, UNCHANGED vars
  PROVE  ExitInv'
  <1>1. /\ pc' = pc /\ exit' = exit /\ raised' = raised /\ db' = db
        /\ UNCHANGED <<process, contract, trace_file>>
    BY DEF vars, files
  <1>2. /\ IsRun' = IsRun /\ Cap' = Cap /\ HasTrace' = HasTrace /\ HasDb' = HasDb
        /\ Growing' = Growing /\ Closed' = Closed /\ EndRecord' = EndRecord
        /\ cmd' = cmd /\ running' = running /\ attempts' = attempts /\ limit' = limit
        /\ accepted' = accepted /\ report' = report /\ trace_file' = trace_file /\ n' = n
    BY <1>1, SameCall
  <1>3. CallInv' /\ FileInv'
    BY <1>1, <1>2 DEF ExitInv, CallInv, FileInv
  <1>4. ExitTruthful'
    <2>1. Row("success")' = Row("success")
      BY <1>2 DEF Row
    <2> QED BY <1>1, <1>2, <2>1 DEF ExitInv, ExitTruthful
  <1> QED BY <1>3, <1>4 DEF ExitInv

LEMMA ExitInvariant == Spec => []ExitInv
  <1>1. CliInv /\ ExitInv /\ [Next]_vars => ExitInv'
    BY InvokeExit, BuildExit, OpenExit, ConnectExit, SelectExit, CallExit, AttemptExit,
       FinishExit, SaveExit, RaisesExit, RemoveExit, EchoExit, KillExit, StutterExit DEF Next
  <1> QED BY <1>1, ExitInitially, CliInvariant, PTL DEF Spec

\* The exit code 0 can be trusted, whatever the commands were.
THEOREM ExitTruthfulHolds == Spec => []ExitTruthful
  <1>1. ExitInv => ExitTruthful
    BY DEF ExitInv
  <1> QED BY <1>1, ExitInvariant, PTL

\* A command's attempts are in its trace file, but perhaps the last.
KeptInv ==
  attempts > 0 /\ HasTrace =>
    /\ trace_file \in Seq(Line) /\ trace_file # <<>>
    /\ trace_file[1].run = n /\ Len(trace_file) >= attempts

\* A record more leaves the others where they are.
LEMMA LineAppended ==
  ASSUME NEW log \in Seq(Line), log # <<>>, NEW e \in Line
  PROVE  /\ Append(log, e) \in Seq(Line) /\ Append(log, e) # <<>>
         /\ Append(log, e)[1] = log[1] /\ Len(Append(log, e)) = Len(log) + 1
  OBVIOUS

\* An attempt ends: the records before it are there, and perhaps its own.
LEMMA AttemptKept ==
  ASSUME CliInv, ExitInv, Attempt
  PROVE  KeptInv'
  <1> SUFFICES ASSUME HasTrace
               PROVE  /\ trace_file' \in Seq(Line) /\ trace_file' # <<>>
                      /\ trace_file'[1].run = n' /\ Len(trace_file') >= attempts'
    BY DEF KeptInv, Attempt, process, HasTrace, IsRun
  <1> DEFINE e == [run |-> n, event |-> "iteration", number |-> attempts', accepted |-> accepted']
  <1>1. /\ pc = "run_task" /\ running /\ n' = n /\ attempts' = attempts + 1
        /\ accepted' \in BOOLEAN /\ (Emit(e) \/ EmitRaises(e))
    BY DEF Attempt, Contract!Attempt, process
  <1>2. attempts \in Nat /\ n \in Nat
    BY DEF CliInv, ProcessInv
  <1>3. e \in Line
    BY <1>1, <1>2 DEF Line
  <1>4. trace_file' = trace_file \/ trace_file' = Append(trace_file, e)
    BY <1>1 DEF Emit, EmitRaises
  <1> HIDE DEF e
  <1>5. /\ trace_file \in Seq(Line) /\ Len(trace_file) = attempts + 1
        /\ trace_file[1].run = n
    BY <1>1 DEF ExitInv, FileInv, Growing
  <1>6. trace_file # <<>>
    BY <1>2, <1>5
  <1>7. /\ Append(trace_file, e) \in Seq(Line) /\ Append(trace_file, e) # <<>>
        /\ Append(trace_file, e)[1] = trace_file[1]
        /\ Len(Append(trace_file, e)) = Len(trace_file) + 1
    BY <1>3, <1>5, <1>6, LineAppended
  <1> QED BY <1>1, <1>2, <1>4, <1>5, <1>6, <1>7

\* The call goes on or ends: the file keeps its records.
LEMMA RecordsKept ==
  ASSUME CliInv, ExitInv, KeptInv, UNCHANGED <<process, attempts>>,
         trace_file' \in {trace_file, Append(trace_file, EndRecord)}
  PROVE  KeptInv'
  <1> SUFFICES ASSUME attempts > 0, HasTrace
               PROVE  /\ trace_file' \in Seq(Line) /\ trace_file' # <<>>
                      /\ trace_file'[1].run = n' /\ Len(trace_file') >= attempts'
    BY DEF KeptInv, process, HasTrace, IsRun
  <1>1. n' = n /\ attempts' = attempts /\ attempts \in Nat
    BY DEF process, CliInv, ProcessInv
  <1>2. /\ trace_file \in Seq(Line) /\ trace_file # <<>>
        /\ trace_file[1].run = n /\ Len(trace_file) >= attempts
    BY DEF KeptInv
  <1>3. EndRecord \in Line
    BY Lines
  <1>4. /\ Append(trace_file, EndRecord) \in Seq(Line) /\ Append(trace_file, EndRecord) # <<>>
        /\ Append(trace_file, EndRecord)[1] = trace_file[1]
        /\ Len(Append(trace_file, EndRecord)) = Len(trace_file) + 1
    BY <1>2, <1>3, LineAppended
  <1>5. CASE trace_file' = trace_file
    BY <1>1, <1>2, <1>5
  <1>6. CASE trace_file' = Append(trace_file, EndRecord)
    BY <1>1, <1>2, <1>4, <1>6
  <1> QED BY <1>5, <1>6

LEMMA KeptInvariant == Spec => []KeptInv
  <1>1. Init => KeptInv
    BY DEF Init, Contract!Init, KeptInv
  <1>2. ASSUME CliInv, ExitInv, KeptInv, [Next]_vars PROVE KeptInv'
    <2>1. ASSUME attempts' = 0 PROVE KeptInv'
      BY <2>1 DEF KeptInv
    <2>2. CASE \E c \in Commands : Invoke(c)
      BY <2>1, <2>2 DEF Invoke
    <2>3. CASE BuildLLM \/ OpenTrace \/ Connect \/ MakeTemp
      <3>1. attempts' = attempts
        BY <2>3 DEF BuildLLM, OpenTrace, Connect, MakeTemp, contract
      <3>2. CASE pc = "connect" /\ cmd.command = "trace"
        BY <1>2, <2>3, <3>2 DEF CliInv, ProcessInv, KeptInv, HasTrace, IsRun, BuildLLM,
           OpenTrace, Connect, MakeTemp, process
      <3>3. CASE ~ (pc = "connect" /\ cmd.command = "trace")
        <4>1. pc \in {"llm", "open", "connect", "mkdtemp"}
          BY <2>3 DEF BuildLLM, OpenTrace, Connect, MakeTemp
        <4>2. attempts = 0
          BY <1>2, <4>1 DEF ExitInv, CallInv
        <4> QED BY <2>1, <3>1, <4>2
      <3> QED BY <3>2, <3>3
    <2>4. CASE CallRunTask
      <3>1. attempts' = 0 \/ UNCHANGED <<process, attempts, trace_file>>
        BY <2>4 DEF CallRunTask, Contract!Start, Contract!Refuse
      <3> QED BY <1>2, <2>1, <3>1, RecordsKept
    <2>5. CASE Attempt
      BY <1>2, <2>5, AttemptKept
    <2>6. CASE FinishRun \/ SaveRun \/ RunTaskRaises
      <3>1. UNCHANGED <<process, attempts>>
        BY <2>6 DEF FinishRun, SaveRun, RunTaskRaises, Contract!Report, contract
      <3>2. trace_file' \in {trace_file, Append(trace_file, EndRecord)}
        BY <2>6 DEF FinishRun, SaveRun, RunTaskRaises, Emit, EmitRaises
      <3> QED BY <1>2, <3>1, <3>2, RecordsKept
    <2>7. CASE SelectRun \/ RemoveTemp \/ Echo \/ Kill \/ UNCHANGED vars
      <3>1. UNCHANGED <<process, attempts, trace_file>>
        BY <2>7 DEF SelectRun, RemoveTemp, Echo, Kill, vars, contract, files
      <3> QED BY <1>2, <3>1, RecordsKept
    <2> QED BY <1>2, <2>2, <2>3, <2>4, <2>5, <2>6, <2>7 DEF Next
  <1> QED BY <1>1, <1>2, CliInvariant, ExitInvariant, PTL DEF Spec

\* The trace file never mixes runs, and keeps a command's attempts.
THEOREM TraceOfOneRunHolds == Spec => []TraceOfOneRun
  <1>1. ExitInv /\ KeptInv => TraceOfOneRun
    BY DEF ExitInv, FileInv, KeptInv, TraceOfOneRun
  <1> QED BY <1>1, ExitInvariant, KeptInvariant, PTL

-----------------------------------------------------------------------------
(***************************************************************************)
(* Types, and what a process knows of its number and its command.          *)
(***************************************************************************)
ThereInv ==
  /\ TypeOK
  /\ pc # "shell" => n >= 1 /\ cmd \in Commands

\* A record written for a run is one of that run.
LEMMA FileTyped ==
  ASSUME CliInv, ExitInv, ThereInv, pc = "run_task", n' = n, NEW e, e.run = n,
         \/ trace_file' = trace_file
         \/ HasTrace /\ trace_file' = Append(trace_file, e)
  PROVE  trace_file' # None => \A k \in DOMAIN trace_file' : trace_file'[k].run \in 1..n'
  <1>1. n \in 1..n
    BY DEF ThereInv, TypeOK
  <1>2. CASE trace_file' = trace_file
    BY <1>2 DEF ThereInv, TypeOK
  <1>3. CASE HasTrace /\ trace_file' = Append(trace_file, e)
    <2>1. CASE running
      <3>1. Growing
        BY <1>3, <2>1 DEF ExitInv, FileInv
      <3>2. trace_file \in Seq(Line) /\ \A k \in DOMAIN trace_file : trace_file[k].run = n
        BY <3>1 DEF Growing, OneRun
      <3>3. \A k \in DOMAIN Append(trace_file, e) :
              \/ Append(trace_file, e)[k] = e
              \/ k \in DOMAIN trace_file /\ Append(trace_file, e)[k] = trace_file[k]
        BY <3>2
      <3> QED BY <1>1, <1>3, <3>2, <3>3
    <2>2. CASE ~ running
      <3>1. trace_file = <<>>
        BY <1>3, <2>2 DEF ExitInv, FileInv
      <3>2. trace_file' = <<e>>
        BY <1>3, <3>1
      <3>3. \A k \in DOMAIN <<e>> : <<e>>[k] = e
        OBVIOUS
      <3> QED BY <1>1, <3>2, <3>3
    <2> QED BY <2>1, <2>2
  <1> QED BY <1>2, <1>3

\* A step within a process, if it keeps the files in order.
LEMMA WithinTyped ==
  ASSUME ThereInv, pc # "shell", UNCHANGED <<n, cmd, env>>,
         pc' \in {"shell", "open", "connect", "select", "mkdtemp", "run_task", "save",
                  "rmtree", "echo"},
         client' \in Provider \cup {"fake", None}, raised' \in BOOLEAN,
         exit' \in {None, "0", "1", "killed"},
         trace_file' # None => \A k \in DOMAIN trace_file' : trace_file'[k].run \in 1..n',
         temps' \subseteq temps \cup {n}, abandoned' \subseteq abandoned \cup {n},
         CliInv'
  PROVE  ThereInv'
  <1>1. n \in 1..n
    BY DEF ThereInv, TypeOK
  <1>2. temps' \subseteq 1..n /\ abandoned' \subseteq 1..n
    BY <1>1 DEF ThereInv, TypeOK
  <1>3. db' # None => db' \in Seq(SavedRow)
    BY DEF CliInv, DbInv
  <1> QED BY <1>2, <1>3 DEF ThereInv, TypeOK

LEMMA InvokeTyped ==
  ASSUME ThereInv, NEW c \in Commands, Invoke(c), CliInv'
  PROVE  ThereInv'
  <1>1. /\ pc' \in {"connect", "llm"} /\ n < MaxCommands /\ n' = n + 1 /\ cmd' = c
        /\ exit' = None /\ client' = None /\ raised' = FALSE
        /\ UNCHANGED <<env, trace_file, temps, abandoned>>
    BY DEF Invoke, files
  <1>2. n \in 0..MaxCommands /\ MaxCommands \in Nat
    BY CliAssumption DEF ThereInv, TypeOK
  <1>3. n' \in 0..MaxCommands /\ n' >= 1 /\ 1..n \subseteq 1..n'
    BY <1>1, <1>2
  <1>4. db' # None => db' \in Seq(SavedRow)
    BY DEF CliInv, DbInv
  <1>5. trace_file' # None => \A k \in DOMAIN trace_file' : trace_file'[k].run \in 1..n'
    BY <1>1, <1>3 DEF ThereInv, TypeOK
  <1> QED BY <1>1, <1>3, <1>4, <1>5 DEF ThereInv, TypeOK

LEMMA BuildTyped ==
  ASSUME ThereInv, BuildLLM, CliInv'
  PROVE  ThereInv'
  <1>1. /\ pc = "llm" /\ UNCHANGED <<n, cmd, env, raised, trace_file, temps, abandoned>>
        /\ \/ client' = LLM /\ pc' = "open" /\ exit' = exit
           \/ client' = client /\ pc' = "shell" /\ exit' = "1"
    BY DEF BuildLLM, files, history, Exits
  <1>2. from_env(env) \in Provider \cup {None}
    BY DEF from_env, Provider
  <1>3. LLM \in Provider \cup {"fake", None}
    BY <1>2 DEF LLM
  <1>4. /\ client' \in Provider \cup {"fake", None} /\ raised' \in BOOLEAN
        /\ exit' \in {None, "0", "1", "killed"}
        /\ trace_file' # None => \A k \in DOMAIN trace_file' : trace_file'[k].run \in 1..n'
    BY <1>1, <1>3 DEF ThereInv, TypeOK
  <1> QED BY <1>1, <1>4, WithinTyped

\* The steps that write no record of a run.
LEMMA FilesTyped ==
  ASSUME ThereInv, CliInv',
         OpenTrace \/ Connect \/ SelectRun \/ MakeTemp \/ SaveRun \/ RemoveTemp \/ Echo \/ Kill
  PROVE  ThereInv'
  <1>1. pc # "shell"
    BY DEF OpenTrace, Connect, SelectRun, MakeTemp, SaveRun, RemoveTemp, Echo, Kill
  <1>2. UNCHANGED <<n, cmd, env, client, raised>>
    BY DEF OpenTrace, Connect, SelectRun, MakeTemp, SaveRun, RemoveTemp, Echo, Kill, process
  <1>3. pc' \in {"shell", "connect", "select", "mkdtemp", "run_task", "rmtree", "echo"}
    BY DEF OpenTrace, Connect, SelectRun, MakeTemp, SaveRun, RemoveTemp, Echo, Kill, Exits
  <1>4. exit' \in {exit, "0", "1", "killed"}
    BY DEF OpenTrace, Connect, SelectRun, MakeTemp, SaveRun, RemoveTemp, Echo, Kill, Exits,
           Code
  <1>5. trace_file' \in {trace_file, <<>>}
    BY DEF OpenTrace, Connect, SelectRun, MakeTemp, SaveRun, RemoveTemp, Echo, Kill, files
  <1>6. temps' \subseteq temps \cup {n} /\ abandoned' \subseteq abandoned \cup {n}
    BY DEF OpenTrace, Connect, SelectRun, MakeTemp, SaveRun, RemoveTemp, Echo, Kill, history
  <1>7. /\ client' \in Provider \cup {"fake", None} /\ raised' \in BOOLEAN
        /\ exit' \in {None, "0", "1", "killed"}
    BY <1>2, <1>4 DEF ThereInv, TypeOK
  <1>8. trace_file' # None => \A k \in DOMAIN trace_file' : trace_file'[k].run \in 1..n'
    <2>1. DOMAIN <<>> = {}
      OBVIOUS
    <2> QED BY <1>2, <1>5, <2>1 DEF ThereInv, TypeOK
  <1> QED BY <1>1, <1>2, <1>3, <1>6, <1>7, <1>8, WithinTyped

\* The steps of run_task.
LEMMA RunTyped ==
  ASSUME CliInv, ExitInv, ThereInv, CliInv',
         CallRunTask \/ Attempt \/ FinishRun \/ RunTaskRaises
  PROVE  ThereInv'
  <1>1. /\ pc # "shell" /\ UNCHANGED <<n, cmd, env, client, exit, temps, abandoned>>
        /\ pc' \in {"run_task", "save", "rmtree"}
        /\ raised' = raised \/ raised' = TRUE
    BY DEF CallRunTask, Attempt, FinishRun, RunTaskRaises, Raise, process, history
  <1>2. \/ trace_file' = trace_file
        \/ /\ pc = "run_task" /\ HasTrace
           /\ \E e : e.run = n /\ trace_file' = Append(trace_file, e)
    <2>1. Record("run_start").run = n /\ EndRecord.run = n
      BY Lines
    <2>2. CASE CallRunTask
      BY <2>1, <2>2 DEF CallRunTask, Emit, EmitRaises
    <2>3. CASE Attempt
      <3> DEFINE e == [run |-> n, event |-> "iteration", number |-> attempts', accepted |-> accepted']
      <3>1. e.run = n
        OBVIOUS
      <3>2. pc = "run_task" /\ (Emit(e) \/ EmitRaises(e))
        BY <2>3 DEF Attempt
      <3> HIDE DEF e
      <3> QED BY <3>1, <3>2 DEF Emit, EmitRaises
    <2>4. CASE FinishRun
      BY <2>1, <2>4 DEF FinishRun, Emit
    <2>5. CASE RunTaskRaises
      BY <2>1, <2>5 DEF RunTaskRaises, Emit, EmitRaises
    <2> QED BY <2>2, <2>3, <2>4, <2>5
  <1>3. trace_file' # None => \A k \in DOMAIN trace_file' : trace_file'[k].run \in 1..n'
    <2>1. CASE trace_file' = trace_file
      BY <1>1, <2>1 DEF ThereInv, TypeOK
    <2>2. CASE /\ pc = "run_task" /\ HasTrace
               /\ \E e : e.run = n /\ trace_file' = Append(trace_file, e)
      <3>1. PICK e : e.run = n /\ trace_file' = Append(trace_file, e)
        BY <2>2
      <3> QED BY <1>1, <2>2, <3>1, FileTyped
    <2> QED BY <1>2, <2>1, <2>2
  <1>4. /\ client' \in Provider \cup {"fake", None} /\ raised' \in BOOLEAN
        /\ exit' \in {None, "0", "1", "killed"}
    BY <1>1 DEF ThereInv, TypeOK
  <1> QED BY <1>1, <1>3, <1>4, WithinTyped

LEMMA ThereInvariant == Spec => []ThereInv
  <1>1. Init => ThereInv
    <2> SUFFICES ASSUME Init PROVE ThereInv
      OBVIOUS
    <2>1. /\ pc = "shell" /\ n = 0 /\ cmd = None /\ env \in Environments /\ client = None
          /\ raised = FALSE /\ exit = None /\ trace_file = None /\ db = None /\ temps = {}
          /\ abandoned = {}
      BY DEF Init
    <2>2. 0 \in 0..MaxCommands
      BY CliAssumption
    <2> QED BY <2>1, <2>2 DEF ThereInv, TypeOK
  <1>2. CliInv /\ ExitInv /\ ThereInv /\ CliInv' /\ [Next]_vars => ThereInv'
    <2>1. ASSUME ThereInv, UNCHANGED vars PROVE ThereInv'
      BY <2>1 DEF ThereInv, TypeOK, vars, process, files, history
    <2> QED BY <2>1, InvokeTyped, BuildTyped, FilesTyped, RunTyped DEF Next
  <1> QED BY <1>1, <1>2, CliInvariant, ExitInvariant, PTL DEF Spec

\* Every variable keeps its type.
THEOREM CliTypeCorrect == Spec => []TypeOK
  <1>1. ThereInv => TypeOK
    BY DEF ThereInv
  <1> QED BY <1>1, ThereInvariant, PTL
-----------------------------------------------------------------------------
(***************************************************************************)
(* A command ends: the steps its process has left, at most.                *)
(***************************************************************************)
Tries == IF Cap >= 1 THEN Cap ELSE 0

Left ==
  CASE pc = "llm"      -> Tries + 9
    [] pc = "open"     -> Tries + 8
    [] pc = "connect"  -> Tries + 7
    [] pc = "mkdtemp"  -> Tries + 6
    [] pc = "run_task" -> IF running THEN limit - attempts + 4 ELSE Tries + 5
    [] pc = "save"     -> 3
    [] pc = "rmtree"   -> 2
    [] pc \in {"select", "echo"} -> 1
    [] OTHER -> 0

LEMMA TriesIsNat ==
  ASSUME ThereInv, pc # "shell"
  PROVE  Cap \in Int /\ Tries \in Nat
  <1>1. CASE IsRun
    <2>1. cmd \in RunCommand
      BY <1>1, CliAssumption DEF ThereInv, IsRun
    <2>2. cmd.max_iterations \in Int
      BY <2>1 DEF RunCommand
    <2>3. Cap = cmd.max_iterations
      BY <1>1 DEF Cap
    <2> QED BY <2>2, <2>3 DEF Tries
  <1>2. CASE ~ IsRun
    BY <1>2 DEF Tries, Cap
  <1> QED BY <1>1, <1>2

LEMMA LeftIsNat ==
  ASSUME CliInv, ExitInv, ThereInv
  PROVE  Left \in Nat /\ (pc # "shell" => Left >= 1)
  <1>1. CASE pc = "shell"
    BY <1>1 DEF Left
  <1>2. CASE pc = "run_task" /\ running
    <2>1. limit \in Nat /\ attempts \in Nat /\ attempts <= limit
      BY <1>2 DEF CliInv, ProcessInv, ExitInv, CallInv
    <2>2. Left = limit - attempts + 4
      BY <1>2 DEF Left
    <2> QED BY <2>1, <2>2
  <1>3. CASE pc # "shell" /\ ~ (pc = "run_task" /\ running)
    <2>1. Tries \in Nat
      BY <1>3, TriesIsNat
    <2>2. Left \in {Tries + 9, Tries + 8, Tries + 7, Tries + 6, Tries + 5, 3, 2, 1}
      BY <1>3 DEF Left, CliInv, ProcessInv
    <2> HIDE DEF Left, Tries
    <2> QED BY <2>1, <2>2
  <1> QED BY <1>1, <1>2, <1>3

\* The process is gone, or leaves the with block.
LEMMA EndFalls ==
  ASSUME CliInv, ExitInv, ThereInv, pc # "shell", pc' = "shell"
  PROVE  Left' < Left
  <1>1. Left' = 0
    BY DEF Left
  <1> QED BY <1>1, LeftIsNat

LEMMA RaiseFalls ==
  ASSUME CliInv, ExitInv, ThereInv, pc \in {"run_task", "save"}, pc' = "rmtree"
  PROVE  Left' < Left
  <1>1. Left' = 2
    BY DEF Left
  <1>2. CASE pc = "save"
    BY <1>1, <1>2 DEF Left
  <1>3. CASE pc = "run_task" /\ running
    <2>1. limit \in Nat /\ attempts \in Nat /\ attempts <= limit
      BY <1>3 DEF CliInv, ProcessInv, ExitInv, CallInv
    <2>2. Left = limit - attempts + 4
      BY <1>3 DEF Left
    <2> QED BY <1>1, <2>1, <2>2
  <1>4. CASE pc = "run_task" /\ ~ running
    <2>1. Left = Tries + 5 /\ Tries \in Nat
      BY <1>4, TriesIsNat DEF Left
    <2> QED BY <1>1, <2>1
  <1> QED BY <1>2, <1>3, <1>4

\* The steps before run_task and after it.
LEMMA OutsideFalls ==
  ASSUME CliInv, ExitInv, ThereInv,
         BuildLLM \/ OpenTrace \/ Connect \/ SelectRun \/ MakeTemp \/ SaveRun
           \/ RemoveTemp \/ Echo \/ Kill
  PROVE  Left' < Left
  <1>1. pc # "shell" /\ cmd' = cmd
    BY DEF BuildLLM, OpenTrace, Connect, SelectRun, MakeTemp, SaveRun, RemoveTemp, Echo, Kill,
           process
  <1>2. Tries \in Nat /\ Tries' = Tries
    BY <1>1, TriesIsNat DEF Tries, Cap, IsRun
  <1>3. CASE pc' = "shell"
    BY <1>1, <1>3, EndFalls
  <1>4. CASE pc' # "shell"
    <2>1. \/ pc = "llm" /\ pc' = "open"
          \/ pc = "open" /\ pc' = "connect"
          \/ pc = "connect" /\ pc' \in {"select", "mkdtemp"}
          \/ pc = "mkdtemp" /\ pc' = "run_task" /\ running' = running
          \/ pc = "save" /\ pc' = "rmtree"
          \/ pc = "rmtree" /\ pc' = "echo"
      BY <1>4 DEF BuildLLM, OpenTrace, Connect, SelectRun, MakeTemp, SaveRun, RemoveTemp,
                  Echo, Kill, Exits, contract
    <2>2. pc = "mkdtemp" => ~ running
      BY DEF ExitInv, CallInv
    <2>3. \/ Left = Tries + 9 /\ Left' = Tries' + 8
          \/ Left = Tries + 8 /\ Left' = Tries' + 7
          \/ Left = Tries + 7 /\ Left' \in {1, Tries' + 6}
          \/ Left = Tries + 6 /\ Left' = Tries' + 5
          \/ Left = 3 /\ Left' = 2
          \/ Left = 2 /\ Left' = 1
      BY <2>1, <2>2 DEF Left
    <2> HIDE DEF Left, Tries
    <2> QED BY <1>2, <2>3
  <1> QED BY <1>3, <1>4

LEMMA RunFalls ==
  ASSUME CliInv, ExitInv, ThereInv, CallRunTask \/ Attempt \/ FinishRun \/ RunTaskRaises
  PROVE  Left' < Left
  <1>1. CASE Raise
    <2>1. pc \in {"run_task", "save"}
      BY DEF CallRunTask, Attempt, FinishRun, RunTaskRaises
    <2> QED BY <1>1, <2>1, RaiseFalls DEF Raise
  <1>2. CASE CallRunTask /\ ~ Raise
    <2>1. /\ pc = "run_task" /\ ~ running /\ pc' = "run_task" /\ running' = TRUE
          /\ Cap >= 1 /\ limit' = Cap /\ attempts' = 0
      BY <1>2 DEF CallRunTask, Contract!Start
    <2>2. Left' = limit' - attempts' + 4 /\ Left = Tries + 5 /\ Tries = Cap /\ Cap \in Int
      BY <2>1, TriesIsNat DEF Left, Tries
    <2> QED BY <2>1, <2>2
  <1>3. CASE Attempt /\ ~ Raise
    <2>1. /\ pc = "run_task" /\ running /\ pc' = "run_task" /\ running'
          /\ limit' = limit /\ attempts' = attempts + 1
      BY <1>3 DEF Attempt, Contract!Attempt
    <2>2. limit \in Nat /\ attempts \in Nat
      BY <2>1 DEF CliInv, ProcessInv, ExitInv, CallInv
    <2>3. Left = limit - attempts + 4 /\ Left' = limit' - attempts' + 4
      BY <2>1 DEF Left
    <2> HIDE DEF Left
    <2> QED BY <2>1, <2>2, <2>3
  <1>4. CASE FinishRun
    <2>1. pc = "run_task" /\ running /\ pc' = "save"
      BY <1>4 DEF FinishRun, Finished
    <2>2. limit \in Nat /\ attempts \in Nat /\ attempts <= limit
      BY <2>1 DEF CliInv, ProcessInv, ExitInv, CallInv
    <2>3. Left = limit - attempts + 4 /\ Left' = 3
      BY <2>1 DEF Left
    <2> QED BY <2>2, <2>3
  <1> QED BY <1>1, <1>2, <1>3, <1>4 DEF RunTaskRaises

\* A command ends: its process has at most max_iterations + 9 steps, and each
\* lowers what is left, whether it succeeds, fails or is killed in it.
THEOREM CommandBounded ==
  Spec => /\ [](Left \in Nat)
          /\ [][\A c \in Commands : Invoke(c) => Left' <= Tries' + 9]_vars
          /\ [][(\E c \in Commands : Invoke(c)) \/ Left' < Left]_vars
  <1>1. CliInv /\ ExitInv /\ ThereInv => Left \in Nat
    BY LeftIsNat
  <1>2. ThereInv => (pc # "shell" => Tries \in Nat)
    BY TriesIsNat
  <1>3. (ThereInv => (pc # "shell" => Tries \in Nat))'
    BY <1>2, PTL
  <1>4. ThereInv' => \A c \in Commands : Invoke(c) => Left' <= Tries' + 9
    <2> SUFFICES ASSUME ThereInv', NEW c \in Commands, Invoke(c) PROVE Left' <= Tries' + 9
      OBVIOUS
    <2>1. pc' = "llm" \/ pc' = "connect"
      BY DEF Invoke
    <2>2. Tries' \in Nat
      BY <1>3, <2>1
    <2>3. Left' = Tries' + 9 \/ Left' = Tries' + 7
      BY <2>1 DEF Left
    <2> HIDE DEF Left, Tries
    <2> QED BY <2>2, <2>3
  <1>5. CliInv /\ ExitInv /\ ThereInv /\ [Next]_vars
        => ((\E c \in Commands : Invoke(c)) \/ Left' < Left) \/ UNCHANGED vars
    BY OutsideFalls, RunFalls DEF Next
  <1> QED BY <1>1, <1>4, <1>5, CliInvariant, ExitInvariant, ThereInvariant, PTL DEF Spec
=============================================================================
