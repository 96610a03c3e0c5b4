-------------------------------- MODULE Cli ---------------------------------
(***************************************************************************)
(* The command line (cli.py): a user who runs one command after another on *)
(* one trace file and one database.  A command is a process of its own,    *)
(* which may be killed at any point; what outlives it are the files, its   *)
(* temporary directory if nobody removed it, and its exit code.            *)
(*                                                                         *)
(* run_task is what RunContract says of it; its log records and the row it *)
(* saves are those of LoopController, with the fields the commands need.   *)
(* `list-tasks' and `eval' touch none of these files and are left out.     *)
(***************************************************************************)
EXTENDS TaskSuite, RealLLM

CONSTANTS
  Commands,      \* the commands the user may type
  Environments,  \* where the API keys may be
  MaxCommands    \* bound: the commands of a session

RunCommand == [command : {"run"}, task_id : STRING, max_iterations : Int,
               db : BOOLEAN, trace_file : BOOLEAN,
               llm : {"script", "reviewer error", "real"}]

\* A row of agent_runs; run is history: the table does not hold it.
SavedRow == [run : Nat, status : {"success", "failed"}, iteration_count : Nat]

ASSUME CliAssumption ==
  /\ \A c \in Commands :
       \/ c \in RunCommand
       \/ c.command = "demo"
       \/ c.command = "trace" /\ c.run_id \in Int
  /\ Environments \subseteq Environment
  /\ MaxCommands \in Nat
  /\ None \notin Provider \cup {"0"} /\ None \notin Seq(SavedRow)

VARIABLES
  pc,          \* what the process does next; "shell": there is none
  n,           \* the number of the command
  cmd,         \* the command
  env,         \* the environment of the session
  client,      \* what answers planner and reviewer: a provider or "fake"
  raised,      \* whether an exception is on its way out of the with block
  running, limit, attempts, accepted, report,   \* run_task (RunContract)
  exit,        \* the last command's: None while it runs | "0" | "1" | "killed"
  trace_file,  \* the records in the trace file, None if there is no file
  db,          \* the rows of the database, likewise; the index is the id
  temps,       \* the commands whose temporary directory is there
  abandoned,   \* history: those that were killed, or could not remove it
  before,      \* history: the files when the command was typed
  vouched      \* history: the saved runs whose command exited with 0

process  == <<n, cmd, env, client>>
contract == <<running, limit, attempts, accepted, report>>
files    == <<trace_file, db>>
history  == <<abandoned, before, vouched>>
vars     == <<pc, process, raised, contract, exit, files, temps, history>>

Contract == INSTANCE RunContract

Record(e)   == [run |-> n, event |-> e]
EndRecord   == [run |-> n, event |-> "run_end",
                status |-> IF accepted THEN "success" ELSE "failed", iteration_count |-> attempts]
Row(status) == [run |-> n, status |-> status, iteration_count |-> attempts]

TypeOK ==
  /\ pc \in {"shell", "llm", "open", "connect", "select", "mkdtemp", "run_task",
             "save", "rmtree", "echo"}
  /\ n \in 0..MaxCommands
  /\ cmd \in Commands \cup {None} /\ env \in Environments
  /\ client \in Provider \cup {"fake", None}
  /\ raised \in BOOLEAN
  /\ exit \in {None, "0", "1", "killed"}
  /\ trace_file # None => \A k \in DOMAIN trace_file : trace_file[k].run \in 1..n
  /\ db # None => db \in Seq(SavedRow)
  /\ temps \subseteq 1..n /\ abandoned \subseteq 1..n

-----------------------------------------------------------------------------
Init ==
  /\ pc = "shell" /\ n = 0 /\ cmd = None /\ env \in Environments /\ client = None
  /\ raised = FALSE /\ Contract!Init
  /\ exit = None /\ trace_file = None /\ db = None /\ temps = {}
  /\ abandoned = {} /\ before = files /\ vouched = {}

\* The process ends, of its own accord.
Exits(code) == pc' = "shell" /\ exit' = code

EagerOpen(c) ==   \* mutant: the trace file is opened first of all
  /\ pc = "shell" /\ n < MaxCommands
  /\ n' = n + 1 /\ cmd' = c /\ exit' = None /\ before' = files
  /\ pc' = IF c.command = "trace" THEN "connect" ELSE "llm"
  /\ client' = None /\ raised' = FALSE
  /\ running' = FALSE /\ limit' = 0 /\ attempts' = 0 /\ accepted' = FALSE /\ report' = "none"
  /\ trace_file' = (IF c \in RunCommand /\ c.trace_file THEN <<>> ELSE trace_file)
  /\ UNCHANGED <<env, db, temps, abandoned, vouched>>

\* The user types a command, which starts a process.
Invoke(c) ==
  /\ pc = "shell" /\ n < MaxCommands
  /\ n' = n + 1 /\ cmd' = c /\ exit' = None /\ before' = files
  /\ pc' = IF c.command = "trace" THEN "connect" ELSE "llm"
  /\ client' = None /\ raised' = FALSE
  /\ running' = FALSE /\ limit' = 0 /\ attempts' = 0 /\ accepted' = FALSE /\ report' = "none"
  /\ UNCHANGED <<env, files, temps, abandoned, vouched>>

\* `demo' has no options: word_count, its script, five attempts, no files.
IsRun     == cmd.command = "run"
Task      == IF IsRun THEN cmd.task_id ELSE "word_count"
Cap       == IF IsRun THEN cmd.max_iterations ELSE 5
HasTrace  == IsRun /\ cmd.trace_file
HasDb     == cmd.command = "trace" \/ (IsRun /\ cmd.db)
LLM       == IF IsRun /\ cmd.llm = "real" THEN from_env(env) ELSE "fake"

\* get_task, then _build_llm or a script; either may raise.
BuildLLM ==
  /\ pc = "llm"
  /\ \/ /\ Known(Task) /\ LLM # None
        /\ client' = LLM /\ pc' = "open" /\ UNCHANGED exit
     \/ (~ Known(Task) \/ LLM = None) /\ Exits("1") /\ UNCHANGED client
  /\ UNCHANGED <<n, cmd, env, raised, contract, files, temps, history>>

AppendMode ==   \* mutant: open(trace_file, "a")
  /\ pc = "open" /\ pc' = "connect"
  /\ trace_file' = IF HasTrace /\ trace_file = None THEN <<>> ELSE trace_file
  /\ UNCHANGED <<process, raised, contract, exit, db, temps, history>>

\* open(trace_file, "w") empties the file, or raises and leaves it.
OpenTrace ==
  /\ pc = "open"
  /\ \/ HasTrace /\ trace_file' = <<>> /\ pc' = "connect" /\ UNCHANGED exit
     \/ ~ HasTrace /\ pc' = "connect" /\ UNCHANGED <<trace_file, exit>>
     \/ HasTrace /\ Exits("1") /\ UNCHANGED trace_file
  /\ UNCHANGED <<process, raised, contract, db, temps, history>>

Recreated == <<>>   \* mutant: CREATE TABLE without IF NOT EXISTS, after a DROP

\* The file as Storage finds or makes it.
Created == IF db = None THEN <<>> ELSE db

Connect ==
  /\ pc = "connect"
  /\ \/ /\ db' = (IF HasDb THEN Created ELSE db)
        /\ pc' = (IF cmd.command = "trace" THEN "select" ELSE "mkdtemp")
        /\ UNCHANGED exit
     \/ HasDb /\ db' \in {db, Created} /\ Exits("1")
  /\ UNCHANGED <<process, raised, contract, trace_file, temps, history>>

\* `trace': get_run, close, and the record or an error message.
SelectRun ==
  /\ pc = "select"
  /\ \/ cmd.run_id \in DOMAIN db /\ Exits("0")
     \/ Exits("1")
  /\ UNCHANGED <<process, raised, contract, files, temps, history>>

-----------------------------------------------------------------------------
MakeTemp ==
  /\ pc = "mkdtemp"
  /\ \/ temps' = temps \cup {n} /\ pc' = "run_task" /\ UNCHANGED exit
     \/ Exits("1") /\ UNCHANGED temps
  /\ UNCHANGED <<process, raised, contract, files, history>>

\* A record goes to the trace file and to the terminal; either may raise.
Emit(e)       == trace_file' = IF HasTrace THEN Append(trace_file, e) ELSE trace_file
EmitRaises(e) == Emit(e) \/ UNCHANGED trace_file

Raise == raised' = TRUE /\ pc' = "rmtree"

\* run_task starts, or refuses its max_iterations.
CallRunTask ==
  /\ pc = "run_task" /\ ~ running /\ report = "none"
  /\ \/ /\ Cap >= 1 /\ limit' = Cap /\ Contract!Start
        /\ \/ running' /\ Emit(Record("run_start")) /\ UNCHANGED <<pc, raised>>
           \/ ~ running' /\ EmitRaises(Record("run_start")) /\ Raise
     \/ Cap < 1 /\ Contract!Refuse /\ Raise /\ UNCHANGED trace_file
  /\ UNCHANGED <<process, exit, db, temps, history>>

Attempt ==
  /\ pc = "run_task" /\ Contract!Attempt
  /\ LET e == [run |-> n, event |-> "iteration", number |-> attempts', accepted |-> accepted']
     IN  \/ running' /\ Emit(e) /\ UNCHANGED <<pc, raised>>
         \/ ~ running' /\ EmitRaises(e) /\ Raise
  /\ UNCHANGED <<process, exit, db, temps, history>>

Finished == running /\ (accepted \/ attempts = limit)

FinishRun ==
  /\ pc = "run_task" /\ Finished /\ pc' = "save" /\ Emit(EndRecord)
  /\ UNCHANGED <<process, raised, contract, exit, db, temps, history>>

SaveRun ==
  /\ pc = "save" /\ pc' = "rmtree"
  /\ Contract!Report /\ report' # "exception"
  /\ db' = IF HasDb THEN Append(db, Row(report')) ELSE db
  /\ UNCHANGED <<process, raised, exit, trace_file, temps, history>>

\* Anything else run_task may raise, at any point.  An open transaction dies
\* with the process.
RunTaskRaises ==
  /\ pc \in {"run_task", "save"}
  /\ Contract!Report /\ report' = "exception" /\ Raise
  /\ IF pc = "run_task" /\ Finished THEN EmitRaises(EndRecord) ELSE UNCHANGED trace_file
  /\ UNCHANGED <<process, exit, db, temps, history>>

-----------------------------------------------------------------------------
\* The with block is left, with or without an exception; it may raise one.
RemoveTemp ==
  /\ pc = "rmtree"
  /\ \/ /\ temps' = temps \ {n} /\ UNCHANGED abandoned
        /\ IF raised THEN Exits("1") ELSE pc' = "echo" /\ UNCHANGED exit
     \/ /\ UNCHANGED temps /\ abandoned' = abandoned \cup {n}
        /\ Exits("1")
  /\ UNCHANGED <<process, raised, contract, files, before, vouched>>

DemoCode == "0"   \* mutant: `run' exits as `demo' does

\* `demo' returns; `run' raises typer.Exit.
Code == IF ~ IsRun \/ report = "success" THEN "0" ELSE "1"

\* The files are closed and the status is printed; any of it may raise.
Echo ==
  /\ pc = "echo"
  /\ \/ /\ Exits(Code)
        /\ vouched' = IF HasDb /\ Code = "0" THEN vouched \cup {[id |-> Len(db), row |-> db[Len(db)]]}
                      ELSE vouched
     \/ Exits("1") /\ UNCHANGED vouched
  /\ UNCHANGED <<process, raised, contract, files, temps, abandoned, before>>

\* The process is killed.
Kill ==
  /\ pc # "shell" /\ Exits("killed")
  /\ abandoned' = abandoned \cup (temps \cap {n})
  /\ UNCHANGED <<process, raised, contract, files, temps, before, vouched>>

Next ==
  \/ \E c \in Commands : Invoke(c)
  \/ BuildLLM \/ OpenTrace \/ Connect \/ SelectRun
  \/ MakeTemp \/ CallRunTask \/ Attempt \/ FinishRun \/ SaveRun \/ RunTaskRaises
  \/ RemoveTemp \/ Echo \/ Kill

Spec == Init /\ [][Next]_vars

-----------------------------------------------------------------------------
(***************************************************************************)
(* Properties.                                                             *)
(***************************************************************************)
\* The trace of one run, whole or cut short: its start, its attempts, its end.
OneRun(log) ==
  /\ \A k \in DOMAIN log : log[k].run = log[1].run
  /\ \A k \in DOMAIN log :
       CASE log[k].event = "run_start" -> k = 1
         [] log[k].event = "iteration" -> /\ log[k].number = k - 1
                                          /\ k + 1 \in DOMAIN log =>
                                               (log[k].accepted <=> /\ log[k + 1].event = "run_end"
                                                                    /\ log[k + 1].status = "success")
         [] log[k].event = "run_end"   -> k = Len(log) /\ log[k].iteration_count = k - 2

\* The exit code 0 of `run' can be trusted: the last attempt was accepted, the
\* trace file is that run's whole trace, with its success, and the database has
\* it as its newest run; that of `trace' says that the run is there.
ExitTruthful ==
  exit = "0" =>
    /\ IsRun =>
         /\ report = "success" /\ accepted /\ attempts <= cmd.max_iterations
         /\ HasTrace => trace_file[Len(trace_file)] = EndRecord /\ OneRun(trace_file)
         /\ HasDb => db[Len(db)] = Row("success")
    /\ cmd.command = "trace" => cmd.run_id \in DOMAIN db

\* There is no such task, or a real model is asked for and no variable that
\* counts holds a key.
CannotStart ==
  /\ cmd # None /\ cmd.command # "trace"
  /\ \/ ~ Known(Task)
     \/ IsRun /\ cmd.llm = "real" /\ \A p \in Provider : environ(env, p) # "key"

\* What a command leaves behind: one that cannot start, the trace and the
\* database of the runs before it, instead of failing "deep inside the loop" when
\* these are gone; and none its temporary directory, however it ended, unless it
\* was killed or could not remove it.
LeavesNothing ==
  /\ CannotStart => before = files
  /\ temps \subseteq abandoned \cup (IF pc = "shell" THEN {} ELSE {n})

\* What `run' vouched for stays in the database under its id, whatever later
\* commands do, fail at or are killed in.
VouchedKept ==
  \A v \in vouched : v.id \in DOMAIN db /\ db[v.id] = v.row /\ v.row.status = "success"

\* The trace file never mixes runs: it holds the trace of one, cut short where
\* the run was.  That of a command with attempts is its own, and lacks at most
\* the last of them, although an exception skips the closing of the file.
TraceOfOneRun ==
  /\ trace_file # None => OneRun(trace_file)
  /\ attempts > 0 /\ HasTrace => trace_file[1].run = n /\ Len(trace_file) >= attempts
=============================================================================
