------------------------------ MODULE PeerLoop ------------------------------
(***************************************************************************)
(* The loop with its executor: LoopController and Executor composed, as    *)
(* cli.py and eval.py put them together, a fresh temporary directory for   *)
(* each run_task.  Where LoopController lets the executor return any       *)
(* result, here the executor runs the plan, step by step, in a directory   *)
(* that all attempts of the run share.                                     *)
(***************************************************************************)
EXTENDS Integers, Sequences, FiniteSets

CONSTANTS
  File, SolutionFile, TestFile, Content, StarterCode, TestCode, Empty, SizeOf,
  None, Outside, Root, Faults, MaxRetries,   \* of Executor
  Plan, Text, Caps, MaxRuns, HasStorage,     \* of LoopController
  MaxLog         \* bound: the records that the log may come to hold

VARIABLES        \* of LoopController
  pc, runs, ending, cap, i, iterations, prior_feedback, plan, execution_result,
  result, run_id, run_counter, entries, sink, db, pending

VARIABLES        \* of Executor
  exec_pc, calls, exec_plan, sandbox, pyc, step_results, attempt, tests_passed,
  broke, tested, made

\* What Executor.execute may return.
Result == [tests_passed   : {"None", "True", "False"},
           overall_status : {"success", "failed", "timeout"}]

Loop == INSTANCE LoopController

Exec == INSTANCE Executor WITH
  pc <- exec_pc, plan <- exec_plan, Plans <- Plan, MaxCalls <- MaxLog

\* The plans are sequences of plan steps, and the three special values are not
\* files, contents, plans or results.
ASSUME PeerLoopAssumption ==
  /\ SolutionFile \in File /\ TestFile \in File /\ SolutionFile # TestFile
  /\ {None, Outside, Root} \cap File = {} /\ Root \notin {None, Outside}
  /\ Plan \subseteq Seq(Exec!PlanStep)
  /\ None \notin Plan \cup Content \cup Result
  /\ Caps \subseteq Int /\ MaxRetries \in Nat

\* What is left of the assumptions of the two parts.
ASSUME PartsAssumption ==
  /\ {StarterCode, TestCode, Empty} \subseteq Content
  /\ SizeOf \in [Content -> Nat]
  /\ Faults \subseteq {"transient", "timeout", "error"}
  /\ MaxRuns \in Nat /\ MaxLog \in Nat /\ HasStorage \in BOOLEAN
  /\ None \notin Loop!ExecutionResult \cup Loop!RunResult

loop == <<pc, runs, ending, cap, i, iterations, prior_feedback, plan, execution_result,
          result, run_id, run_counter, entries, sink, db, pending>>
exec == <<exec_pc, calls, exec_plan, sandbox, pyc, step_results, attempt, tests_passed,
          broke, tested, made>>
vars == <<loop, exec>>

Init == Loop!Init /\ Exec!Init

-----------------------------------------------------------------------------
SameDirectory ==   \* mutant: the runs of a process share one directory
  /\ exec_pc' = "idle" /\ calls' = 0 /\ exec_plan' = <<>>
  /\ Exec!ResetLocals
  /\ UNCHANGED <<sandbox, pyc>>

\* Executor() and tempfile.TemporaryDirectory().
FreshExecutor ==
  /\ exec_pc' = "idle" /\ calls' = 0 /\ exec_plan' = <<>>
  /\ Exec!ResetLocals
  /\ sandbox' = [f \in File |-> None] /\ pyc' = None

RunTask(c) ==
  /\ Len(entries) + c + 2 <= MaxLog
  /\ Loop!RunTask(c) /\ FreshExecutor

RejectCap(c) == Loop!RejectCap(c) /\ UNCHANGED exec

\* The loop calls executor.execute(task, plan, workdir).
CallExecutor ==
  /\ pc = "execute" /\ Exec!Execute(plan)
  /\ UNCHANGED loop

UncaughtRaise ==   \* mutant: nothing is caught around executor.execute
  /\ pc = "execute" /\ Exec!ExecuteRaises(plan)
  /\ pc' = "idle" /\ ending' = "raised"
  /\ UNCHANGED <<runs, cap, i, iterations, prior_feedback, plan, execution_result,
                 result, run_id, run_counter, entries, sink, db, pending>>

\* It raises, and the loop turns that into a rejection.
CallRaises ==
  /\ exec_pc # "running" /\ Loop!ExecutorRaises /\ Exec!ExecuteRaises(plan)

ExecutorRuns == Exec!Attempt /\ UNCHANGED loop

\* The values handed over by the return.
ExecutionResult == [tests_passed |-> tests_passed, overall_status |-> Exec!overall_status]

ExecutorReturns ==
  /\ execution_result' = ExecutionResult
  /\ Loop!ExecutorReturns /\ Exec!Return

LoopRuns == pc # "execute" /\ Loop!Step /\ UNCHANGED exec

Step == CallExecutor \/ CallRaises \/ ExecutorRuns \/ ExecutorReturns \/ LoopRuns

Next == (\E c \in Caps : RunTask(c) \/ RejectCap(c)) \/ Step

\* One thread: the loop waits while the executor runs.
Spec == Init /\ [][Next]_vars /\ WF_vars(Step)

-----------------------------------------------------------------------------
(***************************************************************************)
(* Properties.                                                             *)
(***************************************************************************)
\* The loop with a real executor is the loop: whatever the executor goes
\* through inside a call, the loop sees one return or one exception, and it
\* sees it in the end, retries, hanging tests and crashes notwithstanding.
KeepsLoop == Loop!Spec

\* Every plan the planner made is executed once: a malformed review or a
\* failed step never runs it again, and no attempt borrows the execution of
\* another.
ExecutedOnce ==
  calls = Cardinality({k \in DOMAIN iterations : iterations[k].plan # None})
          + (IF exec_pc = "running" \/ execution_result # None THEN 1 ELSE 0)

\* Steps that no tool carries out.
Hopeless(s) == s.tool = "bogus" \/ (s.tool # "list_files" /\ s.path \in {None, Outside})

\* The result recorded with a plan is of that plan: it has a verdict only if
\* the plan runs tests, and calls a success only a plan that can succeed.
EvidenceOwn ==
  \A k \in DOMAIN iterations :
    LET p == iterations[k].plan
        r == iterations[k].execution_result
    IN  r # None =>
          /\ r.tests_passed # "None" => \E n \in DOMAIN p : p[n].tool = "run_tests"
          /\ r.overall_status = "success" => \A n \in DOMAIN p : ~ Hopeless(p[n])

\* What the plan p may make of the solution; a write may be cut short.
Writes(p) ==
  {p[n].content : n \in {m \in DOMAIN p : p[m].tool = "write_file"
                                          /\ p[m].path = SolutionFile}}
  \cup {Empty}

PlansOfRun == ({plan} \cup {iterations[k].plan : k \in DOMAIN iterations}) \ {None}

\* A test run grades code of its own run: the starter code, or what a plan of
\* this run wrote, even when the interpreter takes its cached bytecode for
\* current.  No other run's solution is ever graded.
NoForeignCode ==
  tested.code # None =>
    tested.code \in {StarterCode} \cup UNION {Writes(p) : p \in PlansOfRun}

LastPlan   == iterations[Len(iterations)].plan
LastResult == iterations[Len(iterations)].execution_result

\* When a run returns an accepted attempt whose plan ended by passing its
\* tests, the files that passed are the ones in the directory.
SuccessInPlace ==
  /\ Loop!Returned /\ result.status = "success"
  /\ LastResult = [tests_passed |-> "True", overall_status |-> "success"]
  /\ LastPlan[Len(LastPlan)].tool = "run_tests"
  => /\ exec_plan = LastPlan
     /\ tested.files = sandbox
=============================================================================
