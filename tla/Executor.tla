------------------------------ MODULE Executor ------------------------------
(***************************************************************************)
(* The executor (executor.py) and the tools it drives (tools.py): one call *)
(* of Executor.execute resets the sandbox directory, runs the steps of a   *)
(* plan in order, retries transient faults, stops at the first step that   *)
(* fails or times out, and returns an ExecutionResult.                     *)
(*                                                                         *)
(* Successive calls share one directory, as the iterations of a run do, so *)
(* what one call leaves behind is there when the next one begins.  A call  *)
(* is modelled attempt by attempt: the fault injector and the tool decide, *)
(* by a nondeterministic choice, how an attempt ends.                      *)
(***************************************************************************)
EXTENDS Integers, Sequences

CONSTANTS
  File,          \* the names a plan may give to files of the sandbox
  SolutionFile,  \* Task.solution_filename
  TestFile,      \* Task.test_filename
  Content,       \* what a file may contain
  StarterCode,   \* Task.starter_code
  TestCode,      \* Task.test_code
  Empty,         \* the empty string
  SizeOf,        \* the length of each content, which a .pyc file records
  None,          \* Python's None: no path, no content, no such file
  Outside,       \* a path that resolves outside the sandbox
  Root,          \* a path that resolves to the sandbox directory itself
  Faults,        \* what fault_injector may return besides None
  Plans,         \* the plans execute() is called with
  MaxRetries,    \* Executor.max_retries
  MaxCalls       \* bound: the calls of execute() on one directory

VALID_TOOLS == {"read_file", "write_file", "run_tests", "list_files"}

\* A plan step: "bogus" is any tool name outside VALID_TOOLS.
PlanStep == [tool    : VALID_TOOLS \cup {"bogus"},
             path    : File \cup {None, Outside, Root},
             content : Content \cup {None}]

ASSUME ExecutorAssumption ==
  /\ SolutionFile \in File /\ TestFile \in File /\ SolutionFile # TestFile
  /\ {StarterCode, TestCode, Empty} \subseteq Content
  /\ None \notin Content
  /\ {None, Outside, Root} \cap File = {}
  /\ SizeOf \in [Content -> Nat]
  /\ Faults \subseteq {"transient", "timeout", "error"}
  /\ Plans \subseteq Seq(PlanStep)
  /\ MaxRetries \in Nat
  /\ MaxCalls \in Nat

VARIABLES
  pc,            \* "idle" | "running" | "returned" | "crashed"
  calls,         \* the calls of execute() made so far
  sandbox,       \* the files of the directory
  pyc,           \* the source the cached bytecode of SolutionFile was made from
  plan,          \* the argument of the current call
  step_results,  \* one StepResult per step that ended
  attempt,       \* the attempt of the current step
  tests_passed,  \* "None" | "True" | "False"
  broke          \* why the loop over the steps was left: the flags
                 \* timed_out and tool_error ("no" | "timeout" | "error")

\* History of the current call, read by the properties only.
VARIABLES
  tested,        \* the files, and the solution code, the last pytest run saw
  made           \* per step: the attempts really made, and whether the last of
                 \* them met a transient fault or a pytest that hung

control == <<pc, calls, plan>>
disk    == <<sandbox, pyc>>
outcome == <<step_results, attempt, tests_passed, broke, tested, made>>
vars    == <<control, disk, outcome>>

StepResult == [tool     : VALID_TOOLS \cup {"bogus"},
               status   : {"success", "failed", "timeout"},
               attempts : Nat]

Met == {"nothing", "transient", "hang"}

Untested == [files |-> [f \in File |-> None], code |-> None]

TypeOK ==
  /\ pc \in {"idle", "running", "returned", "crashed"}
  /\ calls \in 0..MaxCalls
  /\ sandbox \in [File -> Content \cup {None}]
  /\ pyc \in Content \cup {None}
  /\ plan \in Seq(PlanStep)
  /\ step_results \in Seq(StepResult)
  /\ attempt \in 1..(MaxRetries + 1)
  /\ tests_passed \in {"None", "True", "False"}
  /\ broke \in {"no", "timeout", "error"}
  /\ tested \in [files : [File -> Content \cup {None}],
                 code  : Content \cup {None}]
  /\ made \in Seq([attempts : Nat, met : Met])

-----------------------------------------------------------------------------
\* A fresh directory, before the first call.
Init ==
  /\ pc = "idle" /\ calls = 0 /\ plan = <<>>
  /\ sandbox = [f \in File |-> None] /\ pyc = None
  /\ step_results = <<>> /\ attempt = 1
  /\ tests_passed = "None" /\ broke = "no"
  /\ tested = Untested /\ made = <<>>

(***************************************************************************)
(* The start of execute(): materialize_sandbox writes the solution, then   *)
(* the tests, over whatever the directory holds; nothing is deleted.       *)
(***************************************************************************)
KeepsTests(files) ==   \* mutant: tests that are there are not rewritten
  [files EXCEPT ![SolutionFile] = StarterCode, ![TestFile] = IF @ = None THEN TestCode ELSE @]

Materialized(files) ==
  [files EXCEPT ![SolutionFile] = StarterCode, ![TestFile] = TestCode]

ResetKeepsVerdict ==   \* mutant: tests_passed lives as long as the executor
  /\ step_results' = <<>> /\ attempt' = 1
  /\ UNCHANGED tests_passed /\ broke' = "no"
  /\ tested' = Untested /\ made' = <<>>

\* The local variables of a call, which no other call sees.
ResetLocals ==
  /\ step_results' = <<>> /\ attempt' = 1
  /\ tests_passed' = "None" /\ broke' = "no"
  /\ tested' = Untested /\ made' = <<>>

\* execute(task, p, workdir) up to the first step.
Execute(p) ==
  /\ pc # "running" /\ calls < MaxCalls
  /\ pc' = "running" /\ calls' = calls + 1 /\ plan' = p
  /\ sandbox' = Materialized(sandbox) /\ UNCHANGED pyc
  /\ ResetLocals

\* mkdir or one of the two writes raises: execute() raises, and the directory
\* may have its solution reset and not its tests, or a file truncated.
ExecuteRaises(p) ==
  /\ pc # "running" /\ calls < MaxCalls
  /\ pc' = "crashed" /\ calls' = calls + 1 /\ plan' = p
  /\ \/ UNCHANGED sandbox
     \/ \E code \in {StarterCode, Empty} :
          sandbox' = [sandbox EXCEPT ![SolutionFile] = code]
     \/ sandbox' = [Materialized(sandbox) EXCEPT ![TestFile] = Empty]
  /\ UNCHANGED <<pyc, outcome>>

-----------------------------------------------------------------------------
(***************************************************************************)
(* The end of an attempt.  Every action below leaves `control' alone.      *)
(***************************************************************************)
Step == plan[Len(step_results) + 1]

InStep ==
  /\ pc = "running" /\ broke = "no"
  /\ Len(step_results) < Len(plan)

AttemptsFromZero(status) ==   \* mutant: counts the retries, not the attempts
  IF status = "success" THEN attempt - 1 ELSE MaxRetries + 1

\* What a StepResult says of the attempts: the attempt that succeeded, or
\* the whole budget when the step failed.
Attempts(status) == IF status = "success" THEN attempt ELSE MaxRetries + 1

Record(status, met) ==
  /\ step_results' = Append(step_results, [tool     |-> Step.tool,
                                           status   |-> status,
                                           attempts |-> Attempts(status)])
  /\ made' = Append(made, [attempts |-> attempt, met |-> met])
  /\ attempt' = 1

NoBreakOnError(status) ==   \* mutant: the generic handler has no `break'
  IF status = "timeout" THEN "timeout" ELSE "no"

TimeoutIsError(status) ==   \* mutant: the generic handler comes first
  IF status = "success" THEN "no" ELSE "error"

\* How the loop goes on after a step that ended so.
BreakOn(status) ==
  CASE status = "success" -> "no"
    [] status = "timeout" -> "timeout"
    [] status = "failed"  -> "error"

EndStep(status, met) == Record(status, met) /\ broke' = BreakOn(status)

LastTryForgotten == attempt < MaxRetries   \* mutant: `>=' for `>'

CanRetry == attempt <= MaxRetries

\* The injector returns a TransientToolError and the budget has room: the
\* step sleeps (the delay doubles each time) and is tried again.
Retry ==
  /\ InStep /\ "transient" \in Faults /\ CanRetry
  /\ attempt' = attempt + 1
  /\ UNCHANGED <<control, disk, step_results, tests_passed, broke, tested, made>>

RetriesExhausted ==
  /\ InStep /\ "transient" \in Faults /\ ~ CanRetry
  /\ EndStep("failed", "transient")
  /\ UNCHANGED <<control, disk, tests_passed, tested>>

\* The injector returns a ToolTimeoutError or another exception.
InjectedFault ==
  /\ InStep
  /\ \/ "timeout" \in Faults /\ EndStep("timeout", "nothing")
     \/ "error" \in Faults /\ EndStep("failed", "nothing")
  /\ UNCHANGED <<control, disk, tests_passed, tested>>

\* tools.list_files, and tools.read_file of a file that exists.
Inspect ==
  /\ InStep
  /\ \/ Step.tool = "list_files"
     \/ /\ Step.tool = "read_file" /\ Step.path \in File
        /\ sandbox[Step.path] # None
  /\ EndStep("success", "nothing")
  /\ UNCHANGED <<control, disk, tests_passed, tested>>

\* The argument `step.content or ""'.
Written == IF Step.content = None THEN Empty ELSE Step.content

WriteFile ==
  /\ InStep /\ Step.tool = "write_file" /\ Step.path \in File
  /\ sandbox' = [sandbox EXCEPT ![Step.path] = Written]
  /\ EndStep("success", "nothing")
  /\ UNCHANGED <<control, pyc, tests_passed, tested>>

\* run_tests finds its target: a file that exists, or the directory.
Testable ==
  /\ Step.tool = "run_tests"
  /\ \/ Step.path = Root
     \/ Step.path \in File /\ sandbox[Step.path] # None

\* The code `import solution' loads in the pytest process: the file, or
\* bytecode cached in the directory by an earlier process.  Python takes the
\* cached bytecode for current when the size and the mtime, in seconds, of
\* the source are those it was made from; the mtimes agree when both sources
\* were written within a second, which the clock decides.
Loadable ==
  {sandbox[SolutionFile]} \cup
  (IF pyc # None /\ SizeOf[pyc] = SizeOf[sandbox[SolutionFile]] THEN {pyc} ELSE {})

VerdictIfPassed(passed) == IF passed THEN "True" ELSE "None"   \* mutant

\* What a finished pytest process does to the outcome of the call.
Verdict(passed) == IF passed THEN "True" ELSE "False"

RunTests ==
  /\ InStep /\ Testable
  /\ \E code \in Loadable, passed \in BOOLEAN :
       /\ tests_passed' = Verdict(passed)
       /\ tested' = [files |-> sandbox, code |-> code]
       /\ pyc' \in {pyc, code}
  /\ EndStep("success", "nothing")
  /\ UNCHANGED <<control, sandbox>>

\* The pytest process exceeds its time and is killed.  TimeoutExpired carries
\* the partial output as bytes on POSIX: with none the tool raises
\* ToolTimeoutError; with some, joining bytes to the text "" raises TypeError.
RunTestsHangs ==
  /\ InStep /\ Testable
  /\ \E printed \in BOOLEAN :
       EndStep(IF printed THEN "failed" ELSE "timeout", "hang")
  /\ pyc' \in {pyc} \cup Loadable
  /\ UNCHANGED <<control, sandbox, tests_passed, tested>>

\* A tool raises: an unknown tool, a missing or escaping path, an absent file,
\* or an OSError, which any tool may meet.  A write that fails after the file
\* was opened leaves it truncated.
ToolRaises ==
  /\ InStep
  /\ EndStep("failed", "nothing")
  /\ \/ UNCHANGED sandbox
     \/ /\ Step.tool = "write_file" /\ Step.path \in File
        /\ sandbox' = [sandbox EXCEPT ![Step.path] = Empty]
  /\ UNCHANGED <<control, pyc, tests_passed, tested>>

-----------------------------------------------------------------------------
\* The fields of the ExecutionResult that a call returns.
overall_status ==
  CASE broke = "timeout" -> "timeout"
    [] broke = "error"   -> "failed"
    [] broke = "no"      -> "success"

IgnoresBreak == Len(step_results) = Len(plan)   \* mutant

\* The for statement is left by a break or after the last step.
LoopDone == broke # "no" \/ Len(step_results) = Len(plan)

Return ==
  /\ pc = "running" /\ LoopDone
  /\ pc' = "returned"
  /\ UNCHANGED <<calls, plan, disk, outcome>>

Attempt ==
  \/ Retry \/ RetriesExhausted \/ InjectedFault
  \/ Inspect \/ WriteFile \/ RunTests \/ RunTestsHangs \/ ToolRaises

Progress == Attempt \/ Return

Next ==
  \/ \E p \in Plans : Execute(p) \/ ExecuteRaises(p)
  \/ Progress

\* Once called, the executor is scheduled until it returns: every tool call
\* returns, pytest because subprocess.run bounds it.  Nobody has to call it.
Spec == Init /\ [][Next]_vars /\ WF_vars(Progress)

-----------------------------------------------------------------------------
(***************************************************************************)
(* Properties.                                                             *)
(***************************************************************************)
InCall == pc \in {"running", "returned"}

\* The executor walks the plan and stops at the first step that does not
\* succeed: the results are those of a prefix of the plan, each under its own
\* step's tool, and only the last one may be a failure (the two `break's).
FailFast ==
  InCall =>
    /\ Len(step_results) <= Len(plan)
    /\ \A k \in 1..Len(step_results) :
         /\ step_results[k].tool = plan[k].tool
         /\ k < Len(step_results) => step_results[k].status = "success"

\* overall_status is accounted for by the steps: "success" exactly when every
\* step of the plan succeeded, else the status of the last step that ran; a
\* timeout stays distinguishable from a failure.
StatusExplained ==
  pc = "returned" =>
    /\ (overall_status = "success") <=>
         /\ Len(step_results) = Len(plan)
         /\ \A k \in 1..Len(plan) : step_results[k].status = "success"
    /\ overall_status # "success" =>
         /\ step_results # <<>>
         /\ overall_status = step_results[Len(step_results)].status

\* The verdict is known exactly when a pytest run of this call completed: one
\* that timed out or never started leaves None, and no earlier call's verdict
\* shows through.
KnownVerdict ==
  InCall =>
    ((tests_passed # "None") <=>
       \E k \in 1..Len(step_results) :
         /\ step_results[k].tool = "run_tests"
         /\ step_results[k].status = "success")

\* A plan that ends with run_tests, as the planner is told to, and succeeds
\* hands the reviewer a verdict on the very files it leaves in the sandbox.
EvidenceFresh ==
  /\ pc = "returned" /\ overall_status = "success"
  /\ plan # <<>> /\ plan[Len(plan)].tool = "run_tests"
  => tests_passed # "None" /\ tested.files = sandbox

\* What the task says of a file of its own.
Original(f) == IF f = SolutionFile THEN StarterCode ELSE TestCode

\* What a step of the plan may have left in the file f; an interrupted write
\* leaves it empty.
WrittenBy(k, f) ==
  IF plan[k].tool = "write_file" /\ plan[k].path = f
  THEN {plan[k].content, Empty} ELSE {}

\* The solution and the tests of the task come from this call alone: from the
\* reset, or from a step of this plan that has run.
OwnFiles ==
  InCall =>
    \A f \in {SolutionFile, TestFile} :
      \/ sandbox[f] = Original(f)
      \/ \E k \in 1..Len(step_results) : sandbox[f] \in WrittenBy(k, f)

\* A step is attempted at most 1 + max_retries times, and exactly as often when
\* a transient fault is what it ended with; a step that succeeded reports the
\* attempts it took.
RetryBudget ==
  InCall =>
    /\ Len(made) = Len(step_results)
    /\ \A k \in 1..Len(made) :
         /\ made[k].attempts <= MaxRetries + 1
         /\ made[k].met = "transient" => made[k].attempts = MaxRetries + 1
         /\ step_results[k].status = "success" =>
              step_results[k].attempts = made[k].attempts

\* Every call that gets past the reset returns: the retries of a step are
\* bounded and each step is run once.
CallReturns == pc = "running" ~> pc = "returned"

-----------------------------------------------------------------------------
(***************************************************************************)
(* What the repository says of the executor and the code does not do.      *)
(***************************************************************************)
\* "Each iteration starts fresh from the original starter code [...] This keeps
\* iterations independent": a call begins with the task's two files and
\* nothing of an earlier call.
StartsFresh ==
  pc = "running" /\ step_results = <<>> =>
    \A f \in File \ {SolutionFile, TestFile} : sandbox[f] = None

\* "tests_passed must stay None (we genuinely don't know), never False" when
\* the plan's test run timed out.
TimeoutLeavesUnknown ==
  pc = "returned" /\ overall_status = "timeout" => tests_passed # "False"

\* A step result's `attempts' are the attempts the step took: "a timeout or a
\* genuine error is never worth blindly retrying".
AttemptsAreReal ==
  InCall => \A k \in 1..Len(made) : step_results[k].attempts = made[k].attempts

\* run_tests "raises ToolTimeoutError [...] if the process exceeds
\* timeout_seconds", so that a hang is recorded as a timeout.
HangIsTimeout ==
  InCall => \A k \in 1..Len(made) : made[k].met = "hang" => step_results[k].status = "timeout"

\* "The grading itself is always a real pytest subprocess run against whatever
\* the executor actually wrote": the solution code that was loaded is the one
\* in the file.
GradedAsWritten ==
  InCall /\ tests_passed # "None" => tested.code = tested.files[SolutionFile]
=============================================================================
