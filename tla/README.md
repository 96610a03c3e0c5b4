# A TLA+ model of the planner / executor / reviewer loop

This directory models `src/peer_loop`: a loop in which a planner (an LLM) writes a plan, an
executor runs it in a sandbox directory, and a reviewer (an LLM) accepts or rejects the outcome,
with a cap on the attempts. TLC checks the modules on small instances; TLAPS proves most of the
safety properties for every value of the constants.

Paths below are relative to `src/peer_loop` unless they start with `tests/` or `README.md`.

## Inventory

| Component | State it keeps | Operations | Talks to | What makes it correct |
|---|---|---|---|---|
| `LoopController` (`loop_controller.py`) | per call: iterations, prior feedback, the current plan and result | `run_task` | calls planner, executor, reviewer, logger, storage in turn | the cap is exact; a rejection reaches the next plan; every plan is executed once; every way out is reported |
| `Executor` (`executor.py`) | per call: step results, verdict, flags | `execute`, the retry loop, dispatch | the tools, the fault injector | a result that tells the truth about what ran; bounded retries; stop at the first failure |
| tools (`tools.py`), sandbox (`task_suite/tasks.py`) | files of a directory shared by the iterations of a run | read, write, list, run pytest, reset | the file system, a pytest process | nothing of another run decides this one; what an earlier iteration leaves is known |
| `Planner`, `Reviewer` (`planner.py`, `reviewer.py`), `json_utils.py` | none | `plan`, `review`, `extract_json` | `LLMClient.complete` | an answer is a valid value or a `MalformedResponseError` |
| `LoopLogger` (`logging_utils.py`) | entries, run counter, the trace file | `start_run`, `log_iteration`, `finish_run` | a text sink | a complete trace of every run, in order |
| `Storage` (`storage.py`) | a SQLite connection and its open transaction | `save_run`, `get_run`, `list_runs` | the database file, other processes | a run is stored whole or not at all |
| `FakeLLMClient` (`llm/fake.py`), scripts (`demo_fixtures.py`), task suite (`task_suite/tasks.py`) | one queue of answers per role | `complete` | planner, reviewer | the answers meet the attempts they were written for |
| `RealLLMClient` (`llm/real.py`) | provider and key | `from_env`, `complete` | a network service | picks a provider that has a key; loses no text of the reply |
| evaluation (`eval.py`) | the list of results | `evaluate_task` with reviewer and with an always-accepting one, `run_full_eval`, the report | two controllers per task | a fair comparison |
| command line (`cli.py`) | the trace file, the database, a temporary directory | `run`, `demo`, `eval`, `trace` | everything above | exit code, trace file and database tell the same story |

Each process has one thread. What is hard here is *persistence across steps*: one directory for all
iterations, one connection, one logger and one set of script queues for all runs, one trace file and
one database for all commands, with exceptions and kills that may leave any of them half-way; several
processes on one database; a retry and a loop whose bounds must be exact; and outcomes (timeout,
failure, malformed answer, crash, other exception) that must stay distinguishable to the end. The
hazards are listed, each at its line, in `PROJECT.json`.

## Modules

| Module | Models | Run by |
|---|---|---|
| `Executor` | `executor.py`, `tools.py`, `materialize_sandbox` | `MCExecutor` |
| `LoopController` | `loop_controller.py`, `logging_utils.py`, `save_run` | `MCLoopController` |
| `RunContract` | what `run_task` promises its caller (abstract) | implemented by `LoopController`, used by `Cli` |
| `PeerLoop` | `LoopController` composed with `Executor` on the shared directory | `MCPeerLoop` |
| `RunTable` | what the database promises whoever saves runs in it (abstract) | implemented by `Storage` |
| `Storage` | `storage.py`, several connections on one file | `MCStorage` |
| `RealLLM` | `llm/real.py`: the choice of a provider, the text of a reply | `Agents`, `Cli` |
| `Agents` | `json_utils.py`, the rules of `planner.py` and `reviewer.py` | `MCAgents` |
| `TaskSuite` | `task_suite/tasks.py`, `demo_fixtures.py`, as data | `MCEval`, `Cli` |
| `Eval` | `llm/fake.py`, `eval.py` | `MCEval` |
| `Cli` | `cli.py` | `MCCli` |
| `ExecutorProofs`, `LoopControllerProofs`, `LoopLogProofs`, `PeerLoopProofs`, `StorageProofs`, `AgentsProofs`, `EvalProofs`, `CliProofs` | proofs about the module they are named after (`LoopLogProofs`: the log and the database of `LoopController`; `PeerLoopProofs` instantiates the proof modules of both parts) | TLAPS |

`PeerLoop` instantiates `LoopController` and `Executor`; `LoopController` and `Cli` instantiate
`RunContract`, `Storage` instantiates `RunTable`; `Agents` and `Cli` extend `RealLLM`.

### Executor

A state is a point between two *attempts* of a step. `sandbox` maps each file name to its content
or `None`; `pyc` is the source from which the bytecode cached in the directory was compiled.
`Execute(p)` is the start of a call: the reset, which writes the task's two files over whatever is
there, and the fresh local variables; `ExecuteRaises(p)` is a reset that fails half-way. Then one action
per way an attempt ends: `Retry` and `RetriesExhausted` (a transient fault), `InjectedFault`, `Inspect`
(`read_file`, `list_files`), `WriteFile`, `RunTests`, `RunTestsHangs`, `ToolRaises`. The tools that may
raise do so by choice: a missing path, a path that escapes the sandbox, an unknown tool and an absent
file always end in `ToolRaises`, and any tool may meet an `OSError`, a write even after it truncated its
file. `Return` computes `overall_status` from the flag that left the loop (`broke` stands for the two
flags `timed_out` and `tool_error`). A plan is a sequence of steps from a small set; the descriptions,
outputs and durations are left out, the verdict line of `run_tests` is `Verdict`. The delays of the
backoff are left out: nothing else runs meanwhile.

`RunTests` chooses the code that the pytest process loads: the file, or bytecode cached earlier when
size and modification second agree. The second is not modelled: both sources may have been written
within it. The bytecode of the test file, which pytest caches under the same rule, is not
modelled separately.

`tested` and `made` are history: what the last test run saw, how often each step was really attempted, and
whether the last attempt met a transient fault or a hanging pytest.

### LoopController

A state is a point between two calls the loop makes: `pc` says what it does next (`plan`, `execute`,
`review`, `finish`, `save`). The planner, the executor and the reviewer appear as their outcomes.
`EndIteration` is the tail that all branches share (append, log, go on), with the feedback each of
them sets; `NextIteration` is the `for` statement. `AgentRaises` is any exception of the planner or
reviewer but `MalformedResponseError`: the loop does not catch it. The logger keeps `entries` in
memory, then writes the line to `sink`; the write may raise before or after the line is there, and
the exception leaves `run_task`. `SaveRunRaises` leaves in `pending` what `save_run` had inserted: the
code never rolls back, so the next commit on that connection stores it. Reasons carry who wrote them;
their words are model values.

A locals' value that no later statement reads is set to `None` at the end of an iteration (`plan`,
`execution_result`). `run_id` in the rows of `db` is history.

`RunContract` says what a caller sees: a call makes attempts up to its limit until one is accepted,
then reports; it may end in an exception at any point. `LoopController!KeepsContract` maps the
attempts to the iterations and the report to how the call ended.

### PeerLoop

The state is that of both modules; `pc` is the loop's and `exec_pc` the executor's. `CallExecutor` enters
`Executor!Execute` with the loop's plan, `ExecutorRuns` is an attempt inside the call, in which the loop
waits, `ExecutorReturns` is the executor's `Return` and the loop's at once, with the result computed from
the executor's locals, and `CallRaises` is a reset that raises, which the loop turns into a rejection.
`LoopRuns` is everything else the loop does. `RunTask` gives each run a fresh executor and an empty
directory, as `cli.py` and `eval.py` do; the attempts of a run share it, cached bytecode included.

### Storage

A state is a point between two SQL statements of several `Storage` objects on one file. `file` is what is
committed, with the id as index; `rows[c]` is what the open transaction of `c` would add. SQLite is
external and is modelled as the code meets it: Python begins a transaction before the first `INSERT`
(`in_transaction`), the file is locked as a whole (`lock`: `SHARED` to read, `RESERVED` to write, the
file alone to commit, `PENDING` after a commit that gave up), a statement that waits too long raises,
and a `SELECT` inside an open transaction keeps its lock. `save_run` is `SaveRun` (the call),
`InsertRun`, `InsertIteration` for each row, `IterationsInserted`, `Commit`; each of the statements has
its `...Raises`, which leaves the transaction open since the code does not roll back, unless SQLite
itself does. `get_run` is two statements, `GetRun` and `GetIterations`. `Close` and `Crash` end a
connection and lose its transaction. A run's rows in `agent_iterations` are counted, as they are
inserted in order.

`LoopController` has `save_run` in one step, as the loop sees it. `RunTable` says why it may: a table with
two actions, `Save` and `Fail`, without connections, transactions and locks. The file, `returned` and
`failed` are its variables, a `Commit` is its `Save`, a `...Raises` its `Fail`, and every other statement,
crash and close is none of its steps (`KeepsTable`). What the code does not promise is in it too: what a
failed `save_run` left in its transaction may come in just before a run that is saved later.

### RealLLM and Agents

`from_env` is a function of where the keys are: a variable of the process or of a `.env` file is unset,
blank or a key, and `load_dotenv` leaves alone what the process has. `complete_anthropic` joins the text
blocks of a message, `complete_openai` turns an absent content into the empty text. The names of the
models are left out, and so is the directory in which `.env` is looked for.

A state of `Agents` is an answer before or after an agent has judged it. An answer comes as one of the
two providers or the scripted client gives it, cut into blocks anywhere, with blocks of other types in
between. It is a sequence of pieces as coarse as `extract_json` sees them, so that fences may stand
anywhere, inside strings too; an object is a record of the fields it has, and a reason a sequence of
words, blanks and full stops. `Candidate` is the regular expression, `Parsed` is `json.loads` with the
one exception that is caught, `Usable` and `Fair` are the schema and the rules of `Planner.plan` and
`Reviewer.review`. In `LoopController` the outcomes are `PlannerPlans` / `ReviewerDecides` ("plan",
"verdict"), `PlannerMalformed` / `ReviewerMalformed` ("malformed") and `AgentRaises` ("raw",
"llm error").

### TaskSuite and Eval

`TaskSuite` is data: the six tasks, the script of each and the two special scripts, as the solution each
plan hands in and the verdict on it. Of a solution it matters whose task it solves and whether it is
the starter code, a flawed attempt or the reference fix; that the first fails and the last passes is what
`tests/test_task_suite.py` checks. `Rounds` reduces a script to good or bad plans and their verdicts.

A state of `Eval` is a point between two calls of a scripted run: `planner` and `reviewer` are the LLM's
queues, `plan` whether the plan in hand is good, `truth` the verdict of the last attempt's tests.
`Execute` has the honest outcome, `ExecuteInVain` the timeout or failed step, `Crash` the exception that
the loop turns into a rejection without asking the reviewer. `run_full_eval` goes through the suite: for
each task `evaluate_task` plays the script with the LLM's reviewer, then (`StartBaseline`), from fresh
queues, with `AlwaysAccept`; `EvaluateNext` appends the result. A script that runs dry raises, and the
report is lost. Malformed answers and failing writes are left to `LoopController`: the scripts are well
formed and these runs have no database.

### Cli

A user types commands one after another on one trace file and one database; each is a process that may
be killed between any two steps. `BuildLLM` is `get_task` and the choice of a client, `OpenTrace` the
`open(..., "w")` that empties the trace file, `Connect` the `Storage` constructor, `MakeTemp` and
`RemoveTemp` the `with` block, `Echo` the closing and the output, after which the exit code is `Code`.
Each of them may raise. `run_task` is what `RunContract` says (`CallRunTask`, `Attempt`, `FinishRun`,
`SaveRun`, `RunTaskRaises`), with a log record at each of its steps: any outcome the contract allows, which
is more than a script gives. `trace` is `Connect` and `SelectRun`. Commands that run at the same time on
one database are the subject of `Storage`.

## Runs

| Run | Question | Bounds |
|---|---|---|
| `executor_safety` | do the results tell the truth, over two calls on one directory, and does every call return? | 3 files, 4 contents, every plan of up to 2 working steps and 3 longer ones, 2 retries, all faults |
| `loop_runs` | is the cap exact and the feedback fresh; do log, file and database agree, across runs and failing writes; is the contract kept, its liveness included? | 2 runs, caps 0, 1 and 3, 1 plan, 1 result, 1 wording |
| `peer_loop` | does the composition implement the loop; is each plan executed once, and each verdict of its own plan and run? | 2 runs, caps 0 and 2, 3 plans, 2 files, transient faults, 1 retry |
| `storage` | is `save_run` atomic, is what it returned there for good, what `get_run` returns and an idle connection keeps committed or of a failed save, and does every call end? | 3 clients, 2 runs of 2 iterations |
| `agents` | what is made of an answer? | every text of up to 5 of 10 pieces, every reason of up to 5 of 4 pieces, 11 objects, replies of up to 3 pieces cut anywhere |
| `eval` | is the comparison fair, how far can faults spoil it, and does a script last as long as the cap? | the suite and all scripts of `demo_fixtures.py` (`max_calls` 3 and 4), caps 1 to 4, 3 faults |
| `cli` | do exit codes, trace file and database agree over a session? | 3 commands out of 8, 4 environments, a kill or an exception at every step |

Two calls are enough for what one leaves to the next: the directory and the cached bytecode, the log
and the open transaction are the only state that survives, and each property compares a call with
the state it started from. Three iterations give a first, a middle and a last one. One wording is
enough for the feedback: a reason is told from another by its author, and each author is an assignment of
its own in the code. One result is enough too, as the loop looks at it only to compare its verdict with
the reviewer's, which may be either. Two retries are the default of the code and give a
first, a middle and a last attempt. A plan of three steps has a step before and after the one that
fails; the three that are given are those where the tests run twice around an edit, or where the
step in the middle cannot succeed. In `peer_loop`, two runs of two iterations have a second attempt that
meets the first one's directory and a second run that must not; a cap of 0 is refused; of the faults
only the transient one remains, as the others end an attempt as failing tools do; `MaxLog` = 5 leaves
room for every run of two iterations and, after a first one cut short, for another.

Two saves suffice for what a failed one leaves to the next on its connection; three clients are one that
writes, one that reads and one that waits for both. Five pieces hold a fence, its tag, an object and the
closing fence with something before or after, and three fences around an object. The longest real script
has two rounds, so caps of 1 to 4 lie below, at and above every length; three faults spoil a script, its
baseline and one more. Three commands are one that leaves something, one that meets it, and `trace`.

Deadlock is not an error except in `storage`: the other models stop when their calls are used up.

### Where the code does not do what is said of it

Each of these runs checks one sentence of the repository and finds it violated.

| Run | Said | Found |
|---|---|---|
| `executor_fresh` | `executor.py:42-46`: each iteration starts fresh, iterations are independent | a third file written by an earlier iteration is still there |
| `loop_recorded` | `logging_utils.py:3-6`: every plan, execution result and review verdict is recorded | when the planner's or the reviewer's call fails with another exception than `MalformedResponseError`, the attempt under way is in no record: its plan and its result are lost |
| `executor_hang` | `tools.py:55-58`: a run that exceeds its time raises `ToolTimeoutError` | with partial output the handler joins bytes and text and raises `TypeError`: a failed step |
| `executor_graded` | `task_suite/tasks.py:11-13`: graded against what the executor actually wrote | cached bytecode of an earlier content of the same size and second is loaded |
| `agents_raw` | `json_utils.py:23-24`: never a raw exception type | an integer of too many digits and deep nesting raise `ValueError` and `RecursionError`, which end the run |

The modules state more sentences of this kind, next to these, which the models violate as well and no
run is spent on; put as the only `INVARIANT` of the module's passing configuration, each gives its trace:

| Definition | Said | Found |
|---|---|---|
| `Executor!TimeoutLeavesUnknown` | `tests/test_executor.py:105-106`: after a timeout `tests_passed` stays `None`, never `False` | a plan that tests twice and times out the second time returns `False` |
| `Executor!AttemptsAreReal` | `executor.py:121-124`: the attempts used; a timeout or an error is not retried | a step attempted once and failed is recorded with `max_retries + 1` |
| `Agents!ForgivesProse` | `json_utils.py:3-4`: forgiving about a stray sentence before or after | without a fence, prose around the object makes the answer malformed |
| `Agents!ObjectParsed` | `json_utils.py:21`: parse as JSON, stripping a fence if present | two fences in a string of a bare object make what is between them the candidate |
| `Agents!RejectionsSpecific` | `README.md:82-84`: every rejection must cite specifics | `"bad ."` and `"."` pass |
| `Eval!CrashNotFatal` | `loop_controller.py:77`: an executor crash must not kill the whole run | the crash costs a plan of the script, which then runs dry: `AssertionError` |
| `Eval!SingleShot` | `eval.py:26`: the single-shot baseline | after an executor crash the baseline tries again |

What the models show but nothing in the repository denies:

* After a `save_run` that raised, the connection's transaction stays open. It keeps its lock while idle,
  so that no other process can save; its reads see rows that may never be committed; and its next
  `save_run` commits them, perhaps without all their iterations. `IdleHoldsNothing`, `RecordCommitted` and
  `WholeUnlessFailed` say that this is the only way such rows come about: they are of runs whose `save_run`
  raised.
* A variable that is set but blank in the process hides the key in `.env`: `from_env` then finds no key, or
  takes the other provider, while its message asks for the variable.
* `run` with `--max-iterations 0`, or with a `--db` that cannot be opened, has already emptied the trace
  file of the run before it (`LeavesNothing` speaks only of commands that have no task or no key, and
  `TraceOfOneRun` allows an empty file).
* `demo` exits with 0 whatever the status was, and so does `trace` for a run that failed (`ExitTruthful`).
* `run` prints no row id, which `trace` needs; a session has to count.

## Fairness

`WF_vars(Progress)` in `Executor`, `WF_vars(Step)` in `LoopController` and `PeerLoop`, and
`WF_vars(Work(c))` for each client in `Storage`: a call that has begun is one thread that runs until it is
done, and each thing it waits for answers or times out (pytest is bounded by
`subprocess.run(timeout=...)`, SQLite by its busy timeout, the LLM clients by their libraries). Nobody
has to start a call. No action needs strong fairness, and none is assumed to succeed: `CallReturns`,
`KeepsContract`, `KeepsLoop` and `CallsEnd` hold although every fault may occur at every attempt. `Eval` and
`Cli` state no liveness: a process may be killed, and a script's run is the loop's.

## Proofs

The eight proof modules prove, for every value of the constants that satisfies the named assumptions
(`ExecutorAssumption`, `LoopAssumption`, `NoneAssumption`, `PeerLoopAssumption`, `PartsAssumption`,
`StorageAssumption`, `AgentsAssumption`, `EvalAssumption`, `FirstPlansAssumption`, `CliAssumption`):

* `Spec => []TypeOK` for `Executor`, `LoopController`, `Storage`, `Agents`, `Eval` and `Cli`;
* `FailFast`, `StatusExplained`, `KnownVerdict`, `EvidenceFresh`, `OwnFiles`, `RetryBudget` of the executor;
* `CapExact`, `FeedbackFresh`, `LogInOrder`, `TraceComplete` and `SavedRuns` of the loop;
* that every step of the loop is a step of `RunContract` or one its caller does not see (`ContractKept`),
  that the loop with a real executor takes the loop's steps (`LoopKept`), and that the database implements
  `RunTable` (`TableKept`);
* `ExecutedOnce`, `EvidenceOwn`, `NoForeignCode` and `SuccessInPlace` of the composition; that it keeps all
  the properties of the loop and of the executor just named (`LoopHolds`, `ExecutorHolds`) and the contract
  (`ContractHolds`); and `SuccessJudged`, which belongs to neither part alone;
* `SavedForGood`, `WholeUnlessFailed`, `RecordCommitted`, `IdleHoldsNothing` and `TablesThere` of the database;
* `FencedObjectUsed`, `NothingInvented`, `SpecificReasonKept` and `GenericReasonRefused` of the agents, for
  answers and reasons of any length;
* `QueuesDrift`, `CapStopsFirst` and `BaselineGraded` of the evaluation, for every suite and every script;
  `NeverWorse` and `FaultsCountOnce`, for every suite of the kind `FirstPlansAssumption` describes and for
  every suite;
* `ExitTruthful`, `LeavesNothing`, `VouchedKept` and `TraceOfOneRun` of the command line;
* that what is begun can only end: variants for a call of the executor (`CallBounded`), a run of the loop
  (`RunBounded`), loop and executor together (`RunDescends`), a call of `Storage` (`StatementsBounded`) and a
  command (`CommandBounded`).

Every property of a passing run is therefore a theorem, but for the four that state liveness.

The assumptions say no more than the code's types do, with one exception. `FirstPlansAssumption` is about
the data: the reviewer's script of a task never rejects a first plan that is right, which is true of
`_SCRIPTS` in `demo_fixtures.py` (and checked by TLC on it) and not of every script one could write. Only
`NeverWorse` rests on it; without it a reviewer could spoil what the baseline has solved. `PartsAssumption` says of
`PeerLoop`'s constants what the two parts assume of theirs, so that their theorems can be instantiated.

**Executor.** `IInv` adds to the properties: `Walk` (during a call every recorded step but the last
succeeded, and the last has the status the flag stands for), `ReturnsDone` (a call returns only when
its loop is over) and `Evidence` (right after a step that ran the tests, the verdict is known and the
files are those tested). `FailFast` alone is not inductive: it does not say that nothing failed while
`broke = "no"`; `EvidenceFresh` speaks of returned calls only. `EndStepAppends` says what ending a step
does to the sequences; `EndStepWalks`, `FailureKeepsVerdict`, `OtherToolKeepsVerdict`, `SameFilesOwned`
and `WriteOwned` carry the conjuncts over each kind of step. `CallBounded`'s variant `Left` is a product, an
attempt budget for every step of the plan that is left, and needs from `IInv` that an attempt never
exceeds `max_retries + 1`.

**Loop.** The invariant adds `LoopInv`: inside the loop the counter is one ahead of the iterations,
within the cap, and none of them was accepted; a plan is there when executor and reviewer run; a
result is there when the run finishes; a call under way has not ended. `EndIterationInv` does the
work for the four actions that end an iteration. The variant of `RunBounded` counts three calls for each
iteration that may come, and the calls that are left of this one.

**Log and database of the loop** (`LoopLogProofs`, over the loop's invariant). `LogInOrder` says what may
stand before a record; what makes the next one fit is the end of the log: `LogInv` says that during a run
the last record of the log and of the file is its start, its last iteration or, once it was written, its
end, and that every id in them is below the counter (a write that raises ends the run). `SavedRuns` needs that every row that waits in the open transaction
has its end in the log too (`SavedInv`), since a later commit stores it. `TraceComplete` is about the attempts that ended, which is all the code
records (the run `loop_recorded` shows the one that did not); `TraceInv` keeps its
trace open while the run is under way; `EndsWithAppend` and `OpenTraceGrows` say that one record appended
to both the trace and the log keeps the one at the end of the other.

**Composition.** `PeerInv` says who is at work and on what (`Phases`: the executor runs only while the loop
waits for it, on the loop's plan), what the executor has of that plan (`Walked`: no step so far was one
that no tool carries out, a verdict comes from a `run_tests` step, and right after such a step the files
are those tested), that the result survives the way through the reviewer (`Handed`, `Reported`), and that
no code but the run's own is in the directory or in its cache (`Codes`). `StepEndedInv` does the work
for the attempts, `EndInv` for the iterations, `PlannedAppend` counts the plans.

What is proved of a part is not proved again: `PeerLoopProofs` instantiates the proof modules of the parts
(`LoopFacts`, `ExecFacts`). `SameLoopStep` and `SameExecutorStep` say that a step of the composition is one of the
part (or none), `LoopAssumed` and `ExecutorAssumed` discharge the part's assumptions, and the part's own
`...Inductive` lemma does the rest. One step is nobody's: `RunTask` gives the loop a fresh executor and an
empty directory, which is a state the executor can start in (`ExecutorKept`). `RunDescends` orders steps
lexicographically: what the loop has left, then whether the executor still has to be called, then what the
call has left. `SuccessJudged` (a successful execution of a plan that ends with `run_tests` never reaches the
reviewer, nor the record, without a verdict) needs the executor's `KnownVerdict` at the moment of
`ExecutorReturns` (`EndJudged`) and the loop's care with the result afterwards (`JudgedInductive`).

**Database.** The invariant adds to its properties `LockInv` (one writer at a time, and only a writer
has uncommitted rows), `CallInv` (what a call knows between two statements: `lastrowid` is the last
row of the connection's view, the last row is the run being saved, the id `get_run` found is still
in view), `RowsInv` (an incomplete row that waits for a commit is being written or was given up) and
`CleanInv` (a connection on which nothing raised has no transaction outside `save_run`). `CommitIs` is
the heart: at a commit no other connection has a row or is between two statements of a `save_run`, so
no `lastrowid` is stale and the file only grows at its end. `SavedForGood` follows
from that; `OthersKeep` says that all else is each connection's own. From the latter `StatementsBounded`
follows: a `save_run` of n iterations ends within n + 3 statements, and no other client can add to them.
`TableKept` needs to know of every run where it may be (`TableInv`): one that is being saved is new, of one
client and nowhere in the file (`FreshInv`, `SettledInv`), a row that waits for a commit is of that run or of
one that failed (`OwnedInv`), and no connection sees a run twice (`UniqueInv`). The last is what could go
wrong: the row of a failed run is committed later, and must not be there already. `CommitSaves` then shows
that a commit is a `Save`. `OwnedInv` is also what `IdleHoldsNothing` says of a connection on which something
raised, and `SeenInv` carries `RecordCommitted` through the two statements of `get_run`: what a client
between two calls sees is in the file or was given up (`ViewSeen`), and either lasts.

**Agents.** There is no long run here: the induction is replaced by explicit positions. `LeastOf` and
`GreatestOf` give the first fence and the next (`FirstFence`, `NextFence`), `CandidateBlock` says that the
candidate of a text with a block is what stands in it, `CandidatePart` that every candidate is a part of the
text, and `CutAndJoined` that a message cut into blocks, with others between them, is put together again.
`OutcomeCases` ties the outcome to the answer, with which the first two properties follow. For the reasons,
`StripPart` and `DotsPart` say that what the reviewer compares with the generic words is a part of the
reason without which only blanks and dots are left; `GenericVague` and `GenericJoined` are the two directions.
`GenericReasonRefused` names the reasons that must not pass by their shape: blanks alone, or any number of
blanks, the word, full stops directly after it and blanks; it does not use the code's own `strip`. Full stops
before the word or after a blank make a reason that passes, which is not in the theorem
(`RejectionsSpecific`).

**Evaluation.** `EvalInv` ties the lengths of the two queues to the attempt, to the crashes and to the
length of the script at every point of an attempt (`QueueInv`), and keeps the first plan of the script in
sight of the baseline (`FirstInv`). `PlayInv` adds what a run is worth once it is over: a run without a
fault ends as the script says (`Played`, `ShotOnce`), because until the first fault plans and verdicts stay in
step with the attempts (`VerdictsInv`, `PlansInv`; `EndInv` for the run that ends, `ResultsInv` for those in
the report). `FaultFreeRunsPlayed` states that by itself. `CountInv` charges every run that is not as the
script says to a fault of its own, which bounds what k faults can spoil (`FaultsCountOnce`, `CoverCount`).
`NeverWorse` compares the two runs of a task through their common script.

**Command line.** `CliInv` holds what each stage of a process has already established (past `BuildLLM` it is
not one that cannot start, and before it the files are those it found; a database once connected); `ExitInv` adds that the trace
file is, record by record, the trace of the call under way (`FileInv`, through the lemmas `OneRunFits` and
`NextLine`) and what is known of the call once it has reported (`CallInv`); `KeptInv` that a call with
attempts has their records in the file, up to the last, wherever its process has come to. `ThereInv` is the types and what
is known of the process's number and command; from the three follows `CommandBounded`, for every
`--max-iterations`, negative ones included.

Only model-checked: `CallReturns`, `CallsEnd` and the fairness parts of `KeepsContract` and `KeepsLoop`. They
need `ENABLED`, which is out of the prover's reach; the variants above are the half of them that is not about
fairness. A variant says that a call cannot go on forever, the runs say that it does not get stuck either.
The type invariants of `Storage`, `Agents` and `Cli` and the variants are proved and are not among the runs' properties.

## Not modelled

* The texts: prompts, reasons, outputs, the lines of the log. They are model values.
* Durations and delays: no decision depends on them but the timeouts, which are choices.
* `RealLLMClient`'s requests and the names of its models: network calls, whose outcomes the models have.
* `FakeLLMClient`'s default answer, key function, `program` and call record, which only tests use; the
  component is partly modelled for that reason.
* The Python of the task suite, and what a test run itself may do to the sandbox.
* `list-tasks` and the layout of the evaluation's report; `eval` is `run_full_eval`.
* Several `run` commands at once on one trace file: the code gives each the file's truncation and its own
  position in it, and nothing in the repository speaks of it.

## Order of the work

The core came first (`Executor`, `LoopController`, `RunContract`, `Storage`, with their proofs), then the
parts around it (`Agents`, `Eval`, `PeerLoop`, `RealLLM`, `TaskSuite`, `Cli`), then the proofs of the log, the
composition, the evaluation and the command line, then those of the agents, of what a script's run is
worth, the variants, the composition's inheritance from its parts, and the database as a `RunTable`. What
could be added: that the database of `LoopController` is a `RunTable` of one client too, and a second
controller on the same log.
