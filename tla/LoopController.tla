--------------------------- MODULE LoopController ---------------------------
(***************************************************************************)
(* The plan -> execute -> review loop (loop_controller.py) with the logger *)
(* (logging_utils.py) and the database connection (storage.py) it reports  *)
(* to.  One controller serves a sequence of run_task calls.                *)
(*                                                                         *)
(* The planner, the executor and the reviewer are seen from the loop: each *)
(* returns a value or raises, and the loop tells apart a malformed LLM     *)
(* response, which costs an iteration, from any other exception, which     *)
(* escapes unless the executor raised it.  A write of the logger's sink    *)
(* and a statement of the database may raise too, and nothing catches that.*)
(***************************************************************************)
EXTENDS Integers, Sequences

CONSTANTS
  Plan,         \* the plans a planner may return
  Result,       \* the execution results an executor may return
  Text,         \* the wordings of verdicts and of exceptions
  Caps,         \* the values of max_iterations run_task is called with
  MaxRuns,      \* bound: the number of run_task calls
  HasStorage,   \* whether the controller was given a storage
  None          \* Python's None

ExecutionResult == [tests_passed   : {"None", "True", "False"},
                    overall_status : {"success", "failed", "timeout", "error"}]

ASSUME LoopAssumption ==
  /\ Result \subseteq ExecutionResult
  /\ \A r \in Result : r.overall_status # "error"
  /\ Caps \subseteq Int
  /\ MaxRuns \in Nat
  /\ HasStorage \in BOOLEAN
  /\ None \notin Plan

VARIABLES
  pc,                \* "idle" | "plan" | "execute" | "review" | "finish" | "save"
  runs,              \* the run_task calls made so far
  ending,            \* how the last call ended: "none" (there is none, or it
                     \* is under way) | "returned" | "raised" | "rejected"
  cap,               \* max_iterations
  i,                 \* the loop variable
  iterations,
  prior_feedback,
  plan,              \* None but in the iteration the plan is made for, and
                     \* after an exception that left run_task from there
  execution_result,  \* likewise
  result,            \* the RunResult, None until it is built
  run_id,            \* the counter in the run's id, which makes it unique
  run_counter,       \* LoopLogger._run_counter
  entries,           \* LoopLogger.entries
  sink,              \* the lines of the trace file
  db,                \* the committed runs
  pending            \* the runs of the connection's open transaction

local   == <<cap, iterations, prior_feedback, plan, execution_result, result>>
logger  == <<run_id, run_counter, entries, sink>>
storage == <<db, pending>>
vars    == <<pc, runs, ending, i, local, logger, storage>>

\* A reason: who wrote it, and its words.
Reason == [source : {"bad plan", "crash", "bad review", "review"}, text : Text]

\* What the planner is told: a reason, with or without the reminder to
\* respond with valid JSON.
Feedback == [reason : Reason, hint : BOOLEAN] \cup {None}

Iteration == [iteration_number : Nat,
              plan             : Plan \cup {None},
              execution_result : ExecutionResult \cup {None},
              accepted         : BOOLEAN,
              reason           : Reason,
              planner_malformed_output      : BOOLEAN,
              reviewer_disagreed_with_tests : BOOLEAN]

\* The RunResult, but for its iterations, which are those of the run.
RunResult == [status          : {"success", "failed"},
              iteration_count : Nat,
              feedback        : Feedback]

\* None is none of these records.
ASSUME NoneAssumption == None \notin ExecutionResult /\ None \notin RunResult

\* The records of the log, with the fields that are not copies of the
\* arguments left out.
Entry ==
  [event : {"run_start"}, run_id : Nat] \cup
  [event : {"iteration"}, run_id : Nat, iteration : Iteration] \cup
  [event : {"run_end"}, run_id : Nat, status : {"success", "failed"}, iteration_count : Nat]

\* A run's row in agent_runs and its rows in agent_iterations; run_id is
\* history: the tables do not hold it.
Row == [run_id : Nat, status : {"success", "failed"}, iteration_count : Nat,
        iterations : Seq(Iteration)]

TypeOK ==
  /\ pc \in {"idle", "plan", "execute", "review", "finish", "save"}
  /\ runs \in 0..MaxRuns
  /\ ending \in {"none", "returned", "raised", "rejected"}
  /\ cap \in Int /\ i \in Nat
  /\ iterations \in Seq(Iteration)
  /\ prior_feedback \in Feedback
  /\ plan \in Plan \cup {None}
  /\ execution_result \in Result \cup {None}
  /\ result \in RunResult \cup {None}
  /\ run_id \in Nat /\ run_counter \in Nat
  /\ entries \in Seq(Entry) /\ sink \in Seq(Entry)
  /\ db \in Seq(Row) /\ pending \in Seq(Row)

-----------------------------------------------------------------------------
Init ==
  /\ pc = "idle" /\ runs = 0 /\ ending = "none"
  /\ cap = 0 /\ i = 0 /\ iterations = <<>> /\ prior_feedback = None
  /\ plan = None /\ execution_result = None /\ result = None
  /\ run_id = 0 /\ run_counter = 0 /\ entries = <<>> /\ sink = <<>>
  /\ db = <<>> /\ pending = <<>>

(***************************************************************************)
(* LoopLogger._emit keeps the record in memory, then writes and flushes    *)
(* the line, which may raise before or after the line is in the file.      *)
(***************************************************************************)
Emit(e) == entries' = Append(entries, e) /\ sink' = Append(sink, e)

EmitRaises(e) == entries' = Append(entries, e) /\ sink' \in {sink, Append(sink, e)}

\* An exception leaves run_task.
Raise == pc' = "idle" /\ ending' = "raised"

StartEntry(id)         == [event |-> "run_start", run_id |-> id]
IterationEntry(id, it) == [event |-> "iteration", run_id |-> id, iteration |-> it]
EndEntry(id, res)      == [event |-> "run_end", run_id |-> id, status |-> res.status,
                           iteration_count |-> res.iteration_count]

\* The local variables of a call, which no other call sees.
FreshLocals ==
  /\ iterations' = <<>> /\ prior_feedback' = None
  /\ plan' = None /\ execution_result' = None /\ result' = None

ClockOnlyRunId == run_id' = run_counter /\ UNCHANGED run_counter   \* mutant

\* The run's id; the rest of it, the task and the clock, may repeat.
NewRunId == run_id' = run_counter /\ run_counter' = run_counter + 1

\* run_task up to the loop: the locals, then start_run.
RunTask(c) ==
  /\ pc = "idle" /\ runs < MaxRuns /\ c >= 1
  /\ runs' = runs + 1 /\ cap' = c
  /\ FreshLocals /\ NewRunId
  /\ \/ Emit(StartEntry(run_counter)) /\ i' = 1 /\ pc' = "plan" /\ ending' = "none"
     \/ EmitRaises(StartEntry(run_counter)) /\ i' = 0 /\ Raise
  /\ UNCHANGED storage

\* ValueError("max_iterations must be >= 1").
RejectCap(c) ==
  /\ pc = "idle" /\ runs < MaxRuns /\ c < 1
  /\ runs' = runs + 1 /\ ending' = "rejected"
  /\ UNCHANGED <<pc, i, local, logger, storage>>

-----------------------------------------------------------------------------
(***************************************************************************)
(* The end of an iteration.                                                *)
(***************************************************************************)
AcceptedLiteral ==   \* mutant: not one of the two values of RunStatus
  [status |-> "accepted", iteration_count |-> i, feedback |-> None]

\* The RunResult of an accepted iteration, and of a loop that ran out; the
\* text of the latter quotes the feedback nobody will act on.
Accepted      == [status |-> "success", iteration_count |-> i, feedback |-> None]
Exhausted(fb) == [status |-> "failed", iteration_count |-> Len(iterations'), feedback |-> fb]

OneMore(fb) ==   \* mutant: range(1, max_iterations + 2)
  /\ prior_feedback' = fb
  /\ \/ i <= cap /\ i' = i + 1 /\ pc' = "plan" /\ UNCHANGED result
     \/ i > cap /\ pc' = "finish" /\ result' = Exhausted(fb) /\ UNCHANGED i

OneFewer(fb) ==   \* mutant: range(1, max_iterations), but once at least
  /\ prior_feedback' = fb
  /\ \/ i + 1 < cap /\ i' = i + 1 /\ pc' = "plan" /\ UNCHANGED result
     \/ i + 1 >= cap /\ pc' = "finish" /\ result' = Exhausted(fb) /\ UNCHANGED i

\* The for statement goes on to the next value of i, or is left.
NextIteration(fb) ==
  /\ prior_feedback' = fb
  /\ \/ i < cap /\ i' = i + 1 /\ pc' = "plan" /\ UNCHANGED result
     \/ i = cap /\ pc' = "finish" /\ result' = Exhausted(fb) /\ UNCHANGED i

\* iterations.append, logger.log_iteration, and what follows them; fb is the
\* feedback of a rejection.
EndIteration(it, fb) ==
  /\ iterations' = Append(iterations, it)
  /\ plan' = None /\ execution_result' = None
  /\ \/ /\ Emit(IterationEntry(run_id, it)) /\ UNCHANGED ending
        /\ \/ /\ it.accepted
              /\ pc' = "finish" /\ result' = Accepted
              /\ UNCHANGED <<i, prior_feedback>>
           \/ ~ it.accepted /\ NextIteration(fb)
     \/ /\ EmitRaises(IterationEntry(run_id, it)) /\ Raise
        /\ UNCHANGED <<i, prior_feedback, result>>
  /\ UNCHANGED <<runs, cap, run_id, run_counter, storage>>

\* The Iteration of a step that ended in the reason r, which the code writes
\* itself.
Failure(p, res, r) ==
  [iteration_number |-> i, plan |-> p, execution_result |-> res,
   accepted |-> FALSE, reason |-> r,
   planner_malformed_output |-> p = None, reviewer_disagreed_with_tests |-> FALSE]

ErrorResult == [tests_passed |-> "None", overall_status |-> "error"]

Plain(r)  == [reason |-> r, hint |-> FALSE]
Hinted(r) == [reason |-> r, hint |-> TRUE]

-----------------------------------------------------------------------------
\* planner.plan returns.
PlannerPlans ==
  /\ pc = "plan" /\ pc' = "execute"
  /\ plan' \in Plan
  /\ UNCHANGED <<runs, ending, cap, i, iterations, prior_feedback, execution_result,
                 result, logger, storage>>

\* planner.plan raises MalformedResponseError.
PlannerMalformed ==
  /\ pc = "plan"
  /\ \E t \in Text :
       LET r == [source |-> "bad plan", text |-> t]
       IN  EndIteration(Failure(None, None, r), Hinted(r))

\* executor.execute returns.
ExecutorReturns ==
  /\ pc = "execute" /\ pc' = "review"
  /\ execution_result' \in Result
  /\ UNCHANGED <<runs, ending, cap, i, iterations, prior_feedback, plan,
                 result, logger, storage>>

CrashKeepsFeedback ==   \* mutant: the crash is not fed back
  /\ pc = "execute"
  /\ \E t \in Text :
       EndIteration(Failure(plan, ErrorResult, [source |-> "crash", text |-> t]),
                    prior_feedback)

CrashNotLogged ==   \* mutant: this branch forgets log_iteration
  /\ pc = "execute"
  /\ \E t \in Text :
       LET r == [source |-> "crash", text |-> t]
       IN  iterations' = Append(iterations, Failure(plan, ErrorResult, r))
           /\ NextIteration(Plain(r))
  /\ plan' = None /\ execution_result' = None
  /\ UNCHANGED <<runs, ending, cap, logger, storage>>

\* executor.execute raises anything.
ExecutorRaises ==
  /\ pc = "execute"
  /\ \E t \in Text :
       LET r == [source |-> "crash", text |-> t]
       IN  EndIteration(Failure(plan, ErrorResult, r), Plain(r))

\* The tests have a verdict, and the reviewer another.
Disagreed(accepted) ==
  /\ execution_result.tests_passed # "None"
  /\ execution_result.tests_passed # (IF accepted THEN "True" ELSE "False")

\* reviewer.review returns.
ReviewerDecides ==
  /\ pc = "review"
  /\ \E t \in Text, accepted \in BOOLEAN :
       LET r == [source |-> "review", text |-> t]
       IN  EndIteration([iteration_number |-> i, plan |-> plan,
                         execution_result |-> execution_result,
                         accepted |-> accepted, reason |-> r,
                         planner_malformed_output |-> FALSE,
                         reviewer_disagreed_with_tests |-> Disagreed(accepted)],
                        Plain(r))

ReviewAgain ==   \* mutant: a malformed review costs no attempt
  /\ pc = "review" /\ pc' = "execute" /\ execution_result' = None
  /\ UNCHANGED <<runs, ending, i, cap, iterations, prior_feedback, plan, result,
                 logger, storage>>

\* reviewer.review raises MalformedResponseError.
ReviewerMalformed ==
  /\ pc = "review"
  /\ \E t \in Text :
       LET r == [source |-> "bad review", text |-> t]
       IN  EndIteration(Failure(plan, execution_result, r), Plain(r))

\* The planner or the reviewer raises anything else: the LLM call failed, a
\* script ran dry, or the JSON parser raised more than JSONDecodeError.
AgentRaises ==
  /\ pc \in {"plan", "review"} /\ Raise
  /\ UNCHANGED <<runs, i, local, logger, storage>>

-----------------------------------------------------------------------------
Return == pc' = "idle" /\ ending' = "returned"

\* logger.finish_run.
FinishRun ==
  /\ pc = "finish"
  /\ \/ /\ Emit(EndEntry(run_id, result))
        /\ \/ HasStorage /\ pc' = "save" /\ UNCHANGED ending
           \/ ~ HasStorage /\ Return
     \/ EmitRaises(EndEntry(run_id, result)) /\ Raise
  /\ UNCHANGED <<runs, i, local, run_id, run_counter, storage>>

\* The first n iterations of the run as rows.
Saved(n) == [run_id |-> run_id, status |-> result.status,
             iteration_count |-> result.iteration_count,
             iterations |-> SubSeq(iterations, 1, n)]

SaveNoCommit ==   \* mutant: the inserts are not committed
  /\ pc = "save" /\ Return
  /\ pending' = Append(pending, Saved(Len(iterations)))
  /\ UNCHANGED <<runs, i, local, logger, db>>

\* storage.save_run: the inserts, then a commit, which ends whatever
\* transaction the connection has open.
SaveRun ==
  /\ pc = "save" /\ Return
  /\ db' = db \o Append(pending, Saved(Len(iterations)))
  /\ pending' = <<>>
  /\ UNCHANGED <<runs, i, local, logger>>

\* A statement of save_run raises: the rows inserted so far stay in the open
\* transaction, which the code does not roll back; SQLite does for some errors.
SaveRunRaises ==
  /\ pc = "save" /\ Raise
  /\ \/ pending' \in {pending, <<>>}
     \/ \E n \in 0..Len(iterations) : pending' = Append(pending, Saved(n))
  /\ UNCHANGED <<runs, i, local, logger, db>>

-----------------------------------------------------------------------------
Step ==
  \/ PlannerPlans \/ PlannerMalformed
  \/ ExecutorReturns \/ ExecutorRaises
  \/ ReviewerDecides \/ ReviewerMalformed \/ AgentRaises
  \/ FinishRun \/ SaveRun \/ SaveRunRaises

Next == (\E c \in Caps : RunTask(c) \/ RejectCap(c)) \/ Step

\* run_task is one thread that runs until it is done: the LLM client, pytest
\* and sqlite3 all answer or time out.  Nobody has to call it.
Spec == Init /\ [][Next]_vars /\ WF_vars(Step)

-----------------------------------------------------------------------------
(***************************************************************************)
(* Properties.                                                             *)
(***************************************************************************)
Returned == pc = "idle" /\ ending = "returned"

LastIteration == iterations[Len(iterations)]

\* max_iterations is a cap, and an exact one: a run never makes more attempts;
\* it succeeds with the first accepted one, which is its last, and fails only
\* after exactly max_iterations rejections.  The attempts are numbered from 1,
\* and iteration_count is their number on both ways out of the loop.
CapExact ==
  /\ \A k \in 1..Len(iterations) :
       /\ iterations[k].iteration_number = k
       /\ k < Len(iterations) => ~ iterations[k].accepted
  /\ Len(iterations) <= cap
  /\ result # None =>
       /\ iterations # <<>>
       /\ result.iteration_count = Len(iterations)
       /\ IF result.status = "success"
          THEN LastIteration.accepted
          ELSE ~ LastIteration.accepted /\ Len(iterations) = cap

\* The planner is told the reason of the attempt just rejected, whoever
\* rejected it: never an older one, never one of another run, and nothing on
\* the first attempt.  It is reminded of the format exactly when it broke it.
FeedbackFresh ==
  pc = "plan" =>
    IF iterations = <<>> THEN prior_feedback = None
    ELSE prior_feedback = [reason |-> LastIteration.reason,
                           hint   |-> LastIteration.plan = None]

\* What may stand before the k-th record of a log.
InOrder(log, k) ==
  LET e == log[k]
      d == log[k - 1]
  IN  CASE e.event = "run_start" -> \A j \in 1..(k - 1) : log[j].run_id # e.run_id
        [] e.event = "iteration" ->
             /\ k > 1 /\ d.run_id = e.run_id
             /\ \/ d.event = "run_start" /\ e.iteration.iteration_number = 1
                \/ /\ d.event = "iteration" /\ ~ d.iteration.accepted
                   /\ e.iteration.iteration_number = d.iteration.iteration_number + 1
        [] e.event = "run_end" ->
             /\ k > 1 /\ d.run_id = e.run_id /\ d.event = "iteration"
             /\ e.iteration_count = d.iteration.iteration_number
             /\ (e.status = "success") <=> d.iteration.accepted

\* The log, and the trace file, can be cut into runs by their ids: a run's
\* records are contiguous, start with run_start, count its attempts up from 1
\* and close with a run_end that agrees with the last of them; a run cut
\* short by an exception leaves a prefix of that.  This holds across runs, and
\* across writes of the file that failed.
LogInOrder ==
  /\ \A k \in 1..Len(entries) : InOrder(entries, k)
  /\ \A k \in 1..Len(sink) : InOrder(sink, k)

\* The records of the last call's run, of which an attempt under way is none;
\* its run_end is there once its result was reported.
Trace ==
  <<StartEntry(run_id)>>
    \o [k \in 1..Len(iterations) |-> IterationEntry(run_id, iterations[k])]
    \o (IF pc = "save" \/ (pc = "idle" /\ result # None)
        THEN <<EndEntry(run_id, result)>> ELSE <<>>)

EndsWith(log, t) ==
  /\ Len(t) <= Len(log)
  /\ SubSeq(log, Len(log) - Len(t) + 1, Len(log)) = t

\* Every attempt that ended is recorded, in order, and so is the end of a run
\* that was reported: while a run is under way and however it ended, the log and
\* the trace file end with its start, its finished attempts and its end, with
\* nothing between them.  An exception costs the file at most the last of these
\* records, and the log none.  (An attempt whose planner or reviewer call failed
\* is not a finished one: see EveryPlanRecorded.)
TraceComplete ==
  runs > 0 /\ ending # "rejected" =>
    /\ EndsWith(entries, Trace)
    /\ \/ EndsWith(sink, Trace)
       \/ ending = "raised" /\ EndsWith(sink, SubSeq(Trace, 1, Len(Trace) - 1))

\* A run that returned is in the database, whole and committed, as its last
\* run; and the database knows no run whose end the log does not show, with
\* the same status and the same count.
SavedRuns ==
  /\ Returned /\ HasStorage =>
       /\ pending = <<>> /\ db # <<>>
       /\ db[Len(db)] = Saved(Len(iterations))
  /\ \A k \in 1..Len(db) : \E n \in 1..Len(entries) :
       entries[n] = EndEntry(db[k].run_id, db[k])

(***************************************************************************)
(* The loop keeps the contract of run_task: planning, executing and saving *)
(* are steps the caller does not see, the end of an iteration is an        *)
(* attempt, and fairness of the loop gives fairness of the contract.       *)
(***************************************************************************)
Contract == INSTANCE RunContract WITH
  running  <- pc # "idle",
  limit    <- cap,
  attempts <- Len(iterations),
  accepted <- iterations # <<>> /\ LastIteration.accepted,
  report   <- CASE ending = "returned" -> result.status
                [] ending = "raised"   -> "exception"
                [] ending = "rejected" -> "refused"
                [] ending = "none"     -> "none"

\* Every behaviour of the loop is one of the contract; so a run "can never loop
\* forever": it returns or raises.
KeepsContract == Contract!Spec

-----------------------------------------------------------------------------
(***************************************************************************)
(* What the repository says of the loop and the code does not do.          *)
(***************************************************************************)
\* "every plan, execution result, and review verdict -- accepted or rejected --
\* is recorded as a self-contained JSON record": when the call has ended, the
\* plan it was at work on is in the log, with the attempt it was made for.
EveryPlanRecorded ==
  pc = "idle" /\ plan # None =>
    \E k \in 1..Len(entries) :
      /\ entries[k].event = "iteration" /\ entries[k].run_id = run_id
      /\ entries[k].iteration.iteration_number = i
      /\ entries[k].iteration.plan = plan
=============================================================================
