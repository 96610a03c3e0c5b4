-------------------------------- MODULE Eval --------------------------------
(***************************************************************************)
(* The scripted runs: an LLM that plays a script (llm/fake.py) under the   *)
(* loop (loop_controller.py), once with the reviewer and, in the           *)
(* evaluation of the task suite (eval.py), task by task, once more with a  *)
(* reviewer that always accepts.                                           *)
(*                                                                         *)
(* A script is written in rounds: a plan that does or does not pass the    *)
(* tests, and a verdict on it.  The LLM keeps its two halves in two queues *)
(* and knows nothing of rounds.                                            *)
(***************************************************************************)
EXTENDS Integers, Sequences, FiniteSets

CONSTANTS
  Suite,      \* the scripts of the tasks that run_full_eval goes through
  Demos,      \* the scripts that are only run
  Caps,       \* max_iterations
  MaxFaults   \* bound: the crashes and the timeouts of all runs together

Round == [good : BOOLEAN, accepted : BOOLEAN]

ASSUME EvalAssumption ==
  /\ Suite \in Seq(Seq(Round)) /\ Suite # <<>>
  /\ Demos \subseteq Seq(Round)
  /\ Caps \subseteq Nat \ {0}
  /\ MaxFaults \in Nat

\* A task's script never has its first plan rejected when it is good
\* (_SCRIPTS in demo_fixtures.py).  Only NeverWorse rests on this.
ASSUME FirstPlansAssumption ==
  \A k \in DOMAIN Suite :
    Suite[k] # <<>> => (Suite[k][1].good => Suite[k][1].accepted)

VARIABLES
  scripts, cap,
  mode,        \* "reviewed" | "baseline"
  pc,          \* "plan" | "execute" | "review" | "end" | "done" | "raised"
  planner,     \* the LLM's queues: plans, good or not
  reviewer,    \* and verdicts
  i,           \* the attempts begun in this run
  plan,        \* the plan of this attempt is good
  accepted,    \* the last attempt was accepted
  truth,       \* the last attempt's tests_passed: "True" | "False" | "None"
  reviewed,    \* what this task's run with the reviewer ended with
  results,     \* run_full_eval's list
  crashes,     \* history: the attempts of this run whose executor crashed,
  timeouts,    \* those whose tests timed out,
  faults       \* and both, of all runs

input   == <<scripts, cap>>
history == <<crashes, timeouts, faults>>
vars    == <<input, mode, pc, planner, reviewer, i, plan, accepted, truth, reviewed,
             results, history>>

RunEnd == [success  : BOOLEAN, iterations : Nat, accepted : BOOLEAN,
           crashes  : Nat, timeouts : Nat]   \* the last two are history

TaskEvalResult == [with_reviewer : RunEnd, baseline : RunEnd]

NoRun == [success |-> FALSE, iterations |-> 0, accepted |-> FALSE, crashes |-> 0, timeouts |-> 0]

TypeOK ==
  /\ scripts = Suite \/ \E d \in Demos : scripts = <<d>>
  /\ cap \in Caps
  /\ mode \in {"reviewed", "baseline"}
  /\ pc \in {"plan", "execute", "review", "end", "done", "raised"}
  /\ planner \in Seq(BOOLEAN) /\ reviewer \in Seq(BOOLEAN)
  /\ i \in 1..cap
  /\ plan \in BOOLEAN /\ accepted \in BOOLEAN
  /\ truth \in {"True", "False", "None"}
  /\ reviewed \in RunEnd
  /\ results \in Seq(TaskEvalResult)
  /\ crashes \in Nat /\ timeouts \in Nat /\ faults \in 0..MaxFaults

-----------------------------------------------------------------------------
\* build_scripted_llm: the halves of the rounds.
Plans(s)    == [k \in DOMAIN s |-> s[k].good]
Verdicts(s) == [k \in DOMAIN s |-> s[k].accepted]

SameLLM(s) ==   \* mutant: a run goes on with what the one before it left
  UNCHANGED <<planner, reviewer>>

\* Every run has an LLM of its own.
FreshLLM(s) == planner' = Plans(s) /\ reviewer' = Verdicts(s)

\* A run of the script s begins.
Begin(s) ==
  /\ pc' = "plan" /\ i' = 1 /\ plan' = FALSE /\ accepted' = FALSE /\ truth' = "None"
  /\ FreshLLM(s)
  /\ crashes' = 0 /\ timeouts' = 0 /\ UNCHANGED faults

Init ==
  /\ scripts \in {Suite} \cup {<<d>> : d \in Demos} /\ cap \in Caps
  /\ mode = "reviewed" /\ pc = "plan"
  /\ planner = Plans(scripts[1]) /\ reviewer = Verdicts(scripts[1])
  /\ i = 1 /\ plan = FALSE /\ accepted = FALSE /\ truth = "None"
  /\ reviewed = NoRun /\ results = <<>>
  /\ crashes = 0 /\ timeouts = 0 /\ faults = 0

\* The script being played.
script == scripts[Len(results) + 1]

-----------------------------------------------------------------------------
\* A role's queue is empty: complete raises AssertionError, and nothing
\* between it and the command line catches that.
RanDry == pc' = "raised" /\ UNCHANGED <<planner, reviewer, plan>>

Plan ==
  /\ pc = "plan"
  /\ \/ planner = <<>> /\ RanDry
     \/ /\ planner # <<>> /\ pc' = "execute"
        /\ plan' = Head(planner) /\ planner' = Tail(planner)
        /\ UNCHANGED reviewer
  /\ UNCHANGED <<input, mode, i, accepted, truth, reviewed, results, history>>

\* The loop goes on after a rejection, or is left.
Rejected ==
  \/ i < cap /\ i' = i + 1 /\ pc' = "plan"
  \/ i = cap /\ pc' = "end" /\ UNCHANGED i

\* The tests say what the plan is worth.
Execute ==
  /\ pc = "execute" /\ pc' = "review"
  /\ truth' = (IF plan THEN "True" ELSE "False")
  /\ UNCHANGED <<input, mode, planner, reviewer, i, plan, accepted, reviewed, results, history>>

\* They take too long, or a tool fails: there is no verdict.
ExecuteInVain ==
  /\ pc = "execute" /\ faults < MaxFaults /\ pc' = "review"
  /\ truth' = "None"
  /\ timeouts' = timeouts + 1 /\ faults' = faults + 1
  /\ UNCHANGED <<input, mode, planner, reviewer, i, plan, accepted, reviewed, results, crashes>>

ReviewCrash ==   \* mutant: the reviewer is asked about a crash too
  /\ pc = "execute" /\ faults < MaxFaults /\ pc' = "review"
  /\ truth' = "None"
  /\ crashes' = crashes + 1 /\ faults' = faults + 1
  /\ UNCHANGED <<input, mode, planner, reviewer, i, plan, accepted, reviewed, results, timeouts>>

\* The executor raises: a rejection that the loop writes itself.
Crash ==
  /\ pc = "execute" /\ faults < MaxFaults /\ Rejected
  /\ truth' = "None" /\ accepted' = FALSE
  /\ crashes' = crashes + 1 /\ faults' = faults + 1
  /\ UNCHANGED <<input, mode, planner, reviewer, plan, reviewed, results, timeouts>>

\* What an attempt's verdict v leads to.
Decided(v) ==
  /\ accepted' = v
  /\ \/ v /\ pc' = "end" /\ UNCHANGED i
     \/ ~ v /\ Rejected

BaselineAsks ==   \* mutant: the baseline's reviewer is the LLM
  /\ pc = "review" /\ mode = "baseline"
  /\ Decided(Head(reviewer)) /\ reviewer' = Tail(reviewer)
  /\ UNCHANGED <<input, mode, planner, plan, truth, reviewed, results, history>>

\* AlwaysAcceptReviewer.review.
AlwaysAccept ==
  /\ pc = "review" /\ mode = "baseline" /\ Decided(TRUE)
  /\ UNCHANGED <<input, mode, planner, reviewer, plan, truth, reviewed, results, history>>

Review ==
  /\ pc = "review" /\ mode = "reviewed"
  /\ \/ reviewer = <<>> /\ RanDry /\ UNCHANGED <<i, accepted>>
     \/ /\ reviewer # <<>> /\ Decided(Head(reviewer)) /\ reviewer' = Tail(reviewer)
        /\ UNCHANGED <<planner, plan>>
  /\ UNCHANGED <<input, mode, truth, reviewed, results, history>>

TrustVerdict == accepted   \* mutant: graded by the reviewer's verdict

\* _ground_truth_success, of the last attempt.
GroundTruth == truth = "True"

ThisRun == [success |-> GroundTruth, iterations |-> i, accepted |-> accepted,
            crashes |-> crashes, timeouts |-> timeouts]

\* evaluate_task goes on to the baseline, with the same script.
StartBaseline ==
  /\ pc = "end" /\ mode = "reviewed" /\ scripts = Suite
  /\ reviewed' = ThisRun
  /\ mode' = "baseline" /\ Begin(script)
  /\ UNCHANGED <<input, results>>

\* evaluate_task returns, and run_full_eval goes on to the next task.
EvaluateNext ==
  /\ pc = "end" /\ mode = "baseline"
  /\ results' = Append(results, [with_reviewer |-> reviewed, baseline |-> ThisRun])
  /\ \/ /\ Len(results') < Len(Suite)
        /\ mode' = "reviewed" /\ reviewed' = NoRun /\ Begin(Suite[Len(results') + 1])
     \/ /\ Len(results') = Len(Suite) /\ pc' = "done"
        /\ UNCHANGED <<mode, planner, reviewer, i, plan, accepted, truth, reviewed, history>>
  /\ UNCHANGED input

\* A single run is over.
Return ==
  /\ pc = "end" /\ scripts # Suite /\ pc' = "done"
  /\ UNCHANGED <<input, mode, planner, reviewer, i, plan, accepted, truth, reviewed,
                 results, history>>

Next == \/ Plan \/ Execute \/ ExecuteInVain \/ Crash \/ Review \/ AlwaysAccept
        \/ StartBaseline \/ EvaluateNext \/ Return

Spec == Init /\ [][Next]_vars

-----------------------------------------------------------------------------
CountAccepted ==   \* mutant: the statuses are counted, not the successes
  [n             |-> Len(results),
   with_reviewer |-> Cardinality({k \in DOMAIN results : results[k].with_reviewer.accepted}),
   baseline      |-> Cardinality({k \in DOMAIN results : results[k].baseline.accepted})]

\* The two scores of format_eval_report, out of n.
format_eval_report ==
  [n             |-> Len(results),
   with_reviewer |-> Cardinality({k \in DOMAIN results : results[k].with_reviewer.success}),
   baseline      |-> Cardinality({k \in DOMAIN results : results[k].baseline.success})]

(***************************************************************************)
(* Properties.                                                             *)
(***************************************************************************)
FaultFree(run) == run.crashes = 0 /\ run.timeouts = 0

\* On every task, and under every cap, the reviewer's run does as well as the
\* baseline or better, if neither met a crash or a timeout.
NeverWorse ==
  \A k \in DOMAIN results :
    LET r == results[k]
    IN  FaultFree(r.with_reviewer) /\ FaultFree(r.baseline) =>
          (r.baseline.success => r.with_reviewer.success)

\* "Success is graded against the real pytest outcome of the last attempt":
\* the baseline, which accepts whatever comes first, succeeds only when the
\* script's first plan is good.
BaselineGraded ==
  \A k \in DOMAIN results :
    LET b == results[k].baseline
    IN  b.crashes = 0 => b.iterations = 1 /\ b.accepted /\ (b.success => scripts[k][1].good)

\* The two queues are read in step, one round an attempt, except that an
\* attempt whose executor crashed uses up its plan and not its verdict: every
\* later verdict of the run is then about an earlier plan.
QueuesDrift ==
  pc = "plan" /\ mode = "reviewed" => Len(reviewer) - Len(planner) = crashes

\* "The max-iteration cap is what stops the loop, not the fixture running
\* dry": a script of as many rounds as the cap never runs dry, whatever
\* crashes or times out, and in the second run as in the first.
CapStopsFirst == pc = "raised" => cap > Len(script)

\* A script with honest verdicts that ends in a good plan.
Honest(s) ==
  /\ \A k \in DOMAIN s : s[k].accepted = s[k].good
  /\ s # <<>> /\ s[Len(s)].good

FirstGood == Cardinality({k \in DOMAIN Suite : Suite[k][1].good})

\* The comparison of test_eval.py, and how far faults can spoil it: on honest
\* scripts that the cap does not cut short, a reported evaluation solves every
\* task with the reviewer, and without it the tasks that are right at once,
\* give or take one task for each crash or timeout there was.
FaultsCountOnce ==
  pc = "done" /\ scripts = Suite /\ (\A k \in DOMAIN Suite : Honest(Suite[k]) /\ Len(Suite[k]) <= cap)
  => LET report == format_eval_report
     IN  /\ report.n = Len(Suite)
         /\ report.with_reviewer >= report.n - faults
         /\ report.baseline \in (FirstGood - faults)..(FirstGood + faults)

-----------------------------------------------------------------------------
(***************************************************************************)
(* What the repository says of these runs and the code does not do.        *)
(***************************************************************************)
\* "Executor crash must not kill the whole run."
CrashNotFatal == pc = "raised" => crashes = 0

\* "The M4 single-shot baseline."
SingleShot == mode = "baseline" /\ pc = "end" => i = 1
=============================================================================
