--------------------------- MODULE PeerLoopProofs ---------------------------
(***************************************************************************)
(* Proofs about the loop composed with its executor: for every set of      *)
(* files, contents and plans, every cap, every retry budget and every      *)
(* number of runs, the composition takes the loop's steps, executes each   *)
(* plan once, and its evidence is of its own plan and its own run.         *)
(***************************************************************************)
EXTENDS PeerLoop, TLAPS, FiniteSetTheorems, SequenceTheorems

\* EvidenceOwn, for one plan and one result.
Own(p, r) ==
  /\ r.tests_passed # "None" => \E n \in DOMAIN p : p[n].tool = "run_tests"
  /\ r.overall_status = "success" => \A n \in DOMAIN p : ~ Hopeless(p[n])

PassedLast(p, r) ==
  /\ r = [tests_passed |-> "True", overall_status |-> "success"]
  /\ p[Len(p)].tool = "run_tests"

\* SuccessInPlace, for one plan and one result.
InPlace(p, r) == PassedLast(p, r) => exec_plan = p /\ tested.files = sandbox

\* The solutions that this run may have made.
OwnCode == {StarterCode} \cup UNION {Writes(p) : p \in PlansOfRun}

(***************************************************************************)
(* The inductive invariant.                                                *)
(***************************************************************************)
Shapes ==
  /\ iterations \in Seq(Loop!Iteration) /\ i \in Nat
  /\ plan \in Plan \cup {None} /\ execution_result \in Result \cup {None}
  /\ calls \in Nat /\ attempt \in Nat
  /\ step_results \in Seq(Exec!StepResult) /\ broke \in {"no", "timeout", "error"}
  /\ sandbox \in [File -> Content \cup {None, StarterCode, TestCode, Empty}]

\* Who is at work, and on what; the plan and its result are there between the
\* planner's answer and the end of the iteration, and after a call of the
\* reviewer that raised.
Phases ==
  /\ pc = "plan" => plan = None /\ execution_result = None
  /\ pc = "execute" => plan # None /\ execution_result = None
  /\ pc = "review" => plan # None /\ execution_result # None
  /\ pc # "idle" => ending = "none"
  /\ exec_pc = "running" => pc = "execute" /\ exec_plan = plan

\* What the executor has of the plan it is carrying out.
Walked ==
  exec_pc = "running" =>
    /\ Len(step_results) <= Len(exec_plan)
    /\ broke = "no" => \A k \in 1..Len(step_results) : ~ Hopeless(exec_plan[k])
    /\ tests_passed # "None" => \E n \in DOMAIN exec_plan : exec_plan[n].tool = "run_tests"
    /\ broke = "no" /\ step_results # <<>> /\ exec_plan[Len(step_results)].tool = "run_tests"
         => tested.files = sandbox

\* The result that was handed over, on its way through the reviewer, and once
\* it was accepted.
Handed == pc = "review" => Own(plan, execution_result) /\ InPlace(plan, execution_result)

Reported ==
  /\ pc = "finish" \/ pc = "save" \/ ending = "returned"
  /\ result.status = "success"
  => Len(iterations) > 0 /\ InPlace(LastPlan, LastResult)

\* No code of another run is in the directory, cached bytecode included.
Codes == {sandbox[SolutionFile], pyc, tested.code} \subseteq OwnCode \cup {None}

PeerInv ==
  Shapes /\ Phases /\ Walked /\ Handed /\ Reported /\ Codes /\ ExecutedOnce /\ EvidenceOwn

Planned(its) == {k \in DOMAIN its : its[k].plan # None}

-----------------------------------------------------------------------------
(***************************************************************************)
(* The end of an iteration.                                                *)
(***************************************************************************)
\* The plans of a run can be counted.
LEMMA PlannedCounted ==
  ASSUME NEW S, NEW its \in Seq(S)
  PROVE  /\ IsFiniteSet(Planned(its)) /\ Cardinality(Planned(its)) \in Nat
         /\ Planned(its) \subseteq 1..Len(its)
  <1>1. Len(its) \in Nat /\ Planned(its) \subseteq 1..Len(its)
    BY DEF Planned
  <1>2. IsFiniteSet(1..Len(its))
    BY <1>1, FS_Interval
  <1> QED BY <1>1, <1>2, FS_Subset, FS_CardinalityType

\* One more iteration is one more plan, if it has one.
LEMMA PlannedAppend ==
  ASSUME NEW S, NEW its \in Seq(S), NEW it \in S
  PROVE  Cardinality(Planned(Append(its, it)))
           = Cardinality(Planned(its)) + (IF it.plan # None THEN 1 ELSE 0)
  <1> DEFINE n == Len(its)
  <1>1. n \in Nat /\ DOMAIN its = 1..n /\ DOMAIN Append(its, it) = 1..(n + 1)
    OBVIOUS
  <1>2. /\ Append(its, it)[n + 1] = it
        /\ \A k \in 1..n : Append(its, it)[k] = its[k]
    OBVIOUS
  <1>3. /\ IsFiniteSet(Planned(its)) /\ Cardinality(Planned(its)) \in Nat
        /\ n + 1 \notin Planned(its)
    BY <1>1, PlannedCounted
  <1>4. Planned(Append(its, it)) =
          Planned(its) \cup (IF it.plan # None THEN {n + 1} ELSE {})
    BY <1>1, <1>2 DEF Planned
  <1>5. CASE it.plan # None
    BY <1>3, <1>4, <1>5, FS_AddElement
  <1>6. CASE it.plan = None
    <2>1. Planned(Append(its, it)) = Planned(its)
      BY <1>4, <1>6
    <2> QED BY <1>3, <1>6, <2>1
  <1> QED BY <1>5, <1>6

\* What the end of an iteration does to the state of the loop.
LEMMA EndIs ==
  ASSUME Shapes, NEW it \in Loop!Iteration, NEW fb, Loop!EndIteration(it, fb)
  PROVE  /\ iterations' = Append(iterations, it)
         /\ iterations' \in Seq(Loop!Iteration) /\ i' \in Nat
         /\ Len(iterations') = Len(iterations) + 1
         /\ iterations'[Len(iterations')] = it
         /\ \A k \in 1..Len(iterations) : iterations'[k] = iterations[k]
         /\ plan' = None /\ execution_result' = None
         /\ pc' \in {"plan", "finish", "idle"}
         /\ pc' # "idle" => ending' = ending
         /\ ending' = "raised" \/ ending' = ending
         /\ pc' = "finish" => it.accepted \/ result'.status = "failed"
         /\ pc' = "idle" => ending' = "raised"
  <1>1. /\ iterations' = Append(iterations, it)
        /\ plan' = None /\ execution_result' = None
    BY DEF Loop!EndIteration
  <1>2. /\ iterations' \in Seq(Loop!Iteration)
        /\ Len(iterations') = Len(iterations) + 1
        /\ iterations'[Len(iterations')] = it
        /\ \A k \in 1..Len(iterations) : iterations'[k] = iterations[k]
    BY <1>1 DEF Shapes
  <1>3. /\ i' \in Nat
        /\ pc' \in {"plan", "finish", "idle"}
        /\ pc' # "idle" => ending' = ending
        /\ ending' = "raised" \/ ending' = ending
        /\ pc' = "finish" => it.accepted \/ result'.status = "failed"
        /\ pc' = "idle" => ending' = "raised"
    BY DEF Loop!EndIteration, Loop!NextIteration, Loop!Exhausted, Loop!Raise, Shapes
  <1> QED BY <1>1, <1>2, <1>3

\* The plans of the run stay known when one is recorded.
LEMMA EndKeepsCode ==
  ASSUME Shapes, NEW it \in Loop!Iteration, NEW fb, Loop!EndIteration(it, fb),
         it.plan = plan
  PROVE  OwnCode \subseteq OwnCode'
  <1> DEFINE n == Len(iterations)
  <1>1. /\ plan' = None /\ Len(iterations') = n + 1 /\ iterations'[n + 1] = it
        /\ \A k \in 1..n : iterations'[k] = iterations[k]
        /\ n \in Nat
        /\ DOMAIN iterations = 1..n /\ DOMAIN iterations' = 1..(n + 1)
    BY EndIs DEF Shapes
  <1>2. PlansOfRun \subseteq PlansOfRun'
    BY <1>1 DEF PlansOfRun
  <1> QED BY <1>2 DEF OwnCode, Writes

\* Every result recorded is of its own plan, the new one included.
LEMMA EndOwn ==
  ASSUME Shapes, EvidenceOwn, NEW it \in Loop!Iteration, NEW fb,
         Loop!EndIteration(it, fb),
         it.execution_result # None => Own(it.plan, it.execution_result)
  PROVE  EvidenceOwn'
  <1> DEFINE n == Len(iterations)
  <1>1. /\ Len(iterations') = n + 1 /\ iterations'[n + 1] = it
        /\ \A k \in 1..n : iterations'[k] = iterations[k]
        /\ n \in Nat
        /\ DOMAIN iterations = 1..n /\ DOMAIN iterations' = 1..(n + 1)
    BY EndIs DEF Shapes
  <1>2. \A k \in 1..n : iterations[k].execution_result # None =>
          Own(iterations[k].plan, iterations[k].execution_result)
    BY <1>1 DEF EvidenceOwn, Own
  <1>3. \A k \in 1..(n + 1) : iterations'[k].execution_result # None =>
          Own(iterations'[k].plan, iterations'[k].execution_result)
    BY <1>1, <1>2
  <1> QED BY <1>1, <1>3 DEF EvidenceOwn, Own, Hopeless

\* An attempt that the reviewer, or the loop itself, ends.
LEMMA EndInv ==
  ASSUME PeerInv, pc = "plan" \/ pc = "review", NEW it \in Loop!Iteration, NEW fb,
         Loop!EndIteration(it, fb), UNCHANGED exec,
         it.plan = plan, it.execution_result = execution_result
  PROVE  PeerInv'
  <1> USE DEF PeerInv
  <1> DEFINE n == Len(iterations)
  <1>1. /\ iterations' = Append(iterations, it)
        /\ Len(iterations') = n + 1 /\ iterations'[n + 1] = it
        /\ plan' = None /\ execution_result' = None
        /\ pc' \in {"plan", "finish", "idle"}
        /\ pc' # "idle" => ending' = ending
        /\ pc' = "finish" => it.accepted \/ result'.status = "failed"
        /\ pc' = "idle" => ending' = "raised"
    BY EndIs
  <1>2. n \in Nat
    BY DEF Shapes
  <1>3. /\ exec_pc' = exec_pc /\ calls' = calls /\ exec_plan' = exec_plan
        /\ sandbox' = sandbox /\ pyc' = pyc /\ step_results' = step_results
        /\ attempt' = attempt /\ tests_passed' = tests_passed /\ broke' = broke
        /\ tested' = tested
    BY DEF exec
  <1>4. Shapes'
    BY EndIs, <1>1, <1>3 DEF Shapes
  <1>5. exec_pc # "running"
    BY DEF Phases
  <1>6. Phases' /\ Walked'
    BY <1>1, <1>3, <1>5 DEF Phases, Walked
  <1>7. Handed'
    BY <1>1 DEF Handed
  <1>8. /\ execution_result # None <=> pc = "review"
        /\ plan # None <=> pc = "review"
    BY DEF Phases
  <1>9. ending = "none"
    BY DEF Phases
  <1>10. EvidenceOwn'
    BY EndOwn, <1>8 DEF Handed
  <1>11. Codes'
    BY EndKeepsCode, <1>3 DEF Codes
  <1>12. ExecutedOnce'
    <2>1. calls = Cardinality(Planned(iterations)) + (IF pc = "review" THEN 1 ELSE 0)
      BY <1>5, <1>8 DEF ExecutedOnce, Planned
    <2>2. /\ Cardinality(Planned(iterations)) \in Nat
          /\ Cardinality(Planned(iterations'))
               = Cardinality(Planned(iterations)) + (IF it.plan # None THEN 1 ELSE 0)
      BY <1>1, PlannedCounted, PlannedAppend DEF Shapes
    <2>3. calls' = Cardinality(Planned(iterations')) + 0
      BY <1>3, <1>8, <2>1, <2>2 DEF Shapes
    <2> QED BY <1>1, <1>3, <1>5, <2>3 DEF ExecutedOnce, Planned
  <1>13. Reported'
    <2> SUFFICES ASSUME pc' = "finish", result'.status = "success"
                 PROVE  InPlace(LastPlan, LastResult)'
      BY <1>1, <1>2, <1>9 DEF Reported
    <2>1. it.accepted
      BY <1>1
    <2>2. CASE pc = "review"
      <3>1. InPlace(plan, execution_result)
        BY <2>2 DEF Handed
      <3>2. LastPlan' = plan /\ LastResult' = execution_result
        BY <1>1 DEF LastPlan, LastResult
      <3> QED BY <1>3, <3>1, <3>2 DEF InPlace, PassedLast
    <2>3. CASE pc = "plan"
      <3>1. LastResult' = None
        BY <1>1, <1>8, <2>3 DEF LastResult
      <3>2. LastResult' # [tests_passed |-> "True", overall_status |-> "success"]
        BY <3>1, PeerLoopAssumption DEF Result
      <3> QED BY <3>2 DEF InPlace, PassedLast
    <2> QED BY <2>2, <2>3
  <1> QED BY <1>4, <1>6, <1>7, <1>10, <1>11, <1>12, <1>13

-----------------------------------------------------------------------------
(***************************************************************************)
(* The steps of the executor, in which the loop waits.                     *)
(***************************************************************************)
\* What an attempt leaves alone, of the loop's invariant.
LEMMA LoopWaits ==
  ASSUME PeerInv, UNCHANGED loop, pc = "execute",
         exec_pc' = "running", exec_plan' = plan, exec_pc = "running", calls' = calls
  PROVE  /\ Phases' /\ Handed' /\ Reported' /\ ExecutedOnce' /\ EvidenceOwn'
         /\ OwnCode' = OwnCode
  <1> USE DEF PeerInv
  <1>1. /\ pc' = pc /\ ending' = ending /\ iterations' = iterations /\ plan' = plan
        /\ execution_result' = execution_result /\ result' = result
    BY DEF loop
  <1>2. ending = "none"
    BY DEF Phases
  <1>3. Phases' /\ Handed' /\ Reported'
    BY <1>1, <1>2 DEF Phases, Handed, Reported
  <1>4. ExecutedOnce' /\ EvidenceOwn'
    BY <1>1 DEF ExecutedOnce, EvidenceOwn, Hopeless
  <1>5. OwnCode' = OwnCode
    BY <1>1 DEF OwnCode, PlansOfRun, Writes
  <1> QED BY <1>3, <1>4, <1>5

\* A step in progress is a step of the loop's plan.
LEMMA InStepIs ==
  ASSUME PeerInv, Exec!InStep
  PROVE  /\ exec_pc = "running" /\ pc = "execute" /\ exec_plan = plan /\ plan \in Plan
         /\ broke = "no" /\ plan \in Seq(Exec!PlanStep)
         /\ Len(step_results) \in Nat /\ Len(plan) \in Nat
         /\ Len(step_results) + 1 \in 1..Len(plan)
         /\ Exec!Step = plan[Len(step_results) + 1] /\ Exec!Step \in Exec!PlanStep
  <1>1. /\ exec_pc = "running" /\ pc = "execute" /\ exec_plan = plan /\ plan \in Plan
        /\ broke = "no" /\ Len(step_results) < Len(exec_plan)
    BY DEF PeerInv, Exec!InStep, Phases, Shapes
  <1>2. plan \in Seq(Exec!PlanStep)
    BY <1>1, PeerLoopAssumption
  <1>3. Len(step_results) \in Nat
    BY DEF PeerInv, Shapes
  <1>4. Len(plan) \in Nat /\ Len(step_results) + 1 \in 1..Len(plan)
    BY <1>1, <1>2, <1>3
  <1>5. Exec!Step = plan[Len(step_results) + 1]
    BY <1>1 DEF Exec!Step
  <1> QED BY <1>1, <1>2, <1>3, <1>4, <1>5

\* Recording a step.
LEMMA EndStepIs ==
  ASSUME PeerInv, Exec!InStep, NEW met,
         NEW status \in {"success", "failed", "timeout"}, Exec!EndStep(status, met)
  PROVE  /\ step_results' \in Seq(Exec!StepResult)
         /\ Len(step_results') = Len(step_results) + 1
         /\ attempt' \in Nat /\ broke' \in {"no", "timeout", "error"}
         /\ broke' = "no" <=> status = "success"
  <1>1. attempt \in Nat /\ MaxRetries \in Nat
    BY PeerLoopAssumption DEF PeerInv, Shapes
  <1>2. Exec!Attempts(status) \in Nat
    BY <1>1 DEF Exec!Attempts
  <1>3. Exec!Step.tool \in Exec!VALID_TOOLS \cup {"bogus"}
    BY InStepIs DEF Exec!PlanStep
  <1>4. [tool |-> Exec!Step.tool, status |-> status, attempts |-> Exec!Attempts(status)]
          \in Exec!StepResult
    BY <1>2, <1>3 DEF Exec!StepResult
  <1>5. /\ step_results' \in Seq(Exec!StepResult)
        /\ Len(step_results') = Len(step_results) + 1
    BY <1>4 DEF Exec!EndStep, Exec!Record, PeerInv, Shapes
  <1>6. attempt' = 1
    BY DEF Exec!EndStep, Exec!Record
  <1>7. /\ broke' \in {"no", "timeout", "error"}
        /\ broke' = "no" <=> status = "success"
    BY DEF Exec!EndStep, Exec!BreakOn
  <1> QED BY <1>5, <1>6, <1>7

\* An attempt that ended its step keeps the invariant if the step could be
\* carried out when it succeeded, and the verdict and the code are the run's.
LEMMA StepEndedInv ==
  ASSUME PeerInv, Exec!InStep, NEW met,
         NEW status \in {"success", "failed", "timeout"}, Exec!EndStep(status, met),
         UNCHANGED loop, UNCHANGED <<exec_pc, calls, exec_plan>>,
         sandbox' \in [File -> Content \cup {None, StarterCode, TestCode, Empty}],
         status = "success" => ~ Hopeless(Exec!Step),
         tests_passed' # "None" => tests_passed # "None" \/ Exec!Step.tool = "run_tests",
         status = "success" /\ Exec!Step.tool = "run_tests" => tested'.files = sandbox',
         {sandbox'[SolutionFile], pyc', tested'.code} \subseteq OwnCode \cup {None}
  PROVE  PeerInv'
  <1> DEFINE n == Len(step_results)
  <1>1. /\ exec_pc = "running" /\ pc = "execute" /\ exec_plan = plan /\ broke = "no"
        /\ n \in Nat /\ Len(plan) \in Nat /\ n + 1 \in 1..Len(plan)
        /\ Exec!Step = plan[n + 1] /\ plan \in Seq(Exec!PlanStep)
    BY InStepIs
  <1>2. /\ step_results' \in Seq(Exec!StepResult) /\ Len(step_results') = n + 1
        /\ attempt' \in Nat /\ broke' \in {"no", "timeout", "error"}
        /\ broke' = "no" <=> status = "success"
    BY EndStepIs
  <1>3. /\ Phases' /\ Handed' /\ Reported' /\ ExecutedOnce' /\ EvidenceOwn'
        /\ OwnCode' = OwnCode
    BY <1>1, LoopWaits
  <1>4. Shapes'
    BY <1>2 DEF PeerInv, Shapes, loop
  <1>5. Codes'
    BY <1>3 DEF Codes
  <1>6. Walked'
    <2>1. exec_plan' = plan
      BY <1>1
    <2>2. /\ \A k \in 1..n : ~ Hopeless(plan[k])
          /\ tests_passed # "None" => \E k \in DOMAIN plan : plan[k].tool = "run_tests"
      BY <1>1 DEF PeerInv, Walked
    <2>3. broke' = "no" => \A k \in 1..(n + 1) : ~ Hopeless(plan[k])
      BY <1>1, <1>2, <2>2
    <2>4. tests_passed' # "None" => \E k \in DOMAIN plan : plan[k].tool = "run_tests"
      <3>1. n + 1 \in DOMAIN plan
        BY <1>1
      <3> QED BY <1>1, <2>2, <3>1
    <2>5. broke' = "no" /\ plan[n + 1].tool = "run_tests" => tested'.files = sandbox'
      BY <1>1, <1>2
    <2> QED BY <1>1, <1>2, <2>1, <2>3, <2>4, <2>5 DEF Walked, Hopeless
  <1> QED BY <1>3, <1>4, <1>5, <1>6 DEF PeerInv

\* What a step of the plan writes is the run's own.
LEMMA WrittenIsOwn ==
  ASSUME PeerInv, Exec!InStep, Exec!Step.tool = "write_file"
  PROVE  /\ Exec!Step.path = SolutionFile => Exec!Written \in OwnCode
         /\ Empty \in OwnCode
         /\ Exec!Written \in Content \cup {Empty}
  <1> DEFINE m == Len(step_results) + 1
  <1>1. /\ plan \in Plan /\ plan \in Seq(Exec!PlanStep) /\ m \in 1..Len(plan)
        /\ Exec!Step = plan[m] /\ Exec!Step \in Exec!PlanStep
    BY InStepIs
  <1>2. m \in DOMAIN plan
    BY <1>1
  <1>3. plan \in PlansOfRun
    BY <1>1, PeerLoopAssumption DEF PlansOfRun
  <1>4. Writes(plan) \subseteq OwnCode
    BY <1>3 DEF OwnCode
  <1>5. Empty \in Writes(plan)
    BY DEF Writes
  <1>6. Exec!Step.path = SolutionFile => plan[m].content \in Writes(plan)
    BY <1>1, <1>2 DEF Writes
  <1>7. Exec!Step.content \in Content \cup {None}
    BY <1>1 DEF Exec!PlanStep
  <1> QED BY <1>1, <1>4, <1>5, <1>6, <1>7 DEF Exec!Written

\* An attempt of a step keeps the invariant.
LEMMA ExecutorRunsInv == PeerInv /\ ExecutorRuns => PeerInv'
  <1> SUFFICES ASSUME PeerInv, Exec!Attempt, UNCHANGED loop PROVE PeerInv'
    BY DEF ExecutorRuns
  <1>1. /\ Exec!InStep /\ exec_pc' = exec_pc /\ calls' = calls /\ exec_plan' = exec_plan
    BY DEF Exec!Attempt, Exec!Retry, Exec!RetriesExhausted, Exec!InjectedFault,
           Exec!Inspect, Exec!WriteFile, Exec!RunTests, Exec!RunTestsHangs,
           Exec!ToolRaises, Exec!control
  <1>2. Exec!Step \in Exec!PlanStep
    BY <1>1, InStepIs
  <1>3. SolutionFile \in File /\ {None, Outside, Root} \cap File = {}
        /\ Root \notin {None, Outside}
    BY PeerLoopAssumption
  <1>4. /\ sandbox \in [File -> Content \cup {None, StarterCode, TestCode, Empty}]
        /\ {sandbox[SolutionFile], pyc, tested.code} \subseteq OwnCode \cup {None}
    BY DEF PeerInv, Shapes, Codes
  <1>5. CASE Exec!Retry
    <2>1. /\ UNCHANGED <<sandbox, pyc, step_results, tests_passed, broke, tested>>
          /\ attempt' = attempt + 1
      BY <1>5 DEF Exec!Retry, Exec!disk
    <2>2. /\ Phases' /\ Handed' /\ Reported' /\ ExecutedOnce' /\ EvidenceOwn'
          /\ OwnCode' = OwnCode
      BY <1>1, InStepIs, LoopWaits
    <2>3. Shapes'
      BY <1>1, <2>1 DEF PeerInv, Shapes, loop
    <2>4. Walked' /\ Codes'
      BY <1>1, <2>1, <2>2 DEF PeerInv, Walked, Codes, Hopeless
    <2> QED BY <2>2, <2>3, <2>4 DEF PeerInv
  <1>6. CASE Exec!RetriesExhausted
    <2>1. /\ Exec!EndStep("failed", "transient")
          /\ UNCHANGED <<sandbox, pyc, tests_passed, tested>>
      BY <1>6 DEF Exec!RetriesExhausted, Exec!disk
    <2> QED BY <1>1, <1>4, <2>1, StepEndedInv
  <1>7. CASE Exec!InjectedFault
    <2>1. PICK s \in {"timeout", "failed"} : Exec!EndStep(s, "nothing")
      BY <1>7 DEF Exec!InjectedFault
    <2>2. UNCHANGED <<sandbox, pyc, tests_passed, tested>>
      BY <1>7 DEF Exec!InjectedFault, Exec!disk
    <2> QED BY <1>1, <1>4, <2>1, <2>2, StepEndedInv
  <1>8. CASE Exec!Inspect
    <2>1. /\ Exec!EndStep("success", "nothing")
          /\ UNCHANGED <<sandbox, pyc, tests_passed, tested>>
          /\ \/ Exec!Step.tool = "list_files"
             \/ Exec!Step.tool = "read_file" /\ Exec!Step.path \in File
      BY <1>8 DEF Exec!Inspect, Exec!disk
    <2>2. ~ Hopeless(Exec!Step)
      BY <1>3, <2>1 DEF Hopeless
    <2> QED BY <1>1, <1>4, <2>1, <2>2, StepEndedInv
  <1>9. CASE Exec!WriteFile
    <2>1. /\ Exec!EndStep("success", "nothing")
          /\ UNCHANGED <<pyc, tests_passed, tested>>
          /\ Exec!Step.tool = "write_file" /\ Exec!Step.path \in File
          /\ sandbox' = [sandbox EXCEPT ![Exec!Step.path] = Exec!Written]
      BY <1>9 DEF Exec!WriteFile
    <2>2. ~ Hopeless(Exec!Step)
      BY <1>3, <2>1 DEF Hopeless
    <2>3. /\ Exec!Step.path = SolutionFile => Exec!Written \in OwnCode
          /\ Exec!Written \in Content \cup {Empty}
      BY <1>1, <2>1, WrittenIsOwn
    <2>4. /\ sandbox' \in [File -> Content \cup {None, StarterCode, TestCode, Empty}]
          /\ sandbox'[SolutionFile] \in OwnCode \cup {None}
      BY <1>3, <1>4, <2>1, <2>3
    <2> QED BY <1>1, <1>4, <2>1, <2>2, <2>4, StepEndedInv
  <1>10. CASE Exec!RunTests
    <2>1. /\ Exec!EndStep("success", "nothing") /\ Exec!Testable
          /\ UNCHANGED sandbox
      BY <1>10 DEF Exec!RunTests
    <2>2. PICK code \in Exec!Loadable :
            /\ tested' = [files |-> sandbox, code |-> code]
            /\ pyc' \in {pyc, code}
      BY <1>10 DEF Exec!RunTests
    <2>3. Exec!Step.tool = "run_tests" /\ ~ Hopeless(Exec!Step)
      BY <1>3, <2>1 DEF Exec!Testable, Hopeless
    <2>4. code \in OwnCode \cup {None}
      BY <1>4, <2>2 DEF Exec!Loadable
    <2>5. /\ sandbox' = sandbox /\ tested'.files = sandbox' /\ tested'.code = code
          /\ {sandbox'[SolutionFile], pyc', tested'.code} \subseteq OwnCode \cup {None}
      BY <1>4, <2>1, <2>2, <2>4
    <2> QED BY <1>1, <1>4, <2>1, <2>3, <2>5, StepEndedInv
  <1>11. CASE Exec!RunTestsHangs
    <2>1. PICK s \in {"failed", "timeout"} : Exec!EndStep(s, "hang")
      BY <1>11 DEF Exec!RunTestsHangs
    <2>2. /\ UNCHANGED <<sandbox, tests_passed, tested>>
          /\ pyc' \in {pyc} \cup Exec!Loadable
      BY <1>11 DEF Exec!RunTestsHangs
    <2>3. pyc' \in OwnCode \cup {None}
      BY <1>4, <2>2 DEF Exec!Loadable
    <2> QED BY <1>1, <1>4, <2>1, <2>2, <2>3, StepEndedInv
  <1>12. CASE Exec!ToolRaises
    <2>1. /\ Exec!EndStep("failed", "nothing")
          /\ UNCHANGED <<pyc, tests_passed, tested>>
      BY <1>12 DEF Exec!ToolRaises
    <2>2. \/ UNCHANGED sandbox
          \/ /\ Exec!Step.tool = "write_file" /\ Exec!Step.path \in File
             /\ sandbox' = [sandbox EXCEPT ![Exec!Step.path] = Empty]
      BY <1>12 DEF Exec!ToolRaises
    <2>3. Exec!Step.tool = "write_file" => Empty \in OwnCode
      BY <1>1, WrittenIsOwn
    <2>4. /\ sandbox' \in [File -> Content \cup {None, StarterCode, TestCode, Empty}]
          /\ sandbox'[SolutionFile] \in OwnCode \cup {None}
      BY <1>3, <1>4, <2>2, <2>3
    <2> QED BY <1>1, <1>4, <2>1, <2>4, StepEndedInv
  <1> QED BY <1>5, <1>6, <1>7, <1>8, <1>9, <1>10, <1>11, <1>12 DEF Exec!Attempt

-----------------------------------------------------------------------------
(***************************************************************************)
(* The calls of the executor and their ends.                               *)
(***************************************************************************)
LEMMA CallExecutorInv == PeerInv /\ CallExecutor => PeerInv'
  <1> SUFFICES ASSUME PeerInv, CallExecutor PROVE PeerInv'
    OBVIOUS
  <1>1. /\ pc = "execute" /\ UNCHANGED loop
        /\ exec_pc # "running" /\ exec_pc' = "running"
        /\ calls' = calls + 1 /\ exec_plan' = plan /\ pyc' = pyc
        /\ sandbox' = [sandbox EXCEPT ![SolutionFile] = StarterCode, ![TestFile] = TestCode]
        /\ step_results' = <<>> /\ attempt' = 1 /\ tests_passed' = "None" /\ broke' = "no"
        /\ tested'.code = None
    BY DEF CallExecutor, Exec!Execute, Exec!Materialized, Exec!ResetLocals, Exec!Untested
  <1>2. /\ pc' = pc /\ ending' = ending /\ iterations' = iterations /\ plan' = plan
        /\ execution_result' = execution_result /\ result' = result /\ i' = i
    BY <1>1 DEF loop
  <1>3. /\ sandbox' \in [File -> Content \cup {None, StarterCode, TestCode, Empty}]
        /\ sandbox'[SolutionFile] = StarterCode
    BY <1>1, PeerLoopAssumption DEF PeerInv, Shapes
  <1>4. Shapes'
    BY <1>1, <1>2, <1>3 DEF PeerInv, Shapes
  <1>5. Phases' /\ Handed' /\ Reported'
    BY <1>1, <1>2 DEF PeerInv, Phases, Handed, Reported
  <1>6. Walked'
    <2>1. plan \in Seq(Exec!PlanStep)
      BY <1>1, PeerLoopAssumption DEF PeerInv, Shapes, Phases
    <2>2. Len(step_results') = 0 /\ Len(plan) \in Nat
      BY <1>1, <2>1
    <2> QED BY <1>1, <2>2 DEF Walked
  <1>7. Codes'
    <2>1. OwnCode' = OwnCode
      BY <1>2 DEF OwnCode, PlansOfRun, Writes
    <2>2. StarterCode \in OwnCode
      BY DEF OwnCode
    <2> QED BY <1>1, <1>3, <2>1, <2>2 DEF PeerInv, Codes
  <1>8. ExecutedOnce'
    <2>1. Cardinality(Planned(iterations)) \in Nat
      BY PlannedCounted DEF PeerInv, Shapes
    <2>2. calls = Cardinality(Planned(iterations)) + 0
      BY <1>1 DEF PeerInv, Phases, ExecutedOnce, Planned
    <2>3. calls' = Cardinality(Planned(iterations')) + 1
      BY <1>1, <1>2, <2>1, <2>2
    <2> QED BY <1>1, <2>3 DEF ExecutedOnce, Planned
  <1>9. EvidenceOwn'
    BY <1>2 DEF PeerInv, EvidenceOwn, Hopeless
  <1> QED BY <1>4, <1>5, <1>6, <1>7, <1>8, <1>9 DEF PeerInv

\* An executor that raises has used the plan up, and leaves no verdict.
LEMMA CallRaisesInv == PeerInv /\ CallRaises => PeerInv'
  <1> SUFFICES ASSUME PeerInv, CallRaises PROVE PeerInv'
    OBVIOUS
  <1> USE DEF PeerInv
  <1>1. /\ pc = "execute" /\ exec_pc # "running" /\ exec_pc' = "crashed"
        /\ calls' = calls + 1 /\ pyc' = pyc
        /\ UNCHANGED <<step_results, attempt, tests_passed, broke, tested>>
    BY DEF CallRaises, Loop!ExecutorRaises, Exec!ExecuteRaises, Exec!outcome
  <1>2. /\ plan \in Plan /\ plan # None /\ execution_result = None /\ ending = "none"
    BY <1>1 DEF Shapes, Phases
  <1>3. PICK t \in Text :
          LET r == [source |-> "crash", text |-> t]
          IN  Loop!EndIteration(Loop!Failure(plan, Loop!ErrorResult, r), Loop!Plain(r))
    BY DEF CallRaises, Loop!ExecutorRaises
  <1> DEFINE r  == [source |-> "crash", text |-> t]
             it == Loop!Failure(plan, Loop!ErrorResult, r)
  <1>4. /\ it \in Loop!Iteration /\ it.plan = plan /\ ~ it.accepted
        /\ it.execution_result = [tests_passed |-> "None", overall_status |-> "error"]
    BY <1>2 DEF Loop!Failure, Loop!ErrorResult, Loop!Iteration, Loop!Reason,
                Loop!ExecutionResult, Shapes
  <1>5. Loop!EndIteration(it, Loop!Plain(r))
    BY <1>3
  <1> HIDE DEF it
  <1>6. /\ iterations' = Append(iterations, it) /\ iterations' \in Seq(Loop!Iteration)
        /\ i' \in Nat
        /\ plan' = None /\ execution_result' = None
        /\ pc' \in {"plan", "finish", "idle"}
        /\ pc' # "idle" => ending' = ending
        /\ pc' = "finish" => it.accepted \/ result'.status = "failed"
        /\ pc' = "idle" => ending' = "raised"
    BY <1>4, <1>5, EndIs
  <1>7. OwnCode \subseteq OwnCode'
    BY <1>4, <1>5, EndKeepsCode
  <1>8. {StarterCode, Empty} \subseteq OwnCode
    <2>1. plan \in PlansOfRun
      BY <1>2 DEF PlansOfRun
    <2>2. Empty \in Writes(plan)
      BY DEF Writes
    <2> QED BY <2>1, <2>2 DEF OwnCode
  <1>9. /\ sandbox' \in [File -> Content \cup {None, StarterCode, TestCode, Empty}]
        /\ sandbox'[SolutionFile] \in {sandbox[SolutionFile], StarterCode, Empty}
    <2>1. \/ UNCHANGED sandbox
          \/ \E code \in {StarterCode, Empty} :
               sandbox' = [sandbox EXCEPT ![SolutionFile] = code]
          \/ sandbox' = [Exec!Materialized(sandbox) EXCEPT ![TestFile] = Empty]
      BY DEF CallRaises, Exec!ExecuteRaises
    <2>2. CASE UNCHANGED sandbox
      BY <2>2 DEF Shapes
    <2>3. CASE \E code \in {StarterCode, Empty} :
                 sandbox' = [sandbox EXCEPT ![SolutionFile] = code]
      BY <2>3, PeerLoopAssumption DEF Shapes
    <2>4. CASE sandbox' = [Exec!Materialized(sandbox) EXCEPT ![TestFile] = Empty]
      <3>1. /\ Exec!Materialized(sandbox)
                 \in [File -> Content \cup {None, StarterCode, TestCode, Empty}]
            /\ Exec!Materialized(sandbox)[SolutionFile] = StarterCode
        BY PeerLoopAssumption DEF Exec!Materialized, Shapes
      <3> QED BY <2>4, <3>1, PeerLoopAssumption
    <2> QED BY <2>1, <2>2, <2>3, <2>4
  <1>10. Shapes'
    BY <1>1, <1>6, <1>9 DEF Shapes
  <1>11. Phases' /\ Walked' /\ Handed'
    BY <1>1, <1>2, <1>6 DEF Phases, Walked, Handed
  <1>12. Reported'
    BY <1>2, <1>4, <1>6 DEF Reported
  <1>13. Codes'
    BY <1>1, <1>7, <1>8, <1>9 DEF Codes
  <1>14. EvidenceOwn'
    BY <1>4, <1>5, EndOwn DEF Own
  <1>15. ExecutedOnce'
    <2>1. calls = Cardinality(Planned(iterations)) + 0
      BY <1>1, <1>2 DEF ExecutedOnce, Planned
    <2>2. /\ Cardinality(Planned(iterations)) \in Nat
          /\ Cardinality(Planned(iterations')) = Cardinality(Planned(iterations)) + 1
      BY <1>2, <1>4, <1>6, PlannedCounted, PlannedAppend DEF Shapes
    <2>3. calls' = Cardinality(Planned(iterations')) + 0
      BY <1>1, <2>1, <2>2
    <2> QED BY <1>1, <1>6, <2>3 DEF ExecutedOnce, Planned
  <1> QED BY <1>10, <1>11, <1>12, <1>13, <1>14, <1>15

\* What the executor returns tells the truth about the loop's plan.
LEMMA ExecutorReturnsInv == PeerInv /\ ExecutorReturns => PeerInv'
  <1> SUFFICES ASSUME PeerInv, ExecutorReturns PROVE PeerInv'
    OBVIOUS
  <1> USE DEF PeerInv
  <1>1. /\ pc = "execute" /\ pc' = "review" /\ execution_result' = ExecutionResult
        /\ execution_result' \in Result
        /\ UNCHANGED <<ending, i, iterations, plan, result>>
    BY DEF ExecutorReturns, Loop!ExecutorReturns
  <1>2. /\ exec_pc = "running" /\ exec_pc' = "returned" /\ Exec!LoopDone
        /\ UNCHANGED <<calls, exec_plan, sandbox, pyc, step_results, attempt,
                       tests_passed, broke, tested>>
    BY DEF ExecutorReturns, Exec!Return, Exec!disk, Exec!outcome
  <1>3. /\ exec_plan = plan /\ plan \in Plan /\ plan # None /\ ending = "none"
        /\ execution_result' # None
    BY <1>1, <1>2, PeerLoopAssumption DEF Phases, Shapes
  <1>4. Shapes'
    BY <1>1, <1>2 DEF Shapes
  <1>5. Phases' /\ Walked' /\ Reported'
    BY <1>1, <1>2, <1>3 DEF Phases, Walked, Reported
  <1>6. Codes'
    <2>1. OwnCode' = OwnCode
      BY <1>1 DEF OwnCode, PlansOfRun, Writes
    <2> QED BY <1>2, <2>1 DEF Codes
  <1>7. ExecutedOnce' /\ EvidenceOwn'
    BY <1>1, <1>2, <1>3 DEF ExecutedOnce, EvidenceOwn, Hopeless
  <1>8. Handed'
    <2>1. /\ ExecutionResult.tests_passed = tests_passed
          /\ ExecutionResult.overall_status = "success" => broke = "no"
      BY DEF ExecutionResult, Exec!overall_status, Shapes
    <2>2. broke = "no" => Len(step_results) = Len(plan)
      BY <1>2, <1>3 DEF Exec!LoopDone
    <2>3. plan \in Seq(Exec!PlanStep) /\ DOMAIN plan = 1..Len(plan) /\ Len(plan) \in Nat
      BY <1>3, PeerLoopAssumption
    <2>4. Own(plan, ExecutionResult)
      BY <1>2, <1>3, <2>1, <2>2, <2>3 DEF Own, Walked
    <2>5. ASSUME PassedLast(plan, ExecutionResult) PROVE tested.files = sandbox
      <3>1. tests_passed = "True" /\ broke = "no"
        BY <2>1, <2>5 DEF PassedLast
      <3>2. Len(plan) > 0 /\ Len(step_results) = Len(plan)
        BY <2>2, <2>3, <2>4, <2>1, <3>1 DEF Own
      <3>3. step_results # <<>>
        BY <3>2
      <3> QED BY <1>2, <1>3, <2>5, <3>1, <3>2, <3>3 DEF Walked, PassedLast
    <2> QED BY <1>1, <1>2, <1>3, <2>4, <2>5 DEF Handed, Own, InPlace, PassedLast, Hopeless
  <1> QED BY <1>4, <1>5, <1>6, <1>7, <1>8

-----------------------------------------------------------------------------
(***************************************************************************)
(* A run begins, and the steps of the loop while the executor rests.       *)
(***************************************************************************)
\* The state of a run before its first iteration, and after a call that did
\* not get there.
Fresh ==
  /\ iterations = <<>> /\ plan = None /\ execution_result = None /\ i \in Nat
  /\ pc = "plan" \/ pc = "idle"
  /\ ending # "returned" /\ (pc = "plan" => ending = "none")
  /\ exec_pc = "idle" /\ calls = 0 /\ step_results = <<>> /\ attempt = 1 /\ broke = "no"
  /\ tested.code = None /\ pyc = None /\ sandbox = [f \in File |-> None]

LEMMA FreshInv == Fresh => PeerInv
  <1> SUFFICES ASSUME Fresh PROVE PeerInv
    OBVIOUS
  <1> USE DEF Fresh
  <1>1. Shapes
    BY DEF Shapes
  <1>2. Phases /\ Walked /\ Handed /\ Reported /\ EvidenceOwn
    BY DEF Phases, Walked, Handed, Reported, EvidenceOwn
  <1>3. Codes
    BY PeerLoopAssumption DEF Codes
  <1>4. ExecutedOnce
    <2>1. {k \in DOMAIN iterations : iterations[k].plan # None} = {}
      OBVIOUS
    <2> QED BY <2>1, FS_EmptySet DEF ExecutedOnce
  <1> QED BY <1>1, <1>2, <1>3, <1>4 DEF PeerInv

LEMMA InitiallyInv == Init => PeerInv
  BY FreshInv DEF Fresh, Init, Loop!Init, Exec!Init, Exec!Untested

\* A new run has a new executor and an empty directory.
LEMMA RunTaskInv ==
  ASSUME NEW c \in Caps, RunTask(c)
  PROVE  PeerInv'
  <1>1. /\ iterations' = <<>> /\ plan' = None /\ execution_result' = None
        /\ i' \in Nat /\ (pc' = "plan" \/ pc' = "idle") /\ ending' # "returned"
        /\ pc' = "plan" => ending' = "none"
    BY DEF RunTask, Loop!RunTask, Loop!FreshLocals, Loop!Raise
  <1>2. /\ exec_pc' = "idle" /\ calls' = 0
        /\ step_results' = <<>> /\ attempt' = 1 /\ broke' = "no"
        /\ tested'.code = None /\ pyc' = None
        /\ sandbox' = [f \in File |-> None]
    BY DEF RunTask, FreshExecutor, Exec!ResetLocals, Exec!Untested
  <1>3. Fresh' => PeerInv'
    BY FreshInv, PTL
  <1> QED BY <1>1, <1>2, <1>3 DEF Fresh

\* A call that is refused, with whatever the last run left behind.
LEMMA RejectCapInv ==
  ASSUME PeerInv, NEW c \in Caps, RejectCap(c)
  PROVE  PeerInv'
  <1>1. /\ pc = "idle" /\ pc' = "idle" /\ ending' = "rejected"
        /\ UNCHANGED <<iterations, i, plan, execution_result, result>>
        /\ UNCHANGED <<exec_pc, calls, exec_plan, sandbox, pyc, step_results, attempt,
                       tests_passed, broke, tested>>
    BY DEF RejectCap, Loop!RejectCap, Loop!local, exec
  <1>2. Shapes' /\ Phases' /\ Walked' /\ Handed' /\ Reported'
    BY <1>1 DEF PeerInv, Shapes, Phases, Walked, Handed, Reported, Hopeless
  <1>3. ExecutedOnce' /\ EvidenceOwn'
    BY <1>1 DEF PeerInv, ExecutedOnce, EvidenceOwn, Hopeless
  <1>4. OwnCode' = OwnCode
    BY <1>1 DEF OwnCode, PlansOfRun, Writes
  <1> QED BY <1>1, <1>2, <1>3, <1>4 DEF PeerInv, Codes

\* The invariant of a state with the same iterations, the same plan and the same
\* executor, at a place where no plan is being carried out.
LEMMA RestsInv ==
  ASSUME PeerInv, UNCHANGED exec, exec_pc # "running",
         UNCHANGED <<iterations, i, plan, execution_result, result>>,
         pc' = "idle" \/ pc' = "save", pc' = "save" => ending' = "none",
         ending' = "returned" => pc = "finish" \/ pc = "save",
         pc' = "save" => pc = "finish"
  PROVE  PeerInv'
  <1>1. UNCHANGED <<exec_pc, calls, exec_plan, sandbox, pyc, step_results, attempt,
                    tests_passed, broke, tested>>
    BY DEF exec
  <1>2. Shapes'
    BY <1>1 DEF PeerInv, Shapes
  <1>3. Phases' /\ Walked' /\ Handed'
    BY <1>1 DEF PeerInv, Phases, Walked, Handed
  <1>4. Reported'
    BY <1>1 DEF PeerInv, Reported, InPlace, PassedLast, LastPlan, LastResult
  <1>5. ExecutedOnce' /\ EvidenceOwn'
    BY <1>1 DEF PeerInv, ExecutedOnce, EvidenceOwn, Hopeless
  <1>6. OwnCode' = OwnCode
    BY DEF OwnCode, PlansOfRun, Writes
  <1> QED BY <1>1, <1>2, <1>3, <1>4, <1>5, <1>6 DEF PeerInv, Codes

LEMMA PlannerPlansInv ==
  ASSUME PeerInv, UNCHANGED exec, Loop!PlannerPlans
  PROVE  PeerInv'
  <1>1. /\ pc = "plan" /\ pc' = "execute" /\ plan' \in Plan
        /\ UNCHANGED <<ending, iterations, i, execution_result, result>>
    BY DEF Loop!PlannerPlans
  <1>2. UNCHANGED <<exec_pc, calls, exec_plan, sandbox, pyc, step_results, attempt,
                    tests_passed, broke, tested>>
    BY DEF exec
  <1>3. /\ plan = None /\ plan' # None /\ execution_result = None /\ ending = "none"
        /\ exec_pc # "running"
    BY <1>1, PeerLoopAssumption DEF PeerInv, Phases
  <1>4. Shapes' /\ Phases' /\ Walked' /\ Handed' /\ Reported'
    BY <1>1, <1>2, <1>3 DEF PeerInv, Shapes, Phases, Walked, Handed, Reported
  <1>5. ExecutedOnce' /\ EvidenceOwn'
    BY <1>1, <1>2 DEF PeerInv, ExecutedOnce, EvidenceOwn, Hopeless
  <1>6. OwnCode \subseteq OwnCode'
    <2>1. PlansOfRun \subseteq PlansOfRun'
      BY <1>1, <1>3 DEF PlansOfRun
    <2> QED BY <2>1 DEF OwnCode, Writes
  <1> QED BY <1>2, <1>4, <1>5, <1>6 DEF PeerInv, Codes

\* The loop's own steps.
LEMMA LoopRunsInv == PeerInv /\ LoopRuns => PeerInv'
  <1> SUFFICES ASSUME PeerInv, LoopRuns PROVE PeerInv'
    OBVIOUS
  <1>1. pc # "execute" /\ Loop!Step /\ UNCHANGED exec /\ exec_pc # "running"
    BY DEF LoopRuns, PeerInv, Phases
  <1>2. i \in Nat /\ plan \in Plan \cup {None} /\ execution_result \in Result \cup {None}
    BY DEF PeerInv, Shapes
  <1>3. CASE Loop!PlannerPlans
    BY <1>1, <1>3, PlannerPlansInv
  <1>4. CASE Loop!PlannerMalformed
    <2>1. pc = "plan" /\ plan = None /\ execution_result = None
      BY <1>4 DEF Loop!PlannerMalformed, PeerInv, Phases
    <2>2. PICK t \in Text :
            LET r == [source |-> "bad plan", text |-> t]
            IN  Loop!EndIteration(Loop!Failure(None, None, r), Loop!Hinted(r))
      BY <1>4 DEF Loop!PlannerMalformed
    <2> DEFINE r  == [source |-> "bad plan", text |-> t]
               it == Loop!Failure(None, None, r)
    <2>3. it \in Loop!Iteration /\ it.plan = plan /\ it.execution_result = execution_result
      BY <1>2, <2>1 DEF Loop!Failure, Loop!Iteration, Loop!Reason
    <2>4. Loop!EndIteration(it, Loop!Hinted(r))
      BY <2>2
    <2> HIDE DEF it
    <2> QED BY <1>1, <2>1, <2>3, <2>4, EndInv
  <1>5. CASE Loop!ReviewerDecides
    <2>1. pc = "review" /\ execution_result \in Loop!ExecutionResult
      BY <1>2, <1>5 DEF Loop!ReviewerDecides, PeerInv, Phases, Result, Loop!ExecutionResult
    <2>2. PICK t \in Text, accepted \in BOOLEAN :
            LET r == [source |-> "review", text |-> t]
            IN  Loop!EndIteration([iteration_number |-> i, plan |-> plan,
                                   execution_result |-> execution_result,
                                   accepted |-> accepted, reason |-> r,
                                   planner_malformed_output |-> FALSE,
                                   reviewer_disagreed_with_tests
                                     |-> Loop!Disagreed(accepted)],
                                  Loop!Plain(r))
      BY <1>5 DEF Loop!ReviewerDecides
    <2> DEFINE r  == [source |-> "review", text |-> t]
               it == [iteration_number |-> i, plan |-> plan,
                      execution_result |-> execution_result,
                      accepted |-> accepted, reason |-> r,
                      planner_malformed_output |-> FALSE,
                      reviewer_disagreed_with_tests |-> Loop!Disagreed(accepted)]
    <2>3. Loop!Disagreed(accepted) \in BOOLEAN
      BY DEF Loop!Disagreed
    <2>4. it \in Loop!Iteration /\ it.plan = plan /\ it.execution_result = execution_result
      BY <1>2, <2>1, <2>3 DEF Loop!Iteration, Loop!Reason
    <2>5. Loop!EndIteration(it, Loop!Plain(r))
      BY <2>2
    <2> HIDE DEF it
    <2> QED BY <1>1, <2>1, <2>4, <2>5, EndInv
  <1>6. CASE Loop!ReviewerMalformed
    <2>1. pc = "review" /\ plan # None /\ execution_result \in Loop!ExecutionResult
      BY <1>2, <1>6 DEF Loop!ReviewerMalformed, PeerInv, Phases, Result,
                        Loop!ExecutionResult
    <2>2. PICK t \in Text :
            LET r == [source |-> "bad review", text |-> t]
            IN  Loop!EndIteration(Loop!Failure(plan, execution_result, r), Loop!Plain(r))
      BY <1>6 DEF Loop!ReviewerMalformed
    <2> DEFINE r  == [source |-> "bad review", text |-> t]
               it == Loop!Failure(plan, execution_result, r)
    <2>3. it \in Loop!Iteration /\ it.plan = plan /\ it.execution_result = execution_result
      BY <1>2, <2>1 DEF Loop!Failure, Loop!Iteration, Loop!Reason
    <2>4. Loop!EndIteration(it, Loop!Plain(r))
      BY <2>2
    <2> HIDE DEF it
    <2> QED BY <1>1, <2>1, <2>3, <2>4, EndInv
  <1>7. CASE Loop!AgentRaises
    <2>1. /\ pc' = "idle" /\ ending' = "raised"
          /\ UNCHANGED <<iterations, i, plan, execution_result, result>>
      BY <1>7 DEF Loop!AgentRaises, Loop!Raise, Loop!local
    <2> QED BY <1>1, <2>1, RestsInv
  <1>8. CASE Loop!FinishRun
    <2>1. /\ pc = "finish" /\ ending = "none"
          /\ UNCHANGED <<iterations, i, plan, execution_result, result>>
      BY <1>8 DEF Loop!FinishRun, Loop!local, PeerInv, Phases
    <2>2. pc' = "idle" \/ (pc' = "save" /\ ending' = "none")
      BY <1>8, <2>1 DEF Loop!FinishRun, Loop!Raise, Loop!Return
    <2> QED BY <1>1, <2>1, <2>2, RestsInv
  <1>9. CASE Loop!SaveRun \/ Loop!SaveRunRaises
    <2>1. /\ pc = "save" /\ pc' = "idle"
          /\ UNCHANGED <<iterations, i, plan, execution_result, result>>
      BY <1>9 DEF Loop!SaveRun, Loop!SaveRunRaises, Loop!Raise, Loop!Return, Loop!local
    <2> QED BY <1>1, <2>1, RestsInv
  <1> QED BY <1>1, <1>3, <1>4, <1>5, <1>6, <1>7, <1>8, <1>9
          DEF Loop!Step, Loop!ExecutorReturns, Loop!ExecutorRaises

-----------------------------------------------------------------------------
LEMMA PeerInductive == PeerInv /\ [Next]_vars => PeerInv'
  <1> SUFFICES ASSUME PeerInv, [Next]_vars PROVE PeerInv'
    OBVIOUS
  <1>1. ASSUME NEW c \in Caps, RunTask(c) \/ RejectCap(c) PROVE PeerInv'
    BY <1>1, RunTaskInv, RejectCapInv
  <1>2. CASE CallExecutor \/ CallRaises
    BY <1>2, CallExecutorInv, CallRaisesInv
  <1>3. CASE ExecutorRuns \/ ExecutorReturns
    BY <1>3, ExecutorRunsInv, ExecutorReturnsInv
  <1>4. CASE LoopRuns
    BY <1>4, LoopRunsInv
  <1>5. CASE UNCHANGED vars
    <2>1. /\ UNCHANGED <<pc, ending, i, iterations, plan, execution_result, result>>
          /\ UNCHANGED <<exec_pc, calls, exec_plan, sandbox, pyc, step_results, attempt,
                         tests_passed, broke, tested>>
      BY <1>5 DEF vars, loop, exec
    <2>2. OwnCode' = OwnCode
      BY <2>1 DEF OwnCode, PlansOfRun, Writes
    <2>3. Shapes' /\ Phases' /\ Walked' /\ Codes'
      BY <2>1, <2>2 DEF PeerInv, Shapes, Phases, Walked, Codes, Hopeless
    <2>4. Handed' /\ Reported'
      BY <2>1 DEF PeerInv, Handed, Reported, Own, InPlace, PassedLast, LastPlan,
                  LastResult, Hopeless
    <2>5. ExecutedOnce' /\ EvidenceOwn'
      BY <2>1 DEF PeerInv, ExecutedOnce, EvidenceOwn, Hopeless
    <2> QED BY <2>3, <2>4, <2>5 DEF PeerInv
  <1> QED BY <1>1, <1>2, <1>3, <1>4, <1>5 DEF Next, Step

LEMMA PeerInvariant == Spec => []PeerInv
  BY InitiallyInv, PeerInductive, PTL DEF Spec

\* Every plan the planner made is executed once (loop_controller.py:75-90).
THEOREM ExecutedOnceHolds == Spec => []ExecutedOnce
  <1>1. PeerInv => ExecutedOnce
    BY DEF PeerInv
  <1> QED BY <1>1, PeerInvariant, PTL

\* The result recorded with a plan is of that plan (executor.py:49-150).
THEOREM EvidenceOwnHolds == Spec => []EvidenceOwn
  <1>1. PeerInv => EvidenceOwn
    BY DEF PeerInv
  <1> QED BY <1>1, PeerInvariant, PTL

\* No code of another run is graded, whatever bytecode is cached
\* (tools.py:50-72, cli.py:69).
THEOREM NoForeignCodeHolds == Spec => []NoForeignCode
  <1>1. PeerInv => NoForeignCode
    BY DEF PeerInv, Codes, NoForeignCode, OwnCode
  <1> QED BY <1>1, PeerInvariant, PTL

\* An accepted run whose plan passed its tests leaves the files that passed
\* (loop_controller.py:117-146).
THEOREM SuccessInPlaceHolds == Spec => []SuccessInPlace
  <1>1. PeerInv => SuccessInPlace
    BY DEF PeerInv, Reported, InPlace, PassedLast, SuccessInPlace, Loop!Returned
  <1> QED BY <1>1, PeerInvariant, PTL

\* The loop with a real executor takes the loop's steps and no other: the
\* safety part of KeepsLoop, so that what is proved of LoopController's steps
\* holds of the composition.
THEOREM LoopKept == Spec => Loop!Init /\ [][Loop!Next]_(Loop!vars)
  <1>1. Init => Loop!Init
    BY DEF Init
  <1>2. [Next]_vars => [Loop!Next]_(Loop!vars)
    <2> SUFFICES ASSUME [Next]_vars PROVE [Loop!Next]_(Loop!vars)
      OBVIOUS
    <2>1. CASE \E c \in Caps : RunTask(c) \/ RejectCap(c)
      BY <2>1 DEF RunTask, RejectCap, Loop!Next
    <2>2. CASE CallExecutor \/ ExecutorRuns \/ UNCHANGED vars
      BY <2>2 DEF CallExecutor, ExecutorRuns, vars, loop, Loop!vars, Loop!local,
                  Loop!logger, Loop!storage
    <2>3. CASE CallRaises \/ ExecutorReturns \/ LoopRuns
      BY <2>3 DEF CallRaises, ExecutorReturns, LoopRuns, Loop!Next, Loop!Step
    <2> QED BY <2>1, <2>2, <2>3 DEF Next, Step
  <1> QED BY <1>1, <1>2, PTL DEF Spec

-----------------------------------------------------------------------------
(***************************************************************************)
(* What is proved of the two parts alone holds of them together.  The      *)
(* proofs of the parts are instantiated with the composition's constants   *)
(* and variables; the lemmas below say that the instance they speak of is  *)
(* the part that the composition is made of.                               *)
(***************************************************************************)
LoopFacts == INSTANCE LoopLogProofs

ExecFacts == INSTANCE ExecutorProofs WITH
  pc <- exec_pc, plan <- exec_plan, Plans <- Plan, MaxCalls <- MaxLog

\* The loop's steps.
LEMMA SameLoopStep ==
  ASSUME Loop!Step
  PROVE  LoopFacts!Step
  <1>1. Loop!PlannerPlans <=> LoopFacts!PlannerPlans
    BY DEF Loop!PlannerPlans, LoopFacts!PlannerPlans, Loop!logger, LoopFacts!logger,
           Loop!storage, LoopFacts!storage
  <1>2. Loop!PlannerMalformed <=> LoopFacts!PlannerMalformed
    BY DEF Loop!PlannerMalformed, LoopFacts!PlannerMalformed, Loop!Emit,
           LoopFacts!Emit, Loop!EmitRaises, LoopFacts!EmitRaises, Loop!Raise,
           LoopFacts!Raise, Loop!local, LoopFacts!local, Loop!logger, LoopFacts!logger,
           Loop!storage, LoopFacts!storage, Loop!IterationEntry, LoopFacts!IterationEntry,
           Loop!Accepted, LoopFacts!Accepted, Loop!Exhausted, LoopFacts!Exhausted,
           Loop!NextIteration, LoopFacts!NextIteration, Loop!EndIteration,
           LoopFacts!EndIteration, Loop!Failure, LoopFacts!Failure, Loop!ErrorResult,
           LoopFacts!ErrorResult, Loop!Plain, LoopFacts!Plain, Loop!Hinted,
           LoopFacts!Hinted
  <1>3. Loop!ExecutorReturns <=> LoopFacts!ExecutorReturns
    BY DEF Loop!ExecutorReturns, LoopFacts!ExecutorReturns, Loop!logger,
           LoopFacts!logger, Loop!storage, LoopFacts!storage
  <1>4. Loop!ExecutorRaises <=> LoopFacts!ExecutorRaises
    BY DEF Loop!ExecutorRaises, LoopFacts!ExecutorRaises, Loop!Emit, LoopFacts!Emit,
           Loop!EmitRaises, LoopFacts!EmitRaises, Loop!Raise, LoopFacts!Raise, Loop!local,
           LoopFacts!local, Loop!logger, LoopFacts!logger, Loop!storage, LoopFacts!storage,
           Loop!IterationEntry, LoopFacts!IterationEntry, Loop!Accepted,
           LoopFacts!Accepted, Loop!Exhausted, LoopFacts!Exhausted, Loop!NextIteration,
           LoopFacts!NextIteration, Loop!EndIteration, LoopFacts!EndIteration,
           Loop!Failure, LoopFacts!Failure, Loop!ErrorResult, LoopFacts!ErrorResult,
           Loop!Plain, LoopFacts!Plain, Loop!Hinted, LoopFacts!Hinted
  <1>5. Loop!ReviewerDecides <=> LoopFacts!ReviewerDecides
    BY DEF Loop!ReviewerDecides, LoopFacts!ReviewerDecides, Loop!Emit,
           LoopFacts!Emit, Loop!EmitRaises, LoopFacts!EmitRaises, Loop!Raise,
           LoopFacts!Raise, Loop!local, LoopFacts!local, Loop!logger, LoopFacts!logger,
           Loop!storage, LoopFacts!storage, Loop!IterationEntry, LoopFacts!IterationEntry,
           Loop!Accepted, LoopFacts!Accepted, Loop!Exhausted, LoopFacts!Exhausted,
           Loop!NextIteration, LoopFacts!NextIteration, Loop!EndIteration,
           LoopFacts!EndIteration, Loop!Failure, LoopFacts!Failure, Loop!ErrorResult,
           LoopFacts!ErrorResult, Loop!Plain, LoopFacts!Plain, Loop!Hinted,
           LoopFacts!Hinted, Loop!Disagreed, LoopFacts!Disagreed
  <1>6. Loop!ReviewerMalformed <=> LoopFacts!ReviewerMalformed
    BY DEF Loop!ReviewerMalformed, LoopFacts!ReviewerMalformed, Loop!Emit,
           LoopFacts!Emit, Loop!EmitRaises, LoopFacts!EmitRaises, Loop!Raise,
           LoopFacts!Raise, Loop!local, LoopFacts!local, Loop!logger, LoopFacts!logger,
           Loop!storage, LoopFacts!storage, Loop!IterationEntry, LoopFacts!IterationEntry,
           Loop!Accepted, LoopFacts!Accepted, Loop!Exhausted, LoopFacts!Exhausted,
           Loop!NextIteration, LoopFacts!NextIteration, Loop!EndIteration,
           LoopFacts!EndIteration, Loop!Failure, LoopFacts!Failure, Loop!ErrorResult,
           LoopFacts!ErrorResult, Loop!Plain, LoopFacts!Plain, Loop!Hinted,
           LoopFacts!Hinted
  <1>7. Loop!AgentRaises <=> LoopFacts!AgentRaises
    BY DEF Loop!AgentRaises, LoopFacts!AgentRaises, Loop!Emit, LoopFacts!Emit,
           Loop!EmitRaises, LoopFacts!EmitRaises, Loop!Raise, LoopFacts!Raise, Loop!local,
           LoopFacts!local, Loop!logger, LoopFacts!logger, Loop!storage, LoopFacts!storage
  <1>8. Loop!FinishRun <=> LoopFacts!FinishRun
    BY DEF Loop!FinishRun, LoopFacts!FinishRun, Loop!Emit, LoopFacts!Emit,
           Loop!EmitRaises, LoopFacts!EmitRaises, Loop!Raise, LoopFacts!Raise, Loop!local,
           LoopFacts!local, Loop!logger, LoopFacts!logger, Loop!storage, LoopFacts!storage,
           Loop!EndEntry, LoopFacts!EndEntry, Loop!Return, LoopFacts!Return
  <1>9. Loop!SaveRun <=> LoopFacts!SaveRun
    BY DEF Loop!SaveRun, LoopFacts!SaveRun, Loop!Emit, LoopFacts!Emit,
           Loop!EmitRaises, LoopFacts!EmitRaises, Loop!Raise, LoopFacts!Raise, Loop!local,
           LoopFacts!local, Loop!logger, LoopFacts!logger, Loop!storage, LoopFacts!storage,
           Loop!Saved, LoopFacts!Saved, Loop!Return, LoopFacts!Return
  <1>10. Loop!SaveRunRaises <=> LoopFacts!SaveRunRaises
    BY DEF Loop!SaveRunRaises, LoopFacts!SaveRunRaises, Loop!Emit, LoopFacts!Emit,
           Loop!EmitRaises, LoopFacts!EmitRaises, Loop!Raise, LoopFacts!Raise, Loop!local,
           LoopFacts!local, Loop!logger, LoopFacts!logger, Loop!storage, LoopFacts!storage,
           Loop!Saved, LoopFacts!Saved
  <1> QED
    BY <1>1, <1>2, <1>3, <1>4, <1>5, <1>6, <1>7, <1>8, <1>9, <1>10
       DEF Loop!Step, LoopFacts!Step

LEMMA SameLoopNext ==
  ASSUME [Loop!Next]_(Loop!vars)
  PROVE  [LoopFacts!Next]_(LoopFacts!vars)
  <1>1. ASSUME NEW c \in Caps PROVE Loop!RunTask(c) <=> LoopFacts!RunTask(c)
    BY DEF Loop!RunTask, LoopFacts!RunTask, Loop!Emit, LoopFacts!Emit,
           Loop!EmitRaises, LoopFacts!EmitRaises, Loop!Raise, LoopFacts!Raise, Loop!local,
           LoopFacts!local, Loop!logger, LoopFacts!logger, Loop!storage, LoopFacts!storage,
           Loop!StartEntry, LoopFacts!StartEntry, Loop!FreshLocals, LoopFacts!FreshLocals,
           Loop!NewRunId, LoopFacts!NewRunId
  <1>2. ASSUME NEW c \in Caps PROVE Loop!RejectCap(c) <=> LoopFacts!RejectCap(c)
    BY DEF Loop!RejectCap, LoopFacts!RejectCap, Loop!local, LoopFacts!local,
           Loop!logger, LoopFacts!logger, Loop!storage, LoopFacts!storage
  <1>3. CASE \E c \in Caps : Loop!RunTask(c) \/ Loop!RejectCap(c)
    BY <1>1, <1>2, <1>3 DEF LoopFacts!Next
  <1>4. CASE Loop!Step
    BY <1>4, SameLoopStep DEF LoopFacts!Next
  <1>5. CASE UNCHANGED Loop!vars
    BY <1>5 DEF Loop!vars, LoopFacts!vars, Loop!local, LoopFacts!local, Loop!logger,
           LoopFacts!logger, Loop!storage, LoopFacts!storage
  <1> QED BY <1>3, <1>4, <1>5 DEF Loop!Next

\* And its properties.
LEMMA SameLoopProperties ==
  ASSUME LoopFacts!CapExact, LoopFacts!FeedbackFresh, LoopFacts!LogInOrder,
         LoopFacts!TraceComplete, LoopFacts!SavedRuns
  PROVE  /\ Loop!CapExact /\ Loop!FeedbackFresh /\ Loop!LogInOrder
         /\ Loop!TraceComplete /\ Loop!SavedRuns
  <1>1. Loop!CapExact
    BY DEF Loop!CapExact, LoopFacts!CapExact, Loop!LastIteration,
           LoopFacts!LastIteration
  <1>2. Loop!FeedbackFresh
    BY DEF Loop!FeedbackFresh, LoopFacts!FeedbackFresh, Loop!LastIteration,
           LoopFacts!LastIteration
  <1>3. Loop!LogInOrder
    BY DEF Loop!LogInOrder, LoopFacts!LogInOrder, Loop!InOrder, LoopFacts!InOrder
  <1>4. Loop!TraceComplete
    BY DEF Loop!TraceComplete, LoopFacts!TraceComplete, Loop!EndsWith,
           LoopFacts!EndsWith, Loop!Trace, LoopFacts!Trace, Loop!StartEntry,
           LoopFacts!StartEntry, Loop!IterationEntry, LoopFacts!IterationEntry,
           Loop!EndEntry, LoopFacts!EndEntry
  <1>5. Loop!SavedRuns
    BY DEF Loop!SavedRuns, LoopFacts!SavedRuns, Loop!Returned, LoopFacts!Returned,
           Loop!Saved, LoopFacts!Saved, Loop!EndEntry, LoopFacts!EndEntry
  <1> QED BY <1>1, <1>2, <1>3, <1>4, <1>5

\* The composition's constants are as the loop assumes them to be.
LEMMA LoopAssumed ==
  /\ None \notin LoopFacts!ExecutionResult /\ None \notin LoopFacts!RunResult
  /\ Result \subseteq LoopFacts!ExecutionResult
  /\ \A r \in Result : r.overall_status # "error"
  /\ Caps \subseteq Int /\ MaxRuns \in Nat /\ HasStorage \in BOOLEAN
  /\ None \notin Plan
  <1>1. None \notin LoopFacts!ExecutionResult
    BY PartsAssumption DEF Loop!ExecutionResult, LoopFacts!ExecutionResult
  <1>2. None \notin LoopFacts!RunResult
    BY PartsAssumption
       DEF Loop!RunResult, Loop!Feedback, Loop!Reason,
           LoopFacts!RunResult, LoopFacts!Feedback, LoopFacts!Reason
  <1>3. /\ Result \subseteq LoopFacts!ExecutionResult
        /\ \A r \in Result : r.overall_status # "error"
    BY DEF Result, LoopFacts!ExecutionResult
  <1> QED BY <1>1, <1>2, <1>3, PeerLoopAssumption, PartsAssumption

LEMMA LoopWhole == Spec => []LoopFacts!WholeInv
  <1>1. Loop!Init => LoopFacts!WholeInv
    <2>1. Loop!Init => LoopFacts!Init
      BY DEF Loop!Init, LoopFacts!Init
    <2>2. LoopFacts!Init => LoopFacts!WholeInv
      BY LoopAssumed, LoopFacts!WholeInitially
    <2> QED BY <2>1, <2>2
  <1>2. LoopFacts!WholeInv /\ [Loop!Next]_(Loop!vars) => LoopFacts!WholeInv'
    <2>1. LoopFacts!WholeInv /\ [LoopFacts!Next]_(LoopFacts!vars) => LoopFacts!WholeInv'
      BY LoopAssumed, LoopFacts!WholeInductive
    <2> QED BY <2>1, SameLoopNext
  <1> QED BY <1>1, <1>2, LoopKept, PTL

\* With a real executor too, a run makes no more attempts than its cap, feeds
\* each rejection back, leaves its whole trace in order, and is saved.
THEOREM LoopHolds ==
  Spec => [](/\ Loop!CapExact /\ Loop!FeedbackFresh /\ Loop!LogInOrder
             /\ Loop!TraceComplete /\ Loop!SavedRuns)
  <1>1. LoopFacts!WholeInv => /\ Loop!CapExact /\ Loop!FeedbackFresh /\ Loop!LogInOrder
                              /\ Loop!TraceComplete /\ Loop!SavedRuns
    <2> SUFFICES ASSUME LoopFacts!WholeInv
                 PROVE  /\ Loop!CapExact /\ Loop!FeedbackFresh /\ Loop!LogInOrder
                        /\ Loop!TraceComplete /\ Loop!SavedRuns
      OBVIOUS
    <2>1. LoopFacts!WholeInv => /\ LoopFacts!CapExact /\ LoopFacts!FeedbackFresh
                                /\ LoopFacts!LogInOrder /\ LoopFacts!TraceComplete
                                /\ LoopFacts!SavedRuns
      BY LoopAssumed, LoopFacts!WholeMeans
    <2> QED BY <2>1, SameLoopProperties
  <1> QED BY <1>1, LoopWhole, PTL

-----------------------------------------------------------------------------
\* The executor's steps.
LEMMA SameExecutorStep ==
  ASSUME Exec!Attempt \/ Exec!Return
  PROVE  ExecFacts!Progress
  <1>1. Exec!Retry <=> ExecFacts!Retry
    BY DEF Exec!Retry, ExecFacts!Retry, Exec!CanRetry, ExecFacts!CanRetry,
           Exec!InStep, ExecFacts!InStep, Exec!control, ExecFacts!control, Exec!disk,
           ExecFacts!disk
  <1>2. Exec!RetriesExhausted <=> ExecFacts!RetriesExhausted
    BY DEF Exec!RetriesExhausted, ExecFacts!RetriesExhausted, Exec!CanRetry,
           ExecFacts!CanRetry, Exec!Record, ExecFacts!Record, Exec!Step, ExecFacts!Step,
           Exec!Attempts, ExecFacts!Attempts, Exec!EndStep, ExecFacts!EndStep,
           Exec!BreakOn, ExecFacts!BreakOn, Exec!InStep, ExecFacts!InStep, Exec!control,
           ExecFacts!control, Exec!disk, ExecFacts!disk, Exec!outcome, ExecFacts!outcome
  <1>3. Exec!InjectedFault <=> ExecFacts!InjectedFault
    BY DEF Exec!InjectedFault, ExecFacts!InjectedFault, Exec!Record,
           ExecFacts!Record, Exec!Step, ExecFacts!Step, Exec!Attempts, ExecFacts!Attempts,
           Exec!EndStep, ExecFacts!EndStep, Exec!BreakOn, ExecFacts!BreakOn, Exec!InStep,
           ExecFacts!InStep, Exec!control, ExecFacts!control, Exec!disk, ExecFacts!disk,
           Exec!outcome, ExecFacts!outcome
  <1>4. Exec!Inspect <=> ExecFacts!Inspect
    BY DEF Exec!Inspect, ExecFacts!Inspect, Exec!Record, ExecFacts!Record,
           Exec!Step, ExecFacts!Step, Exec!Attempts, ExecFacts!Attempts, Exec!EndStep,
           ExecFacts!EndStep, Exec!BreakOn, ExecFacts!BreakOn, Exec!InStep,
           ExecFacts!InStep, Exec!control, ExecFacts!control, Exec!disk, ExecFacts!disk,
           Exec!outcome, ExecFacts!outcome
  <1>5. Exec!WriteFile <=> ExecFacts!WriteFile
    BY DEF Exec!WriteFile, ExecFacts!WriteFile, Exec!Written, ExecFacts!Written,
           Exec!Record, ExecFacts!Record, Exec!Step, ExecFacts!Step, Exec!Attempts,
           ExecFacts!Attempts, Exec!EndStep, ExecFacts!EndStep, Exec!BreakOn,
           ExecFacts!BreakOn, Exec!InStep, ExecFacts!InStep, Exec!control,
           ExecFacts!control, Exec!disk, ExecFacts!disk, Exec!outcome, ExecFacts!outcome
  <1>6. Exec!RunTests <=> ExecFacts!RunTests
    BY DEF Exec!RunTests, ExecFacts!RunTests, Exec!Testable, ExecFacts!Testable,
           Exec!Loadable, ExecFacts!Loadable, Exec!Verdict, ExecFacts!Verdict, Exec!Record,
           ExecFacts!Record, Exec!Step, ExecFacts!Step, Exec!Attempts, ExecFacts!Attempts,
           Exec!EndStep, ExecFacts!EndStep, Exec!BreakOn, ExecFacts!BreakOn, Exec!InStep,
           ExecFacts!InStep, Exec!control, ExecFacts!control, Exec!disk, ExecFacts!disk,
           Exec!outcome, ExecFacts!outcome
  <1>7. Exec!RunTestsHangs <=> ExecFacts!RunTestsHangs
    BY DEF Exec!RunTestsHangs, ExecFacts!RunTestsHangs, Exec!Testable,
           ExecFacts!Testable, Exec!Loadable, ExecFacts!Loadable, Exec!Record,
           ExecFacts!Record, Exec!Step, ExecFacts!Step, Exec!Attempts, ExecFacts!Attempts,
           Exec!EndStep, ExecFacts!EndStep, Exec!BreakOn, ExecFacts!BreakOn, Exec!InStep,
           ExecFacts!InStep, Exec!control, ExecFacts!control, Exec!disk, ExecFacts!disk,
           Exec!outcome, ExecFacts!outcome
  <1>8. Exec!ToolRaises <=> ExecFacts!ToolRaises
    BY DEF Exec!ToolRaises, ExecFacts!ToolRaises, Exec!Record, ExecFacts!Record,
           Exec!Step, ExecFacts!Step, Exec!Attempts, ExecFacts!Attempts, Exec!EndStep,
           ExecFacts!EndStep, Exec!BreakOn, ExecFacts!BreakOn, Exec!InStep,
           ExecFacts!InStep, Exec!control, ExecFacts!control, Exec!disk, ExecFacts!disk,
           Exec!outcome, ExecFacts!outcome
  <1>9. Exec!Return <=> ExecFacts!Return
    BY DEF Exec!Return, ExecFacts!Return, Exec!LoopDone, ExecFacts!LoopDone,
           Exec!disk, ExecFacts!disk, Exec!outcome, ExecFacts!outcome
  <1> QED
    BY <1>1, <1>2, <1>3, <1>4, <1>5, <1>6, <1>7, <1>8, <1>9
       DEF Exec!Attempt, ExecFacts!Attempt, ExecFacts!Progress

LEMMA SameExecutorCall ==
  ASSUME NEW p \in Plan, Exec!Execute(p) \/ Exec!ExecuteRaises(p)
  PROVE  ExecFacts!Next
  <1>1. Exec!Execute(p) <=> ExecFacts!Execute(p)
    BY DEF Exec!Execute, ExecFacts!Execute, Exec!Materialized,
           ExecFacts!Materialized, Exec!ResetLocals, ExecFacts!ResetLocals, Exec!Untested,
           ExecFacts!Untested
  <1>2. Exec!ExecuteRaises(p) <=> ExecFacts!ExecuteRaises(p)
    BY DEF Exec!ExecuteRaises, ExecFacts!ExecuteRaises, Exec!Materialized,
           ExecFacts!Materialized, Exec!outcome, ExecFacts!outcome
  <1> QED BY <1>1, <1>2 DEF ExecFacts!Next

\* Each run has an executor of its own; in between it takes its own steps only.
LEMMA ExecutorKept ==
  ASSUME PeerInv, [Next]_vars
  PROVE  [ExecFacts!Next]_(ExecFacts!vars) \/ ExecFacts!Init'
  <1>1. CASE UNCHANGED exec
    BY <1>1 DEF exec, ExecFacts!vars, ExecFacts!control, ExecFacts!disk,
           ExecFacts!outcome
  <1>2. CASE FreshExecutor
    BY <1>2 DEF FreshExecutor, Exec!ResetLocals, Exec!Untested, ExecFacts!Init,
           ExecFacts!Untested
  <1>3. CASE CallExecutor \/ CallRaises
    <2>1. pc = "execute" /\ (Exec!Execute(plan) \/ Exec!ExecuteRaises(plan))
      BY <1>3 DEF CallExecutor, CallRaises, Loop!ExecutorRaises
    <2>2. plan \in Plan
      BY <2>1 DEF PeerInv, Shapes, Phases
    <2> QED BY <2>1, <2>2, SameExecutorCall
  <1>4. CASE ExecutorRuns \/ ExecutorReturns
    BY <1>4, SameExecutorStep DEF ExecutorRuns, ExecutorReturns, ExecFacts!Next
  <1> QED BY <1>1, <1>2, <1>3, <1>4
          DEF Next, Step, RunTask, RejectCap, LoopRuns, vars

LEMMA ExecutorAssumed ==
  /\ SolutionFile \in File /\ TestFile \in File /\ SolutionFile # TestFile
  /\ {StarterCode, TestCode, Empty} \subseteq Content
  /\ None \notin Content
  /\ {None, Outside, Root} \cap File = {}
  /\ SizeOf \in [Content -> Nat]
  /\ Faults \subseteq {"transient", "timeout", "error"}
  /\ Plan \subseteq Seq(ExecFacts!PlanStep)
  /\ MaxRetries \in Nat
  /\ MaxLog \in Nat
  BY PeerLoopAssumption, PartsAssumption
     DEF Exec!PlanStep, Exec!VALID_TOOLS, ExecFacts!PlanStep, ExecFacts!VALID_TOOLS

LEMMA ExecutorWhole == Spec => []ExecFacts!IInv
  <1>1. Init => ExecFacts!Init
    BY DEF Init, Exec!Init, Exec!Untested, ExecFacts!Init, ExecFacts!Untested
  <1>2. ExecFacts!Init => ExecFacts!IInv
    BY ExecutorAssumed, ExecFacts!Initially
  <1>3. ExecFacts!IInv /\ [ExecFacts!Next]_(ExecFacts!vars) => ExecFacts!IInv'
    BY ExecutorAssumed, ExecFacts!Inductive
  <1>4. PeerInv /\ [Next]_vars => [ExecFacts!Next]_(ExecFacts!vars) \/ ExecFacts!Init'
    BY ExecutorKept
  <1> QED BY <1>1, <1>2, <1>3, <1>4, PeerInvariant, PTL DEF Spec

\* In every call that the loop makes, on the directory that all attempts of
\* the run share, the executor stops at the first failure, explains its
\* status, knows a verdict only of its own test run, and leaves its own files.
THEOREM ExecutorHolds ==
  Spec => [](/\ Exec!FailFast /\ Exec!StatusExplained /\ Exec!KnownVerdict
             /\ Exec!EvidenceFresh /\ Exec!OwnFiles /\ Exec!RetryBudget)
  <1>1. ExecFacts!IInv => /\ Exec!FailFast /\ Exec!StatusExplained /\ Exec!KnownVerdict
                          /\ Exec!EvidenceFresh /\ Exec!OwnFiles /\ Exec!RetryBudget
    <2> SUFFICES ASSUME ExecFacts!IInv
                 PROVE  /\ Exec!FailFast /\ Exec!StatusExplained /\ Exec!KnownVerdict
                        /\ Exec!EvidenceFresh /\ Exec!OwnFiles /\ Exec!RetryBudget
      OBVIOUS
    <2>1. ExecFacts!IInv => /\ ExecFacts!FailFast /\ ExecFacts!StatusExplained
                            /\ ExecFacts!KnownVerdict /\ ExecFacts!EvidenceFresh
                            /\ ExecFacts!OwnFiles /\ ExecFacts!RetryBudget
      BY ExecutorAssumed, ExecFacts!InvMeans
    <2>2. Exec!FailFast
      BY <2>1 DEF Exec!FailFast, ExecFacts!FailFast, Exec!InCall, ExecFacts!InCall
    <2>3. Exec!StatusExplained
      BY <2>1 DEF Exec!StatusExplained, ExecFacts!StatusExplained,
             Exec!overall_status, ExecFacts!overall_status
    <2>4. Exec!KnownVerdict
      BY <2>1 DEF Exec!KnownVerdict, ExecFacts!KnownVerdict, Exec!InCall,
             ExecFacts!InCall
    <2>5. Exec!EvidenceFresh
      BY <2>1 DEF Exec!EvidenceFresh, ExecFacts!EvidenceFresh, Exec!overall_status,
             ExecFacts!overall_status
    <2>6. Exec!OwnFiles
      BY <2>1 DEF Exec!OwnFiles, ExecFacts!OwnFiles, Exec!InCall, ExecFacts!InCall,
             Exec!Original, ExecFacts!Original, Exec!WrittenBy, ExecFacts!WrittenBy
    <2>7. Exec!RetryBudget
      BY <2>1 DEF Exec!RetryBudget, ExecFacts!RetryBudget, Exec!InCall,
             ExecFacts!InCall
    <2> QED BY <2>2, <2>3, <2>4, <2>5, <2>6, <2>7
  <1> QED BY <1>1, ExecutorWhole, PTL

\* The loop with its executor keeps the contract of run_task.
THEOREM ContractHolds ==
  Spec => Loop!Contract!Init /\ [][Loop!Contract!Next]_(Loop!Contract!vars)
  <1>1. Loop!Init => Loop!Contract!Init
    BY DEF Loop!Init, Loop!Contract!Init
  <1>2. ASSUME LoopFacts!WholeInv, LoopFacts!WholeInv', [Loop!Next]_(Loop!vars)
        PROVE  [Loop!Contract!Next]_(Loop!Contract!vars)
    <2>1. LoopFacts!IInv /\ LoopFacts!IInv'
      BY <1>2 DEF LoopFacts!WholeInv
    <2>2. [LoopFacts!Next]_(LoopFacts!vars)
      BY <1>2, SameLoopNext
    <2>3. [LoopFacts!Contract!Next]_(LoopFacts!Contract!vars)
      BY <2>1, <2>2, LoopAssumed, LoopFacts!StepImplements
    <2> QED
      BY <2>3 DEF Loop!Contract!Next, LoopFacts!Contract!Next, Loop!Contract!vars,
             LoopFacts!Contract!vars, Loop!Contract!Start, LoopFacts!Contract!Start,
             Loop!Contract!Refuse, LoopFacts!Contract!Refuse, Loop!Contract!Attempt,
             LoopFacts!Contract!Attempt, Loop!Contract!Report, LoopFacts!Contract!Report,
             Loop!LastIteration, LoopFacts!LastIteration
  <1> QED BY <1>1, <1>2, LoopKept, LoopWhole, PTL

-----------------------------------------------------------------------------
(***************************************************************************)
(* Why a run with its executor ends.  No bound can be given before the     *)
(* plans are known, but every step lowers one of three numbers and keeps   *)
(* those before it: what is left of the loop, whether the executor is yet  *)
(* to be called, and what is left of its call.                             *)
(***************************************************************************)
Uncalled == IF exec_pc = "running" THEN 0 ELSE 1

Lower ==
  \/ LoopFacts!Left' < LoopFacts!Left
  \/ /\ LoopFacts!Left' = LoopFacts!Left
     /\ \/ Uncalled' < Uncalled
        \/ Uncalled' = Uncalled /\ ExecFacts!Left' < ExecFacts!Left

\* Each step of a run lowers what is left of it, so that planner, executor and
\* reviewer take only finitely many, whatever the plans, the faults and the
\* verdicts are.
THEOREM RunDescends ==
  Spec => /\ [](LoopFacts!Left \in Nat /\ Uncalled \in Nat /\ ExecFacts!Left \in Nat)
          /\ [][Step => Lower]_vars
  <1>1. LoopFacts!WholeInv /\ ExecFacts!IInv
        => LoopFacts!Left \in Nat /\ Uncalled \in Nat /\ ExecFacts!Left \in Nat
    <2>1. LoopFacts!IInv => LoopFacts!Left \in Nat
      BY LoopAssumed, LoopFacts!LeftIsNat
    <2>2. ExecFacts!IInv => ExecFacts!Left \in Nat
      BY ExecutorAssumed, ExecFacts!LeftIs
    <2> QED BY <2>1, <2>2 DEF LoopFacts!WholeInv, Uncalled
  <1>2. ASSUME LoopFacts!WholeInv, ExecFacts!IInv, ExecFacts!IInv', Step
        PROVE  Lower
    <2>1. LoopFacts!IInv
      BY <1>2 DEF LoopFacts!WholeInv
    <2>2. CASE CallExecutor
      <3>1. exec_pc # "running" /\ exec_pc' = "running"
        BY <2>2 DEF CallExecutor, Exec!Execute
      <3>2. LoopFacts!Left' = LoopFacts!Left
        BY <2>2 DEF CallExecutor, loop, LoopFacts!Left
      <3> QED BY <3>1, <3>2 DEF Lower, Uncalled
    <2>3. CASE ExecutorRuns
      <3>1. ExecFacts!Progress
        BY <2>3, SameExecutorStep DEF ExecutorRuns
      <3>2. ExecFacts!Left' < ExecFacts!Left
        BY <1>2, <3>1, ExecutorAssumed, ExecFacts!ProgressFalls
      <3>3. exec_pc' = exec_pc
        BY <2>3 DEF ExecutorRuns, Exec!Attempt, Exec!Retry, Exec!RetriesExhausted,
                    Exec!InjectedFault, Exec!Inspect, Exec!WriteFile, Exec!RunTests,
                    Exec!RunTestsHangs, Exec!ToolRaises, Exec!control
      <3>4. LoopFacts!Left' = LoopFacts!Left
        BY <2>3 DEF ExecutorRuns, loop, LoopFacts!Left
      <3> QED BY <3>2, <3>3, <3>4 DEF Lower, Uncalled
    <2>4. CASE CallRaises \/ ExecutorReturns \/ LoopRuns
      <3>1. Loop!Step
        BY <2>4 DEF CallRaises, ExecutorReturns, LoopRuns, Loop!Step
      <3>2. LoopFacts!Step
        BY <3>1, SameLoopStep
      <3>3. LoopFacts!Left' < LoopFacts!Left
        BY <2>1, <3>2, LoopAssumed, LoopFacts!StepFalls
      <3> QED BY <3>3 DEF Lower
    <2> QED BY <1>2, <2>2, <2>3, <2>4 DEF Step
  <1> QED BY <1>1, <1>2, LoopWhole, ExecutorWhole, PTL DEF Spec

-----------------------------------------------------------------------------
(***************************************************************************)
(* EvidenceFresh is about the executor when it has returned.  What follows *)
(* is about the loop: what the reviewer is shown, and what is recorded.    *)
(***************************************************************************)
\* A success of a plan that ends with run_tests comes with a verdict.
Judged(p, r) ==
  /\ r.overall_status = "success"
  /\ p # <<>> /\ p[Len(p)].tool = "run_tests"
  => r.tests_passed # "None"

JudgedPast ==
  \A k \in DOMAIN iterations :
    iterations[k].execution_result # None =>
      Judged(iterations[k].plan, iterations[k].execution_result)

SuccessJudged ==
  /\ pc = "review" => Judged(plan, execution_result)
  /\ JudgedPast

LEMMA EndJudged ==
  ASSUME Shapes, JudgedPast, NEW it, NEW fb, Loop!EndIteration(it, fb),
         it.execution_result # None => Judged(it.plan, it.execution_result)
  PROVE  SuccessJudged'
  <1> DEFINE n == Len(iterations)
  <1>1. /\ iterations' = Append(iterations, it)
        /\ pc' \in {"plan", "finish", "idle"}
    BY DEF Loop!EndIteration, Loop!NextIteration, Loop!Raise
  <1>2. /\ n \in Nat /\ DOMAIN iterations = 1..n /\ DOMAIN iterations' = 1..(n + 1)
        /\ iterations'[n + 1] = it
        /\ \A k \in 1..n : iterations'[k] = iterations[k]
    BY <1>1 DEF Shapes
  <1> HIDE DEF n
  <1>3. \A k \in 1..(n + 1) : k \in 1..n \/ k = n + 1
    BY <1>2
  <1>4. JudgedPast'
    BY <1>2, <1>3 DEF JudgedPast, Judged
  <1> QED BY <1>1, <1>4 DEF SuccessJudged

LEMMA JudgedInductive ==
  ASSUME PeerInv, ExecFacts!IInv', SuccessJudged, [Next]_vars
  PROVE  SuccessJudged'
  <1>1. Shapes /\ Phases /\ JudgedPast
    BY DEF PeerInv, SuccessJudged
  <1>2. CASE \E c \in Caps : RunTask(c)
    <2>1. iterations' = <<>> /\ pc' # "review"
      BY <1>2 DEF RunTask, Loop!RunTask, Loop!FreshLocals, Loop!Raise
    <2> QED BY <2>1 DEF SuccessJudged, JudgedPast
  <1>3. CASE UNCHANGED <<pc, iterations, plan, execution_result>>
    BY <1>3 DEF SuccessJudged, JudgedPast, Judged
  <1>4. CASE iterations' = iterations /\ pc' # "review"
    BY <1>1, <1>4 DEF SuccessJudged, JudgedPast, Judged
  <1>5. CASE CallRaises
    <2>1. PICK t \in Text :
            Loop!EndIteration(Loop!Failure(plan, Loop!ErrorResult,
                                           [source |-> "crash", text |-> t]),
                              Loop!Plain([source |-> "crash", text |-> t]))
      BY <1>5 DEF CallRaises, Loop!ExecutorRaises
    <2> DEFINE it == Loop!Failure(plan, Loop!ErrorResult, [source |-> "crash", text |-> t])
    <2>2. Judged(it.plan, it.execution_result)
      BY DEF Judged, Loop!Failure, Loop!ErrorResult
    <2> HIDE DEF it
    <2>3. Loop!EndIteration(it, Loop!Plain([source |-> "crash", text |-> t]))
      BY <2>1 DEF it
    <2> QED BY <1>1, <2>2, <2>3, EndJudged
  <1>6. CASE ExecutorReturns
    <2>1. /\ iterations' = iterations /\ plan' = plan /\ execution_result' = ExecutionResult
          /\ exec_pc = "running" /\ exec_pc' = "returned" /\ pc = "execute"
          /\ UNCHANGED <<exec_plan, tests_passed, broke>>
      BY <1>6 DEF ExecutorReturns, Loop!ExecutorReturns, Exec!Return, Exec!outcome
    <2>2. exec_plan' = plan
      BY <1>1, <2>1 DEF Phases
    <2>3. ExecFacts!EvidenceFresh'
      <3>1. ExecFacts!IInv => ExecFacts!EvidenceFresh
        BY ExecutorAssumed, ExecFacts!InvMeans
      <3>2. (ExecFacts!IInv => ExecFacts!EvidenceFresh)'
        BY ExecutorAssumed, ExecFacts!InvMeans, PTL
      <3> QED BY <3>2
    <2>4. /\ ExecutionResult.tests_passed = tests_passed
          /\ ExecutionResult.overall_status = "success" =>
               ExecFacts!overall_status' = "success"
      BY <2>1 DEF ExecutionResult, Exec!overall_status, ExecFacts!overall_status
    <2>5. Judged(plan, ExecutionResult)
      BY <2>1, <2>2, <2>3, <2>4 DEF Judged, ExecFacts!EvidenceFresh
    <2> QED BY <1>1, <2>1, <2>5 DEF SuccessJudged, JudgedPast, Judged
  <1>7. CASE LoopRuns
    <2>1. /\ pc = "plan" => plan = None /\ execution_result = None
          /\ pc = "review" => Judged(plan, execution_result)
      BY <1>1 DEF Phases, SuccessJudged
    <2>2. CASE Loop!PlannerPlans \/ Loop!AgentRaises \/ Loop!FinishRun \/ Loop!SaveRun
               \/ Loop!SaveRunRaises
      <3>1. iterations' = iterations /\ pc' # "review"
        BY <2>2 DEF Loop!PlannerPlans, Loop!AgentRaises, Loop!FinishRun, Loop!SaveRun,
                    Loop!SaveRunRaises, Loop!Raise, Loop!Return, Loop!local
      <3> QED BY <1>4, <3>1
    <2>3. CASE Loop!PlannerMalformed \/ Loop!ReviewerDecides \/ Loop!ReviewerMalformed
      <3>1. PICK it, fb : /\ Loop!EndIteration(it, fb)
                          /\ it.execution_result # None =>
                               pc = "review" /\ it.plan = plan
                                             /\ it.execution_result = execution_result
        <4>1. CASE Loop!PlannerMalformed
          <5>1. PICK t \in Text :
                  Loop!EndIteration(Loop!Failure(None, None, [source |-> "bad plan", text |-> t]),
                                    Loop!Hinted([source |-> "bad plan", text |-> t]))
            BY <4>1 DEF Loop!PlannerMalformed
          <5> DEFINE it == Loop!Failure(None, None, [source |-> "bad plan", text |-> t])
          <5>2. it.execution_result = None
            BY <4>1 DEF Loop!Failure, Loop!PlannerMalformed
          <5> HIDE DEF it
          <5>3. Loop!EndIteration(it, Loop!Hinted([source |-> "bad plan", text |-> t]))
            BY <5>1 DEF it
          <5> QED BY <5>2, <5>3
        <4>2. CASE Loop!ReviewerDecides
          BY <4>2 DEF Loop!ReviewerDecides
        <4>3. CASE Loop!ReviewerMalformed
          <5>1. PICK t \in Text :
                  Loop!EndIteration(Loop!Failure(plan, execution_result, [source |-> "bad review", text |-> t]),
                                    Loop!Plain([source |-> "bad review", text |-> t]))
            BY <4>3 DEF Loop!ReviewerMalformed
          <5> DEFINE it == Loop!Failure(plan, execution_result, [source |-> "bad review", text |-> t])
          <5>2. /\ pc = "review" /\ it.plan = plan
                /\ it.execution_result = execution_result
            BY <4>3 DEF Loop!Failure, Loop!ReviewerMalformed
          <5> HIDE DEF it
          <5>3. Loop!EndIteration(it, Loop!Plain([source |-> "bad review", text |-> t]))
            BY <5>1 DEF it
          <5> QED BY <5>2, <5>3
        <4> QED BY <2>3, <4>1, <4>2, <4>3
      <3>2. it.execution_result # None => Judged(it.plan, it.execution_result)
        BY <2>1, <3>1
      <3> QED BY <1>1, <3>1, <3>2, EndJudged
    <2> QED
      BY <1>7, <2>2, <2>3 DEF LoopRuns, Loop!Step, Loop!ExecutorReturns, Loop!ExecutorRaises
  <1> QED
    BY <1>2, <1>3, <1>5, <1>6, <1>7
       DEF Next, Step, RejectCap, Loop!RejectCap, Loop!local, CallExecutor, ExecutorRuns,
           vars, loop

\* The reviewer never decides on a successful execution of a plan that ends
\* with run_tests without knowing how the tests ended, and none is recorded
\* without it (loop_controller.py:88-117, executor.py:72-118).
THEOREM SuccessJudgedHolds == Spec => []SuccessJudged
  <1>1. Init => SuccessJudged
    BY DEF Init, Loop!Init, SuccessJudged, JudgedPast
  <1>2. PeerInv /\ ExecFacts!IInv' /\ SuccessJudged /\ [Next]_vars => SuccessJudged'
    BY JudgedInductive
  <1> QED BY <1>1, <1>2, PeerInvariant, ExecutorWhole, PTL DEF Spec
=============================================================================
