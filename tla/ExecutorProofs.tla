--------------------------- MODULE ExecutorProofs ---------------------------
(***************************************************************************)
(* Proofs of the safety properties of Executor, for every set of files,    *)
(* contents and plans, every retry budget and every number of calls.       *)
(***************************************************************************)
EXTENDS Executor, TLAPS

\* A step that is in progress is a step of the plan.
LEMMA StepIsPlanStep ==
  ASSUME TypeOK, InStep
  PROVE  /\ Step \in PlanStep
         /\ Len(step_results) + 1 \in 1..Len(plan)
  BY DEF TypeOK, InStep, Step

\* Whatever pytest loads is a content, or nothing.
LEMMA LoadableType ==
  ASSUME TypeOK
  PROVE  Loadable \subseteq Content \cup {None}
  BY ExecutorAssumption DEF TypeOK, Loadable

\* Recording a step keeps the locals of the call in their types.
LEMMA EndStepType ==
  ASSUME TypeOK, InStep,
         NEW status \in {"success", "failed", "timeout"}, NEW met \in Met,
         EndStep(status, met)
  PROVE  /\ step_results' \in Seq(StepResult)
         /\ made' \in Seq([attempts : Nat, met : Met])
         /\ attempt' \in 1..(MaxRetries + 1)
         /\ broke' \in {"no", "timeout", "error"}
  <1>1. Step.tool \in VALID_TOOLS \cup {"bogus"}
    BY StepIsPlanStep DEF PlanStep
  <1>2. Attempts(status) \in Nat /\ attempt \in Nat
    BY ExecutorAssumption DEF TypeOK, Attempts
  <1>3. [tool |-> Step.tool, status |-> status, attempts |-> Attempts(status)]
          \in StepResult
    BY <1>1, <1>2 DEF StepResult
  <1>4. [attempts |-> attempt, met |-> met] \in [attempts : Nat, met : Met]
    BY <1>2
  <1>5. step_results' \in Seq(StepResult)
    BY <1>3 DEF TypeOK, EndStep, Record
  <1>6. made' \in Seq([attempts : Nat, met : Met])
    BY <1>4 DEF TypeOK, EndStep, Record
  <1>7. attempt' \in 1..(MaxRetries + 1)
    BY ExecutorAssumption DEF EndStep, Record
  <1>8. broke' \in {"no", "timeout", "error"}
    BY DEF EndStep, BreakOn
  <1> QED BY <1>5, <1>6, <1>7, <1>8

\* A step keeps every type.
LEMMA TypeInductive == TypeOK /\ [Next]_vars => TypeOK'
  <1> USE ExecutorAssumption
  <1> SUFFICES ASSUME TypeOK, [Next]_vars PROVE TypeOK'
    OBVIOUS
  <1>1. ASSUME NEW p \in Plans, Execute(p) PROVE TypeOK'
    <2>1. /\ pc' = "running" /\ calls' \in 0..MaxCalls /\ plan' \in Seq(PlanStep)
          /\ pyc' \in Content \cup {None}
      BY <1>1 DEF TypeOK, Execute
    <2>2. sandbox' \in [File -> Content \cup {None}]
      BY <1>1 DEF TypeOK, Execute, Materialized
    <2>3. /\ step_results' = <<>> /\ made' = <<>> /\ attempt' = 1
          /\ tests_passed' = "None" /\ broke' = "no" /\ tested' = Untested
      BY <1>1 DEF Execute, ResetLocals
    <2>4. tested' \in [files : [File -> Content \cup {None}], code : Content \cup {None}]
      BY <2>3 DEF Untested
    <2>5. /\ step_results' \in Seq(StepResult)
          /\ made' \in Seq([attempts : Nat, met : Met])
      BY <2>3
    <2>6. /\ attempt' \in 1..(MaxRetries + 1) /\ tests_passed' \in {"None", "True", "False"}
          /\ broke' \in {"no", "timeout", "error"}
      BY <2>3
    <2> QED BY <2>1, <2>2, <2>3, <2>4, <2>5, <2>6 DEF TypeOK
  <1>2. ASSUME NEW p \in Plans, ExecuteRaises(p) PROVE TypeOK'
    <2>1. ASSUME NEW code \in Content
          PROVE  [sandbox EXCEPT ![SolutionFile] = code] \in [File -> Content \cup {None}]
      BY DEF TypeOK
    <2>2. [Materialized(sandbox) EXCEPT ![TestFile] = Empty] \in [File -> Content \cup {None}]
      <3>1. Materialized(sandbox) \in [File -> Content \cup {None}]
        BY DEF TypeOK, Materialized
      <3> QED BY <3>1
    <2>3. sandbox' \in [File -> Content \cup {None}]
      <3>1. CASE UNCHANGED sandbox
        BY <3>1 DEF TypeOK
      <3>2. CASE \E code \in {StarterCode, Empty} :
                   sandbox' = [sandbox EXCEPT ![SolutionFile] = code]
        BY <3>2, <2>1
      <3> QED BY <1>2, <2>2, <3>1, <3>2 DEF ExecuteRaises
    <2>4. pc' = "crashed" /\ calls' \in 0..MaxCalls /\ plan' \in Seq(PlanStep)
      BY <1>2 DEF TypeOK, ExecuteRaises
    <2>5. UNCHANGED <<pyc, step_results, attempt, tests_passed, broke, tested, made>>
      BY <1>2 DEF ExecuteRaises, outcome
    <2> QED BY <2>3, <2>4, <2>5 DEF TypeOK
  <1>3. CASE Retry
    BY <1>3 DEF TypeOK, Retry, CanRetry, control, disk
  <1>4. CASE RetriesExhausted
    <2>1. InStep /\ EndStep("failed", "transient")
      BY <1>4 DEF RetriesExhausted
    <2> QED BY <1>4, <2>1, EndStepType DEF Met, TypeOK, RetriesExhausted, control, disk
  <1>5. CASE InjectedFault
    <2>1. PICK s \in {"timeout", "failed"} : InStep /\ EndStep(s, "nothing")
      BY <1>5 DEF InjectedFault
    <2> QED BY <1>5, <2>1, EndStepType DEF Met, TypeOK, InjectedFault, control, disk
  <1>6. CASE Inspect
    <2>1. InStep /\ EndStep("success", "nothing")
      BY <1>6 DEF Inspect
    <2> QED BY <1>6, <2>1, EndStepType DEF Met, TypeOK, Inspect, control, disk
  <1>7. CASE WriteFile
    <2>1. InStep /\ EndStep("success", "nothing")
      BY <1>7 DEF WriteFile
    <2>2. Written \in Content
      BY <2>1, StepIsPlanStep DEF Written, PlanStep
    <2> QED BY <1>7, <2>1, <2>2, EndStepType DEF Met, TypeOK, WriteFile, control
  <1>8. CASE RunTests
    <2>1. InStep /\ EndStep("success", "nothing")
      BY <1>8 DEF RunTests
    <2>2. PICK code \in Loadable, passed \in BOOLEAN :
            /\ tests_passed' = Verdict(passed)
            /\ tested' = [files |-> sandbox, code |-> code]
            /\ pyc' \in {pyc, code}
      BY <1>8 DEF RunTests
    <2>3. code \in Content \cup {None}
      BY LoadableType
    <2>4. tests_passed' \in {"None", "True", "False"}
      BY <2>2 DEF Verdict
    <2>5. tested' \in [files : [File -> Content \cup {None}], code : Content \cup {None}]
      BY <2>2, <2>3 DEF TypeOK
    <2> QED BY <1>8, <2>1, <2>2, <2>3, <2>4, <2>5, EndStepType
            DEF Met, TypeOK, RunTests, control
  <1>9. CASE RunTestsHangs
    <2>1. PICK s \in {"failed", "timeout"} : InStep /\ EndStep(s, "hang")
      BY <1>9 DEF RunTestsHangs
    <2>2. pyc' \in Content \cup {None}
      BY <1>9, LoadableType DEF RunTestsHangs, TypeOK
    <2> QED BY <1>9, <2>1, <2>2, EndStepType DEF Met, TypeOK, RunTestsHangs, control
  <1>10. CASE ToolRaises
    <2>1. InStep /\ EndStep("failed", "nothing")
      BY <1>10 DEF ToolRaises
    <2>2. sandbox' \in [File -> Content \cup {None}]
      <3>1. sandbox \in [File -> Content \cup {None}] /\ Empty \in Content \cup {None}
        BY ExecutorAssumption DEF TypeOK
      <3>2. sandbox' = sandbox \/ \E f \in File : sandbox' = [sandbox EXCEPT ![f] = Empty]
        BY <1>10 DEF ToolRaises
      <3> QED BY <3>1, <3>2
    <2> QED BY <1>10, <2>1, <2>2, EndStepType DEF Met, TypeOK, ToolRaises, control
  <1>11. CASE Return
    BY <1>11 DEF TypeOK, Return, disk, outcome
  <1>12. CASE UNCHANGED vars
    BY <1>12 DEF TypeOK, vars, control, disk, outcome
  <1> QED BY <1>1, <1>2, <1>3, <1>4, <1>5, <1>6, <1>7, <1>8, <1>9, <1>10, <1>11, <1>12
          DEF Next, Progress, Attempt

\* Every variable keeps its type: the locals of a call, the directory and the
\* cached bytecode, over any number of calls.
THEOREM TypeCorrect == Spec => []TypeOK
  <1>1. Init => TypeOK
    BY ExecutorAssumption DEF Init, TypeOK, Untested
  <1> QED BY <1>1, TypeInductive, PTL DEF Spec

-----------------------------------------------------------------------------
(***************************************************************************)
(* The inductive invariant.  FailFast and StatusExplained speak of whole   *)
(* plans and of returned calls; Walk says the same of a call under way,    *)
(* where the flag that ended the loop must agree with the last result.     *)
(* EvidenceFresh speaks of the end of the plan; Evidence says it after     *)
(* every step that ran the tests.                                          *)
(***************************************************************************)
Walk ==
  InCall =>
    /\ Len(step_results) <= Len(plan)
    /\ broke # "no" => step_results # <<>>
    /\ \A k \in 1..Len(step_results) :
         /\ step_results[k].tool = plan[k].tool
         /\ step_results[k].status =
              IF k < Len(step_results) THEN "success" ELSE overall_status

ReturnsDone == pc = "returned" => LoopDone

Evidence ==
  /\ InCall /\ broke = "no" /\ step_results # <<>>
  /\ step_results[Len(step_results)].tool = "run_tests"
  => tests_passed # "None" /\ tested.files = sandbox

IInv ==
  /\ TypeOK /\ Walk /\ ReturnsDone
  /\ KnownVerdict /\ Evidence /\ OwnFiles /\ RetryBudget

\* What ending a step does to the two sequences of a call.
Appended(status, met) ==
  /\ Len(step_results') = Len(step_results) + 1
  /\ Len(made') = Len(step_results')
  /\ \A k \in 1..Len(step_results) :
       step_results'[k] = step_results[k] /\ made'[k] = made[k]
  /\ step_results'[Len(step_results')] =
       [tool |-> plan[Len(step_results')].tool, status |-> status,
        attempts |-> Attempts(status)]
  /\ made'[Len(step_results')] = [attempts |-> attempt, met |-> met]

LEMMA EndStepAppends ==
  ASSUME IInv, InStep,
         NEW status \in {"success", "failed", "timeout"}, NEW met \in Met,
         EndStep(status, met)
  PROVE  Appended(status, met)
  <1>1. Len(made) = Len(step_results)
    BY DEF InStep, IInv, RetryBudget, InCall
  <1>2. step_results' = Append(step_results, [tool |-> plan[Len(step_results) + 1].tool,
                          status |-> status, attempts |-> Attempts(status)])
    BY DEF EndStep, Record, Step
  <1>3. made' = Append(made, [attempts |-> attempt, met |-> met])
    BY DEF EndStep, Record
  <1> QED BY <1>1, <1>2, <1>3 DEF IInv, TypeOK, Appended

\* Ending a step extends the walk by the step's own result.
LEMMA EndStepWalks ==
  ASSUME IInv, InStep,
         NEW status \in {"success", "failed", "timeout"}, NEW met \in Met,
         EndStep(status, met), UNCHANGED control, met = "transient" => ~ CanRetry
  PROVE  Walk' /\ ReturnsDone' /\ RetryBudget'
  <1> DEFINE n == Len(step_results)
  <1>0. Appended(status, met)
    BY EndStepAppends
  <1>1. pc' = "running" /\ plan' = plan /\ n < Len(plan) /\ n \in Nat
    BY DEF InStep, control, IInv, TypeOK
  <1>2. overall_status' = status /\ (broke' # "no" => status # "success")
    BY DEF EndStep, BreakOn, overall_status
  <1>3. \A k \in 1..n : step_results[k].tool = plan[k].tool
                         /\ step_results[k].status = "success"
    BY DEF IInv, Walk, InStep, InCall, overall_status
  <1>4. Walk'
    <2>1. ASSUME NEW k \in 1..(n + 1)
          PROVE  /\ step_results'[k].tool = plan[k].tool
                 /\ step_results'[k].status =
                      IF k < n + 1 THEN "success" ELSE overall_status'
      <3>1. CASE k \in 1..n
        BY <1>0, <1>1, <1>3, <3>1 DEF Appended
      <3>2. CASE k = n + 1
        BY <1>0, <1>1, <1>2, <3>2 DEF Appended
      <3> QED BY <1>1, <3>1, <3>2
    <2>2. Len(step_results') = n + 1 /\ step_results' # <<>>
      BY <1>0, <1>1 DEF Appended
    <2> QED BY <1>1, <2>1, <2>2 DEF Walk
  <1>5. ReturnsDone'
    BY <1>1 DEF ReturnsDone
  <1>6. RetryBudget'
    <2>1. attempt \in Nat /\ attempt <= MaxRetries + 1
      BY ExecutorAssumption DEF IInv, TypeOK
    <2>2. ASSUME NEW k \in 1..(n + 1)
          PROVE  /\ made'[k].attempts <= MaxRetries + 1
                 /\ made'[k].met = "transient" => made'[k].attempts = MaxRetries + 1
                 /\ step_results'[k].status = "success" =>
                      step_results'[k].attempts = made'[k].attempts
      <3>1. CASE k \in 1..n
        BY <1>0, <1>1, <3>1 DEF Appended, IInv, RetryBudget, InStep, InCall
      <3>2. CASE k = n + 1
        <4>1. made'[k] = [attempts |-> attempt, met |-> met]
          BY <1>0, <1>1, <3>2 DEF Appended
        <4>2. met = "transient" => attempt = MaxRetries + 1
          BY <2>1, ExecutorAssumption DEF CanRetry
        <4>3. step_results'[k].status = "success" => step_results'[k].attempts = attempt
          BY <1>0, <1>1, <3>2 DEF Appended, Attempts
        <4> QED BY <2>1, <4>1, <4>2, <4>3
      <3> QED BY <1>1, <3>1, <3>2
    <2>3. Len(step_results') = n + 1 /\ Len(made') = n + 1
      BY <1>0 DEF Appended
    <2> QED BY <2>2, <2>3 DEF RetryBudget
  <1> QED BY <1>4, <1>5, <1>6

\* A step that does not succeed says nothing about the tests.
LEMMA FailureKeepsVerdict ==
  ASSUME IInv, InStep, NEW status \in {"failed", "timeout"}, NEW met \in Met,
         EndStep(status, met), UNCHANGED <<control, tests_passed>>
  PROVE  KnownVerdict' /\ Evidence'
  <1> DEFINE n == Len(step_results)
  <1>0. Appended(status, met)
    BY EndStepAppends
  <1>1. pc = "running" /\ pc' = "running" /\ n \in Nat
    BY DEF InStep, control, IInv, TypeOK
  <1>2. /\ Len(step_results') = n + 1 /\ step_results'[n + 1].status = status
        /\ \A k \in 1..n : step_results'[k] = step_results[k]
    BY <1>0, <1>1 DEF Appended
  <1>3. 1..(n + 1) = 1..n \cup {n + 1}
    BY <1>1
  <1>4. (\E k \in 1..(n + 1) : step_results'[k].tool = "run_tests"
                               /\ step_results'[k].status = "success")
        <=> (\E k \in 1..n : step_results[k].tool = "run_tests"
                              /\ step_results[k].status = "success")
    BY <1>2, <1>3
  <1>5. KnownVerdict'
    BY <1>1, <1>2, <1>4 DEF IInv, KnownVerdict, InCall
  <1>6. broke' # "no"
    BY DEF EndStep, BreakOn
  <1> QED BY <1>5, <1>6 DEF Evidence

\* A successful step that is no test run keeps what is known of the tests.
LEMMA OtherToolKeepsVerdict ==
  ASSUME IInv, InStep, Step.tool # "run_tests",
         EndStep("success", "nothing"), UNCHANGED <<control, tests_passed>>
  PROVE  KnownVerdict' /\ Evidence'
  <1> DEFINE n == Len(step_results)
  <1>0. Appended("success", "nothing")
    BY EndStepAppends DEF Met
  <1>1. pc = "running" /\ pc' = "running" /\ n \in Nat
    BY DEF InStep, control, IInv, TypeOK
  <1>2. /\ Len(step_results') = n + 1 /\ step_results'[n + 1].tool # "run_tests"
        /\ \A k \in 1..n : step_results'[k] = step_results[k]
    BY <1>0, <1>1 DEF Appended, Step
  <1>3. 1..(n + 1) = 1..n \cup {n + 1}
    BY <1>1
  <1>4. (\E k \in 1..(n + 1) : step_results'[k].tool = "run_tests"
                               /\ step_results'[k].status = "success")
        <=> (\E k \in 1..n : step_results[k].tool = "run_tests"
                              /\ step_results[k].status = "success")
    BY <1>2, <1>3
  <1>5. KnownVerdict'
    BY <1>1, <1>2, <1>4 DEF IInv, KnownVerdict, InCall
  <1> QED BY <1>2, <1>5 DEF Evidence

\* A step that leaves the directory alone leaves the task's files explained.
LEMMA SameFilesOwned ==
  ASSUME IInv, InStep,
         NEW status \in {"success", "failed", "timeout"}, NEW met \in Met,
         EndStep(status, met), UNCHANGED <<control, sandbox>>
  PROVE  OwnFiles'
  <1> SUFFICES ASSUME NEW f \in {SolutionFile, TestFile}
               PROVE  \/ sandbox[f] = Original(f)
                      \/ \E k \in 1..Len(step_results') : sandbox[f] \in WrittenBy(k, f)
    BY DEF OwnFiles, control, Original, WrittenBy
  <1>0. Appended(status, met)
    BY EndStepAppends
  <1>1. Len(step_results') = Len(step_results) + 1 /\ Len(step_results) \in Nat
    BY <1>0 DEF Appended, TypeOK
  <1> QED BY <1>1 DEF IInv, OwnFiles, InCall, InStep

\* A write, whole or cut short, is one of the step's own.
LEMMA WriteOwned ==
  ASSUME IInv, InStep,
         NEW status \in {"success", "failed", "timeout"}, NEW met \in Met,
         EndStep(status, met), UNCHANGED control,
         Step.tool = "write_file", NEW c \in {Written, Empty},
         sandbox' = [sandbox EXCEPT ![Step.path] = c]
  PROVE  OwnFiles'
  <1> DEFINE n == Len(step_results)
  <1> SUFFICES ASSUME NEW f \in {SolutionFile, TestFile}
               PROVE  \/ sandbox'[f] = Original(f)
                      \/ \E k \in 1..Len(step_results') : sandbox'[f] \in WrittenBy(k, f)
    BY DEF OwnFiles, control, Original, WrittenBy
  <1>0. Appended(status, met)
    BY EndStepAppends
  <1>1. Len(step_results') = n + 1 /\ n \in Nat
    BY <1>0 DEF Appended, TypeOK
  <1>2. f \in File /\ sandbox \in [File -> Content \cup {None}]
    BY ExecutorAssumption DEF IInv, TypeOK
  <1>3. CASE Step.path = f
    <2>1. sandbox'[f] = c
      BY <1>2, <1>3
    <2>2. c \in {plan[n + 1].content, Empty}
      BY DEF Written, Step
    <2>3. sandbox'[f] \in WrittenBy(n + 1, f)
      BY <1>3, <2>1, <2>2 DEF WrittenBy, Step
    <2> QED BY <1>1, <2>3
  <1>4. CASE Step.path # f
    <2>1. sandbox'[f] = sandbox[f]
      BY <1>2, <1>4
    <2> QED BY <1>1, <2>1 DEF IInv, OwnFiles, InCall, InStep
  <1> QED BY <1>3, <1>4

\* A completed test run gives a verdict on the files as they are.
LEMMA TestRunKnown ==
  ASSUME IInv, RunTests
  PROVE  KnownVerdict' /\ Evidence'
  <1> DEFINE n == Len(step_results)
  <1>1. InStep /\ EndStep("success", "nothing") /\ Step.tool = "run_tests"
        /\ UNCHANGED <<control, sandbox>>
    BY DEF RunTests, Testable
  <1>2. Appended("success", "nothing")
    BY <1>1, EndStepAppends DEF Met
  <1>3. tests_passed' # "None" /\ tested'.files = sandbox
    BY DEF RunTests, Verdict
  <1>4. n + 1 \in 1..Len(step_results') /\ Len(step_results') = n + 1
    BY <1>2 DEF Appended, IInv, TypeOK
  <1>5. step_results'[n + 1].tool = "run_tests" /\ step_results'[n + 1].status = "success"
    BY <1>1, <1>2, <1>4 DEF Appended, Step
  <1>6. KnownVerdict'
    BY <1>3, <1>4, <1>5 DEF KnownVerdict
  <1> QED BY <1>1, <1>3, <1>6 DEF Evidence

\* The invariant is inductive.
LEMMA Inductive == IInv /\ [Next]_vars => IInv'
  <1> SUFFICES ASSUME IInv, [Next]_vars, TypeOK'
               PROVE  /\ Walk' /\ ReturnsDone' /\ KnownVerdict'
                      /\ Evidence' /\ OwnFiles' /\ RetryBudget'
    BY TypeInductive DEF IInv
  <1>1. ASSUME NEW p \in Plans, Execute(p)
        PROVE  /\ Walk' /\ ReturnsDone' /\ KnownVerdict'
               /\ Evidence' /\ OwnFiles' /\ RetryBudget'
    <2>1. /\ pc' = "running" /\ step_results' = <<>> /\ made' = <<>>
          /\ tests_passed' = "None" /\ broke' = "no" /\ sandbox' = Materialized(sandbox)
      BY <1>1 DEF Execute, ResetLocals
    <2>2. Len(step_results') = 0 /\ Len(made') = 0 /\ Len(plan') \in Nat
      BY <2>1 DEF TypeOK
    <2>3. \A f \in {SolutionFile, TestFile} : sandbox'[f] = Original(f)
      BY <2>1, ExecutorAssumption DEF IInv, TypeOK, Materialized, Original
    <2> QED BY <2>1, <2>2, <2>3
            DEF Walk, ReturnsDone, KnownVerdict, Evidence, OwnFiles, Original, RetryBudget
  <1>2. ASSUME NEW p \in Plans, ExecuteRaises(p)
        PROVE  /\ Walk' /\ ReturnsDone' /\ KnownVerdict'
               /\ Evidence' /\ OwnFiles' /\ RetryBudget'
    <2>1. pc' = "crashed"
      BY <1>2 DEF ExecuteRaises
    <2> QED BY <2>1
            DEF Walk, ReturnsDone, KnownVerdict, Evidence, OwnFiles, RetryBudget, InCall
  <1>3. CASE Retry
    <2>1. UNCHANGED <<pc, plan, sandbox, step_results, tests_passed, broke, tested, made>>
      BY <1>3 DEF Retry, control, disk
    <2> QED BY <2>1 DEF IInv, Walk, ReturnsDone, KnownVerdict, Evidence, OwnFiles,
                        RetryBudget, InCall, LoopDone, overall_status, Original, WrittenBy
  <1>4. CASE RetriesExhausted
    <2>1. InStep /\ EndStep("failed", "transient") /\ UNCHANGED <<control, sandbox, tests_passed>>
          /\ ~ CanRetry
      BY <1>4 DEF RetriesExhausted, disk
    <2> QED BY <2>1, EndStepWalks, FailureKeepsVerdict, SameFilesOwned DEF Met
  <1>5. CASE InjectedFault
    <2>1. PICK s \in {"timeout", "failed"} :
            InStep /\ EndStep(s, "nothing") /\ UNCHANGED <<control, sandbox, tests_passed>>
      BY <1>5 DEF InjectedFault, disk
    <2> QED BY <2>1, EndStepWalks, FailureKeepsVerdict, SameFilesOwned DEF Met
  <1>6. CASE Inspect
    <2>1. InStep /\ EndStep("success", "nothing") /\ UNCHANGED <<control, sandbox, tests_passed>>
      BY <1>6 DEF Inspect, disk
    <2>2. Step.tool # "run_tests"
      BY <1>6 DEF Inspect
    <2> QED BY <2>1, <2>2, EndStepWalks, OtherToolKeepsVerdict, SameFilesOwned DEF Met
  <1>7. CASE WriteFile
    <2>1. InStep /\ EndStep("success", "nothing") /\ UNCHANGED <<control, tests_passed>>
          /\ Step.tool = "write_file" /\ sandbox' = [sandbox EXCEPT ![Step.path] = Written]
      BY <1>7 DEF WriteFile
    <2>2. Step.tool # "run_tests"
      BY <2>1
    <2> QED BY <2>1, <2>2, EndStepWalks, OtherToolKeepsVerdict, WriteOwned DEF Met
  <1>8. CASE RunTests
    <2>1. InStep /\ EndStep("success", "nothing") /\ UNCHANGED <<control, sandbox>>
      BY <1>8 DEF RunTests
    <2> QED BY <1>8, <2>1, EndStepWalks, TestRunKnown, SameFilesOwned DEF Met
  <1>9. CASE RunTestsHangs
    <2>1. PICK s \in {"failed", "timeout"} :
            InStep /\ EndStep(s, "hang") /\ UNCHANGED <<control, sandbox, tests_passed>>
      BY <1>9 DEF RunTestsHangs
    <2> QED BY <2>1, EndStepWalks, FailureKeepsVerdict, SameFilesOwned DEF Met
  <1>10. CASE ToolRaises
    <2>1. InStep /\ EndStep("failed", "nothing") /\ UNCHANGED <<control, tests_passed>>
      BY <1>10 DEF ToolRaises
    <2>2. OwnFiles'
      <3>1. CASE UNCHANGED sandbox
        BY <2>1, <3>1, SameFilesOwned DEF Met
      <3>2. CASE Step.tool = "write_file" /\ sandbox' = [sandbox EXCEPT ![Step.path] = Empty]
        BY <2>1, <3>2, WriteOwned DEF Met
      <3> QED BY <1>10, <3>1, <3>2 DEF ToolRaises
    <2> QED BY <2>1, <2>2, EndStepWalks, FailureKeepsVerdict DEF Met
  <1>11. CASE Return
    <2>1. pc = "running" /\ LoopDone /\ pc' = "returned"
          /\ UNCHANGED <<plan, sandbox, step_results, tests_passed, broke, tested, made>>
      BY <1>11 DEF Return, disk, outcome
    <2> QED BY <2>1 DEF IInv, Walk, ReturnsDone, KnownVerdict, Evidence, OwnFiles,
                        RetryBudget, InCall, LoopDone, overall_status, Original, WrittenBy
  <1>12. CASE UNCHANGED vars
    <2>1. UNCHANGED <<pc, plan, sandbox, step_results, tests_passed, broke, tested, made>>
      BY <1>12 DEF vars, control, disk, outcome
    <2> QED BY <2>1 DEF IInv, Walk, ReturnsDone, KnownVerdict, Evidence, OwnFiles,
                        RetryBudget, InCall, LoopDone, overall_status, Original, WrittenBy
  <1> QED BY <1>1, <1>2, <1>3, <1>4, <1>5, <1>6, <1>7, <1>8, <1>9, <1>10, <1>11, <1>12
          DEF Next, Progress, Attempt

LEMMA Initially == Init => IInv
  BY ExecutorAssumption
     DEF Init, IInv, TypeOK, Untested, Walk, ReturnsDone, KnownVerdict, Evidence,
         OwnFiles, RetryBudget, InCall

LEMMA Invariant == Spec => []IInv
  BY Initially, Inductive, PTL DEF Spec

\* The executor walks a prefix of the plan and stops at the first step that
\* does not succeed.
THEOREM FailFastHolds == Spec => []FailFast
  <1>1. IInv => FailFast
    BY DEF IInv, TypeOK, Walk, FailFast
  <1> QED BY <1>1, Invariant, PTL

LEMMA StatusFromWalk ==
  ASSUME IInv, pc = "returned"
  PROVE  StatusExplained
  <1> DEFINE n == Len(step_results)
  <1>1. /\ n \in Nat /\ Len(plan) \in Nat /\ n <= Len(plan)
        /\ broke # "no" \/ n = Len(plan)
        /\ broke # "no" => step_results # <<>>
        /\ \A k \in 1..n :
             step_results[k].status = IF k < n THEN "success" ELSE overall_status
    BY DEF IInv, TypeOK, Walk, ReturnsDone, LoopDone, InCall
  <1>2. CASE broke = "no"
    <2>1. overall_status = "success" /\ n = Len(plan)
      BY <1>1, <1>2 DEF overall_status
    <2>2. \A k \in 1..Len(plan) : step_results[k].status = "success"
      BY <1>1, <2>1
    <2> QED BY <2>1, <2>2 DEF StatusExplained
  <1>3. CASE broke # "no"
    <2>1. overall_status # "success" /\ n > 0 /\ step_results # <<>>
      BY <1>1, <1>3 DEF overall_status, IInv, TypeOK
    <2>2. step_results[n].status = overall_status /\ n \in 1..Len(plan)
      BY <1>1, <2>1
    <2> QED BY <2>1, <2>2 DEF StatusExplained
  <1> QED BY <1>2, <1>3

\* overall_status is "success" exactly when the whole plan succeeded, else the
\* status of the step that ended it.
THEOREM StatusHolds == Spec => []StatusExplained
  <1>1. IInv => StatusExplained
    BY StatusFromWalk DEF StatusExplained
  <1> QED BY <1>1, Invariant, PTL

\* The verdict on the tests is known exactly when a test run of this call
\* completed.
THEOREM KnownVerdictHolds == Spec => []KnownVerdict
  <1>1. IInv => KnownVerdict
    BY DEF IInv
  <1> QED BY <1>1, Invariant, PTL

LEMMA EvidenceFromWalk ==
  ASSUME IInv
  PROVE  EvidenceFresh
  <1> SUFFICES ASSUME pc = "returned", overall_status = "success",
                      plan # <<>>, plan[Len(plan)].tool = "run_tests"
               PROVE  tests_passed # "None" /\ tested.files = sandbox
    BY DEF EvidenceFresh
  <1>1. broke = "no" /\ Len(step_results) = Len(plan)
    BY DEF IInv, TypeOK, ReturnsDone, LoopDone, overall_status
  <1>2. Len(plan) \in 1..Len(plan) /\ step_results # <<>>
    BY <1>1 DEF IInv, TypeOK
  <1>3. step_results[Len(step_results)].tool = "run_tests"
    BY <1>1, <1>2 DEF IInv, Walk, InCall
  <1> QED BY <1>1, <1>2, <1>3 DEF IInv, Evidence, InCall

\* A successful plan that ends with run_tests gives the reviewer a verdict on
\* the files it leaves.
THEOREM EvidenceFreshHolds == Spec => []EvidenceFresh
  <1>1. IInv => EvidenceFresh
    BY EvidenceFromWalk
  <1> QED BY <1>1, Invariant, PTL

\* The task's two files always come from the current call.
THEOREM OwnFilesHolds == Spec => []OwnFiles
  <1>1. IInv => OwnFiles
    BY DEF IInv
  <1> QED BY <1>1, Invariant, PTL

\* No step is attempted more often than the budget allows.
THEOREM RetryBudgetHolds == Spec => []RetryBudget
  <1>1. IInv => RetryBudget
    BY DEF IInv
  <1> QED BY <1>1, Invariant, PTL

\* The same facts without a behaviour, for a system that has the executor as a
\* part.
LEMMA InvMeans ==
  IInv => /\ FailFast /\ StatusExplained /\ KnownVerdict
          /\ EvidenceFresh /\ OwnFiles /\ RetryBudget
  <1> SUFFICES ASSUME IInv
               PROVE  /\ FailFast /\ StatusExplained /\ KnownVerdict
                      /\ EvidenceFresh /\ OwnFiles /\ RetryBudget
    OBVIOUS
  <1>1. FailFast
    BY DEF IInv, TypeOK, Walk, FailFast
  <1>2. StatusExplained
    BY StatusFromWalk DEF StatusExplained
  <1>3. EvidenceFresh
    BY EvidenceFromWalk
  <1> QED BY <1>1, <1>2, <1>3 DEF IInv

-----------------------------------------------------------------------------
(***************************************************************************)
(* Why a call ends: each of its steps leaves fewer that may follow it.     *)
(***************************************************************************)
Budget == MaxRetries + 1

\* The attempts that are left, with those of the steps not yet begun, and the
\* return.
Left ==
  CASE pc # "running" -> 0
    [] pc = "running" /\ broke # "no" -> 1
    [] pc = "running" /\ broke = "no" ->
         (Len(plan) - Len(step_results)) * Budget + (Budget - attempt) + 1

LEMMA Times ==
  ASSUME NEW a \in Nat, NEW b \in Nat
  PROVE  /\ a * b \in Nat
         /\ a >= 1 => (a - 1) * b = a * b - b /\ a * b >= b
         /\ (a + 1) * b = a * b + b
  OBVIOUS

\* What is left, in numbers.
LEMMA LeftIs ==
  ASSUME IInv
  PROVE  /\ Len(plan) \in Nat /\ Len(step_results) \in Nat
         /\ Budget \in Nat /\ attempt \in Nat /\ attempt >= 1 /\ attempt <= Budget
         /\ Left \in Nat
         /\ pc = "running" => Left >= 1 /\ Len(step_results) <= Len(plan)
         /\ pc # "running" => Left = 0
         /\ pc = "running" /\ broke # "no" => Left = 1
         /\ pc = "running" /\ broke = "no" =>
              Left = (Len(plan) - Len(step_results)) * Budget + (Budget - attempt) + 1
  <1>1. /\ Len(plan) \in Nat /\ Len(step_results) \in Nat
        /\ Budget \in Nat /\ attempt \in Nat /\ attempt >= 1 /\ attempt <= Budget
    BY ExecutorAssumption DEF IInv, TypeOK, Budget
  <1>2. pc = "running" => Len(step_results) <= Len(plan)
    BY DEF IInv, Walk, InCall
  <1>3. CASE pc # "running" \/ broke # "no"
    BY <1>1, <1>2, <1>3 DEF Left
  <1>4. CASE pc = "running" /\ broke = "no"
    <2> DEFINE a == Len(plan) - Len(step_results)
    <2>1. a \in Nat
      BY <1>1, <1>2, <1>4
    <2>2. Left = a * Budget + (Budget - attempt) + 1
      BY <1>4 DEF Left
    <2> HIDE DEF a
    <2>3. a * Budget \in Nat
      BY <1>1, <2>1, Times
    <2>4. Left \in Nat /\ Left >= 1
      BY <1>1, <2>2, <2>3
    <2> QED BY <1>1, <1>2, <1>4, <2>2, <2>4 DEF a
  <1> QED BY <1>3, <1>4

\* A step of the plan that ends uses up its attempts, and all others if it ends
\* the loop.
LEMMA EndStepFalls ==
  ASSUME IInv, IInv', InStep, pc' = pc, plan' = plan,
         NEW status \in {"success", "failed", "timeout"}, NEW met \in Met,
         EndStep(status, met)
  PROVE  Left' < Left
  <1>1. /\ pc = "running" /\ broke = "no" /\ pc' = "running"
        /\ Len(step_results) < Len(plan) /\ attempt' = 1
        /\ Len(step_results') = Len(step_results) + 1
    BY DEF InStep, EndStep, Record, IInv, TypeOK
  <1> DEFINE a == Len(plan) - Len(step_results)
  <1>2. /\ a \in Nat /\ a >= 1
        /\ Budget \in Nat /\ attempt \in Nat /\ attempt >= 1 /\ attempt <= Budget
        /\ Left = a * Budget + (Budget - attempt) + 1
    BY <1>1, LeftIs
  <1>3. Len(plan') - Len(step_results') = a - 1
    BY <1>1, LeftIs
  <1>4. Left' = 1 \/ Left' = (a - 1) * Budget + (Budget - 1) + 1
    <2>1. CASE broke' = "no"
      BY <1>1, <1>3, <2>1 DEF Left, Budget
    <2>2. CASE broke' # "no"
      BY <1>1, <2>2 DEF Left
    <2> QED BY <2>1, <2>2
  <1> HIDE DEF a
  <1>5. a * Budget \in Nat /\ (a - 1) * Budget = a * Budget - Budget /\ a * Budget >= Budget
    BY <1>2, Times
  <1> QED BY <1>2, <1>4, <1>5

LEMMA ProgressFalls ==
  ASSUME IInv, IInv', Progress
  PROVE  Left' < Left
  <1>1. CASE Return
    <2>1. Left' = 0
      BY <1>1 DEF Return, Left
    <2>2. Left \in Nat /\ Left >= 1
      BY <1>1, LeftIs DEF Return
    <2> QED BY <2>1, <2>2
  <1>2. CASE Retry
    <2>1. /\ pc = "running" /\ broke = "no" /\ attempt' = attempt + 1
          /\ pc' = pc /\ broke' = broke /\ plan' = plan /\ step_results' = step_results
      BY <1>2 DEF Retry, InStep, control
    <2> DEFINE b == (Len(plan) - Len(step_results)) * Budget
    <2>2. Left = b + (Budget - attempt) + 1 /\ Left \in Nat
      BY <2>1, LeftIs
    <2>3. Left' = b + (Budget - (attempt + 1)) + 1
      BY <2>1 DEF Left, Budget
    <2>4. b \in Nat
      BY <2>1, LeftIs, Times
    <2>5. Budget \in Nat /\ attempt \in Nat
      BY LeftIs
    <2> HIDE DEF b
    <2> QED BY <2>2, <2>3, <2>4, <2>5
  <1>3. CASE RetriesExhausted \/ InjectedFault \/ Inspect \/ WriteFile \/ RunTests
             \/ RunTestsHangs \/ ToolRaises
    <2>1. InStep /\ pc' = pc /\ plan' = plan
      BY <1>3 DEF RetriesExhausted, InjectedFault, Inspect, WriteFile, RunTests,
                  RunTestsHangs, ToolRaises, control
    <2>2. PICK status \in {"success", "failed", "timeout"}, met \in Met :
            EndStep(status, met)
      BY <1>3 DEF Met, RetriesExhausted, InjectedFault, Inspect, WriteFile, RunTests,
                  RunTestsHangs, ToolRaises
    <2> QED BY <2>1, <2>2, EndStepFalls
  <1> QED BY <1>1, <1>2, <1>3 DEF Progress, Attempt

\* A call has a budget of (steps + 1) * (max_retries + 1) and every step of it
\* lowers what is left, whatever is injected, hangs or raises: the sleeps and
\* the retries of one call are bounded (executor.py:57-104, 120-139).
THEOREM CallBounded ==
  Spec => /\ [](Left \in Nat)
          /\ [][Progress => Left' < Left]_vars
          /\ [][pc' = "running" /\ ~ Progress => Left' = (Len(plan') + 1) * Budget]_vars
  <1>1. IInv => Left \in Nat
    BY LeftIs
  <1>2. IInv /\ IInv' => (Progress => Left' < Left)
    BY ProgressFalls
  <1>3. IInv' /\ [Next]_vars /\ pc' = "running" /\ ~ Progress
        => Left' = (Len(plan') + 1) * Budget \/ UNCHANGED vars
    <2> SUFFICES ASSUME NEW p \in Plans, Execute(p), IInv'
                 PROVE  Left' = (Len(plan') + 1) * Budget
      BY DEF Next, ExecuteRaises
    <2>1. /\ pc' = "running" /\ broke' = "no" /\ attempt' = 1 /\ step_results' = <<>>
      BY DEF Execute, ResetLocals
    <2>2. /\ Len(plan') \in Nat /\ Budget \in Nat /\ Len(step_results') = 0
      BY <2>1, ExecutorAssumption DEF IInv, TypeOK, Budget
    <2>3. Left' = (Len(plan') - Len(step_results')) * Budget + (Budget - 1) + 1
      BY <2>1 DEF Left, Budget
    <2>4. Len(plan') - Len(step_results') = Len(plan')
      BY <2>2
    <2>5. Len(plan') * Budget \in Nat /\ (Len(plan') + 1) * Budget = Len(plan') * Budget + Budget
      BY <2>2, Times
    <2> QED BY <2>2, <2>3, <2>4, <2>5
  <1> QED BY <1>1, <1>2, <1>3, Invariant, PTL DEF Spec
=============================================================================
