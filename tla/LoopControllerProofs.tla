------------------------ MODULE LoopControllerProofs ------------------------
(***************************************************************************)
(* Proofs of the safety properties of LoopController, for every set of     *)
(* plans, results and wordings, every cap and every number of runs.        *)
(***************************************************************************)
EXTENDS LoopController, TLAPS, SequenceTheorems

InLoop == pc \in {"plan", "execute", "review"}

(***************************************************************************)
(* The inductive invariant.  CapExact speaks of the attempts made; what    *)
(* keeps it is that inside the loop the counter is one ahead of them and   *)
(* none was accepted.  FeedbackFresh tells a malformed plan by the plan of *)
(* the iteration, so a plan must be there when the executor and the        *)
(* reviewer run.                                                           *)
(***************************************************************************)
LoopInv ==
  /\ InLoop =>
       /\ i = Len(iterations) + 1 /\ i <= cap /\ result = None
       /\ \A k \in 1..Len(iterations) : ~ iterations[k].accepted
  /\ pc \in {"execute", "review"} => plan \in Plan
  /\ pc = "review" => execution_result \in Result
  /\ pc \in {"finish", "save"} => result # None
  /\ pc # "idle" => ending = "none"

IInv == TypeOK /\ LoopInv /\ CapExact /\ FeedbackFresh

\* The records of the log are of their type.
LEMMA EntryTypes ==
  ASSUME NEW id \in Nat
  PROVE  /\ StartEntry(id) \in Entry
         /\ \A it \in Iteration : IterationEntry(id, it) \in Entry
         /\ \A res \in RunResult : EndEntry(id, res) \in Entry
  BY DEF StartEntry, IterationEntry, EndEntry, Entry, RunResult

\* Whether or not the sink raises, the log and the file gain only records.
LEMMA EmitTypes ==
  ASSUME TypeOK, NEW e \in Entry, Emit(e) \/ EmitRaises(e)
  PROVE  entries' \in Seq(Entry) /\ sink' \in Seq(Entry)
  <1>1. Append(entries, e) \in Seq(Entry) /\ Append(sink, e) \in Seq(Entry)
    BY DEF TypeOK
  <1>2. CASE Emit(e)
    BY <1>1, <1>2 DEF Emit
  <1>3. CASE EmitRaises(e)
    BY <1>1, <1>3 DEF EmitRaises, TypeOK
  <1> QED BY <1>2, <1>3

\* The types of the variables the end of an iteration changes.
LEMMA EndIterationType ==
  ASSUME TypeOK, NEW it \in Iteration, NEW fb \in Feedback, EndIteration(it, fb)
  PROVE  TypeOK'
  <1>1. iterations' \in Seq(Iteration) /\ Len(iterations') \in Nat
    BY DEF EndIteration, TypeOK
  <1>2. Accepted \in RunResult /\ Exhausted(fb) \in RunResult
    BY <1>1 DEF Accepted, Exhausted, RunResult, TypeOK, Feedback
  <1>3. entries' \in Seq(Entry) /\ sink' \in Seq(Entry)
    <2>1. IterationEntry(run_id, it) \in Entry
      BY EntryTypes DEF TypeOK
    <2> QED BY <2>1, EmitTypes DEF EndIteration
  <1>4. /\ pc' \in {"idle", "plan", "execute", "review", "finish", "save"}
        /\ ending' \in {"none", "returned", "raised", "rejected"}
        /\ i' \in Nat /\ prior_feedback' \in Feedback
        /\ result' \in RunResult \cup {None}
    BY <1>2 DEF EndIteration, NextIteration, Raise, TypeOK
  <1>5. plan' = None /\ execution_result' = None
        /\ UNCHANGED <<runs, cap, run_id, run_counter, db, pending>>
    BY DEF EndIteration, storage
  <1> QED BY <1>1, <1>3, <1>4, <1>5 DEF TypeOK

\* The end of an iteration keeps the invariant, whatever became of it.
LEMMA EndIterationInv ==
  ASSUME IInv, InLoop, NEW it \in Iteration, NEW fb \in Feedback,
         it.iteration_number = i,
         ~ it.accepted => fb = [reason |-> it.reason, hint |-> it.plan = None],
         EndIteration(it, fb)
  PROVE  IInv'
  <1> DEFINE n == Len(iterations)
  <1>1. n \in Nat /\ i = n + 1 /\ i <= cap /\ result = None /\ cap \in Int
        /\ \A k \in 1..n : ~ iterations[k].accepted /\ iterations[k].iteration_number = k
    BY DEF IInv, TypeOK, LoopInv, CapExact
  <1>2. /\ Len(iterations') = n + 1 /\ iterations'[n + 1] = it /\ iterations' # <<>>
        /\ \A k \in 1..n : iterations'[k] = iterations[k]
    <2>1. iterations' = Append(iterations, it) /\ iterations \in Seq(Iteration)
      BY DEF EndIteration, IInv, TypeOK
    <2> QED BY <2>1
  <1>3. TypeOK'
    BY EndIterationType DEF IInv
  <1>4. cap' = cap /\ LastIteration' = it /\ (pc' # "idle" => ending' = "none")
    <2>1. ending = "none"
      BY DEF IInv, LoopInv, InLoop
    <2> QED BY <1>2, <2>1 DEF EndIteration, LastIteration, Raise
  <1>5. /\ \A k \in 1..(n + 1) : iterations'[k].iteration_number = k
        /\ \A k \in 1..n : ~ iterations'[k].accepted
    BY <1>1, <1>2
  <1>6. CASE pc' = "idle"
    <2>1. result' = None
      BY <1>1, <1>6 DEF EndIteration, NextIteration
    <2>2. CapExact'
      BY <1>1, <1>2, <1>4, <1>5, <2>1 DEF CapExact
    <2> QED BY <1>3, <1>6, <2>2 DEF IInv, LoopInv, InLoop, FeedbackFresh
  <1>7. CASE pc' = "finish"
    <2>1. result' \in RunResult /\ result' # None /\ result'.iteration_count = n + 1
          /\ IF it.accepted THEN result'.status = "success"
             ELSE result'.status = "failed" /\ i = cap
      <3>1. CASE it.accepted
        <4>1. result' = Accepted
          BY <1>7, <3>1 DEF EndIteration, NextIteration, Raise
        <4>2. Accepted \in RunResult /\ Accepted.iteration_count = n + 1
          BY <1>1 DEF Accepted, RunResult, Feedback
        <4> QED BY <3>1, <4>1, <4>2, NoneAssumption DEF Accepted
      <3>2. CASE ~ it.accepted
        <4>1. result' = Exhausted(fb) /\ i = cap
          BY <1>7, <3>2 DEF EndIteration, NextIteration, Raise
        <4>2. Exhausted(fb) \in RunResult /\ Exhausted(fb).iteration_count = n + 1
          BY <1>1, <1>2 DEF Exhausted, RunResult
        <4> QED BY <3>2, <4>1, <4>2, NoneAssumption DEF Exhausted
      <3> QED BY <3>1, <3>2
    <2>2. CapExact'
      BY <1>1, <1>2, <1>4, <1>5, <2>1 DEF CapExact
    <2> QED BY <1>3, <1>4, <1>7, <2>1, <2>2 DEF IInv, LoopInv, InLoop, FeedbackFresh
  <1>8. CASE pc' = "plan"
    <2>1. ~ it.accepted /\ i < cap /\ i' = i + 1 /\ result' = None /\ prior_feedback' = fb
      BY <1>1, <1>8 DEF EndIteration, NextIteration, Raise
    <2>2. \A k \in 1..(n + 1) : ~ iterations'[k].accepted
      BY <1>1, <1>2, <2>1
    <2>3. CapExact'
      BY <1>1, <1>2, <1>4, <1>5, <2>1 DEF CapExact
    <2>4. FeedbackFresh'
      BY <1>2, <1>4, <2>1 DEF FeedbackFresh
    <2>5. LoopInv'
      BY <1>1, <1>2, <1>4, <1>8, <2>1, <2>2 DEF LoopInv, InLoop
    <2> QED BY <1>3, <2>3, <2>4, <2>5 DEF IInv
  <1> QED BY <1>6, <1>7, <1>8 DEF EndIteration, NextIteration, Raise

\* The iterations the loop writes itself, and the reviewer's.
LEMMA FailureType ==
  ASSUME TypeOK, NEW p \in Plan \cup {None}, NEW res \in ExecutionResult \cup {None},
         NEW r \in Reason
  PROVE  /\ Failure(p, res, r) \in Iteration
         /\ ~ Failure(p, res, r).accepted
         /\ Failure(p, res, r).iteration_number = i
         /\ Failure(p, res, r).plan = p /\ Failure(p, res, r).reason = r
         /\ Plain(r) \in Feedback /\ Hinted(r) \in Feedback
  BY DEF TypeOK, Failure, Iteration, Plain, Hinted, Feedback

LEMMA PlannerMalformedInv ==
  ASSUME IInv, PlannerMalformed
  PROVE  IInv'
  <1>1. PICK t \in Text :
          EndIteration(Failure(None, None, [source |-> "bad plan", text |-> t]),
                       Hinted([source |-> "bad plan", text |-> t]))
    BY DEF PlannerMalformed
  <1> DEFINE r == [source |-> "bad plan", text |-> t]
  <1>2. r \in Reason
    BY DEF Reason
  <1>3. InLoop /\ TypeOK
    BY DEF PlannerMalformed, InLoop, IInv
  <1>4. EndIteration(Failure(None, None, r), Hinted(r))
    BY <1>1
  <1> HIDE DEF r
  <1>5. Hinted(r) = [reason |-> r, hint |-> TRUE]
    BY DEF Hinted
  <1>6. /\ Failure(None, None, r) \in Iteration /\ Hinted(r) \in Feedback
        /\ Failure(None, None, r).iteration_number = i
        /\ Failure(None, None, r).plan = None /\ Failure(None, None, r).reason = r
    BY <1>2, <1>3, FailureType
  <1> QED BY <1>3, <1>4, <1>5, <1>6, EndIterationInv

LEMMA ExecutorRaisesInv ==
  ASSUME IInv, ExecutorRaises
  PROVE  IInv'
  <1>1. PICK t \in Text :
          EndIteration(Failure(plan, ErrorResult, [source |-> "crash", text |-> t]),
                       Plain([source |-> "crash", text |-> t]))
    BY DEF ExecutorRaises
  <1> DEFINE r == [source |-> "crash", text |-> t]
  <1>2. r \in Reason
    BY DEF Reason
  <1>3. InLoop /\ TypeOK /\ plan \in Plan
    BY DEF ExecutorRaises, InLoop, IInv, LoopInv
  <1>4. ErrorResult \in ExecutionResult
    BY DEF ErrorResult, ExecutionResult
  <1> HIDE DEF r
  <1>5. Plain(r) = [reason |-> r, hint |-> plan = None]
    BY <1>3, LoopAssumption DEF Plain
  <1> QED BY <1>1, <1>2, <1>3, <1>4, <1>5, FailureType, EndIterationInv DEF r

LEMMA ReviewerMalformedInv ==
  ASSUME IInv, ReviewerMalformed
  PROVE  IInv'
  <1>1. PICK t \in Text :
          EndIteration(Failure(plan, execution_result, [source |-> "bad review", text |-> t]),
                       Plain([source |-> "bad review", text |-> t]))
    BY DEF ReviewerMalformed
  <1> DEFINE r == [source |-> "bad review", text |-> t]
  <1>2. r \in Reason
    BY DEF Reason
  <1>3. InLoop /\ TypeOK /\ plan \in Plan /\ execution_result \in ExecutionResult
    BY LoopAssumption DEF ReviewerMalformed, InLoop, IInv, LoopInv
  <1>4. EndIteration(Failure(plan, execution_result, r), Plain(r))
    BY <1>1
  <1> HIDE DEF r
  <1>5. Plain(r) = [reason |-> r, hint |-> plan = None]
    BY <1>3, LoopAssumption DEF Plain
  <1>6. /\ Failure(plan, execution_result, r) \in Iteration /\ Plain(r) \in Feedback
        /\ Failure(plan, execution_result, r).iteration_number = i
        /\ Failure(plan, execution_result, r).plan = plan
        /\ Failure(plan, execution_result, r).reason = r
    BY <1>2, <1>3, FailureType
  <1> QED BY <1>3, <1>4, <1>5, <1>6, EndIterationInv

LEMMA ReviewerDecidesInv ==
  ASSUME IInv, ReviewerDecides
  PROVE  IInv'
  <1>1. PICK t \in Text, accepted \in BOOLEAN :
          EndIteration([iteration_number |-> i, plan |-> plan,
                        execution_result |-> execution_result,
                        accepted |-> accepted, reason |-> [source |-> "review", text |-> t],
                        planner_malformed_output |-> FALSE,
                        reviewer_disagreed_with_tests |-> Disagreed(accepted)],
                       Plain([source |-> "review", text |-> t]))
    BY DEF ReviewerDecides
  <1> DEFINE r  == [source |-> "review", text |-> t]
             it == [iteration_number |-> i, plan |-> plan,
                    execution_result |-> execution_result,
                    accepted |-> accepted, reason |-> r,
                    planner_malformed_output |-> FALSE,
                    reviewer_disagreed_with_tests |-> Disagreed(accepted)]
  <1>2. r \in Reason
    BY DEF Reason
  <1>3. InLoop /\ plan \in Plan /\ execution_result \in ExecutionResult /\ i \in Nat
    BY LoopAssumption DEF ReviewerDecides, InLoop, IInv, LoopInv, TypeOK
  <1>4. EndIteration(it, Plain(r))
    BY <1>1
  <1> HIDE DEF r
  <1>5. Disagreed(accepted) \in BOOLEAN
    BY DEF Disagreed
  <1>6. /\ it \in Iteration /\ it.iteration_number = i
        /\ it.plan = plan /\ it.reason = r
    BY <1>2, <1>3, <1>5 DEF Iteration
  <1>7. Plain(r) \in Feedback /\ Plain(r) = [reason |-> r, hint |-> plan = None]
    BY <1>2, <1>3, LoopAssumption DEF Plain, Feedback
  <1> HIDE DEF it
  <1> QED BY <1>3, <1>4, <1>6, <1>7, EndIterationInv

\* What is saved of a run is a row.
LEMMA SavedType ==
  ASSUME TypeOK, result # None, NEW n \in 0..Len(iterations)
  PROVE  Saved(n) \in Row
  <1>1. SubSeq(iterations, 1, n) \in Seq(Iteration)
    BY SubSeqProperties DEF TypeOK
  <1> QED BY <1>1 DEF TypeOK, Saved, Row, RunResult

\* The invariant is inductive.
LEMMA Inductive == IInv /\ [Next]_vars => IInv'
  <1> SUFFICES ASSUME IInv, [Next]_vars PROVE IInv'
    OBVIOUS
  <1>1. ASSUME NEW c \in Caps, RunTask(c) PROVE IInv'
    <2>1. /\ iterations' = <<>> /\ prior_feedback' = None /\ plan' = None
          /\ execution_result' = None /\ result' = None
          /\ cap' = c /\ c >= 1 /\ c \in Int /\ runs' \in 0..MaxRuns
          /\ run_id' \in Nat /\ run_counter' \in Nat /\ UNCHANGED <<db, pending>>
      BY <1>1, LoopAssumption
         DEF RunTask, FreshLocals, NewRunId, IInv, TypeOK, storage
    <2>2. \/ pc' = "plan" /\ i' = 1 /\ ending' = "none"
          \/ pc' = "idle" /\ i' = 0 /\ ending' = "raised"
      BY <1>1 DEF RunTask, Raise
    <2>3. entries' \in Seq(Entry) /\ sink' \in Seq(Entry)
      <3>1. StartEntry(run_counter) \in Entry
        BY EntryTypes DEF IInv, TypeOK
      <3> QED BY <1>1, <3>1, EmitTypes DEF RunTask, IInv
    <2>4. TypeOK'
      BY <2>1, <2>2, <2>3 DEF IInv, TypeOK, Feedback
    <2> QED BY <2>1, <2>2, <2>4 DEF IInv, LoopInv, InLoop, CapExact, FeedbackFresh
  <1>2. ASSUME NEW c \in Caps, RejectCap(c) PROVE IInv'
    BY <1>2, LoopAssumption
       DEF RejectCap, IInv, TypeOK, LoopInv, InLoop, CapExact, FeedbackFresh,
           LastIteration, local, logger, storage
  <1>3. CASE PlannerPlans
    BY <1>3 DEF PlannerPlans, IInv, TypeOK, LoopInv, InLoop, CapExact, FeedbackFresh,
                LastIteration, logger, storage
  <1>4. CASE PlannerMalformed
    BY <1>4, PlannerMalformedInv
  <1>5. CASE ExecutorReturns
    BY <1>5 DEF ExecutorReturns, IInv, TypeOK, LoopInv, InLoop, CapExact, FeedbackFresh,
                LastIteration, logger, storage
  <1>6. CASE ExecutorRaises
    BY <1>6, ExecutorRaisesInv
  <1>7. CASE ReviewerDecides
    BY <1>7, ReviewerDecidesInv
  <1>8. CASE ReviewerMalformed
    BY <1>8, ReviewerMalformedInv
  <1>9. CASE AgentRaises
    BY <1>9 DEF AgentRaises, Raise, IInv, TypeOK, LoopInv, InLoop, CapExact, FeedbackFresh,
                LastIteration, local, logger, storage
  <1>10. CASE FinishRun
    <2>1. result \in RunResult /\ run_id \in Nat
      BY <1>10 DEF FinishRun, IInv, LoopInv, TypeOK
    <2>2. entries' \in Seq(Entry) /\ sink' \in Seq(Entry)
      BY <1>10, <2>1, EntryTypes, EmitTypes DEF FinishRun, IInv
    <2>3. pc' \in {"idle", "save"} /\ ending' \in {"none", "returned", "raised", "rejected"}
          /\ UNCHANGED <<runs, i, cap, iterations, prior_feedback, plan, execution_result,
                          result, run_id, run_counter, db, pending>>
      BY <1>10 DEF FinishRun, Return, Raise, IInv, TypeOK, local, storage
    <2>4. TypeOK'
      BY <2>2, <2>3 DEF IInv, TypeOK
    <2>5. result # None /\ (pc' = "save" => ending' = "none")
      BY <1>10 DEF FinishRun, IInv, LoopInv, Return, Raise
    <2> QED BY <2>3, <2>4, <2>5
            DEF IInv, LoopInv, InLoop, CapExact, FeedbackFresh, LastIteration
  <1>11. CASE SaveRun
    <2>1. result # None /\ Len(iterations) \in 0..Len(iterations)
      BY <1>11 DEF SaveRun, IInv, LoopInv, TypeOK
    <2>2. Saved(Len(iterations)) \in Row
      BY <2>1, SavedType DEF IInv
    <2>3. db' \in Seq(Row) /\ pending' \in Seq(Row)
      BY <1>11, <2>2 DEF SaveRun, IInv, TypeOK
    <2>4. pc' = "idle" /\ ending' = "returned"
          /\ UNCHANGED <<runs, i, cap, iterations, prior_feedback, plan, execution_result,
                          result, run_id, run_counter, entries, sink>>
      BY <1>11 DEF SaveRun, Return, local, logger
    <2>5. TypeOK'
      BY <2>3, <2>4 DEF IInv, TypeOK
    <2> QED BY <2>4, <2>5
            DEF IInv, LoopInv, InLoop, CapExact, FeedbackFresh, LastIteration
  <1>12. CASE SaveRunRaises
    <2>1. result # None
      BY <1>12 DEF SaveRunRaises, IInv, LoopInv
    <2>2. \A n \in 0..Len(iterations) : Saved(n) \in Row
      BY <2>1, SavedType DEF IInv
    <2>3. pending' \in Seq(Row)
      <3>1. pending \in Seq(Row) /\ <<>> \in Seq(Row)
        BY DEF IInv, TypeOK
      <3>2. \A n \in 0..Len(iterations) : Append(pending, Saved(n)) \in Seq(Row)
        BY <2>2, <3>1
      <3> QED BY <1>12, <3>1, <3>2 DEF SaveRunRaises
    <2>4. pc' = "idle" /\ ending' = "raised"
          /\ UNCHANGED <<runs, i, cap, iterations, prior_feedback, plan, execution_result,
                          result, run_id, run_counter, entries, sink, db>>
      BY <1>12 DEF SaveRunRaises, Raise, local, logger
    <2>5. TypeOK'
      BY <2>3, <2>4 DEF IInv, TypeOK
    <2> QED BY <2>4, <2>5
            DEF IInv, LoopInv, InLoop, CapExact, FeedbackFresh, LastIteration
  <1>13. CASE UNCHANGED vars
    BY <1>13 DEF vars, IInv, TypeOK, LoopInv, InLoop, CapExact, FeedbackFresh,
                 LastIteration, local, logger, storage
  <1> QED BY <1>1, <1>2, <1>3, <1>4, <1>5, <1>6, <1>7, <1>8, <1>9, <1>10, <1>11, <1>12,
             <1>13 DEF Next, Step

LEMMA Initially == Init => IInv
  BY LoopAssumption
     DEF Init, IInv, TypeOK, LoopInv, InLoop, CapExact, FeedbackFresh, Feedback

LEMMA Invariant == Spec => []IInv
  BY Initially, Inductive, PTL DEF Spec

\* Every variable keeps its type, over any number of runs.
THEOREM TypeCorrect == Spec => []TypeOK
  <1>1. IInv => TypeOK
    BY DEF IInv
  <1> QED BY <1>1, Invariant, PTL

\* A run makes at most max_iterations attempts, succeeds with its first and last
\* accepted one, and fails after exactly max_iterations rejections.
THEOREM CapExactHolds == Spec => []CapExact
  <1>1. IInv => CapExact
    BY DEF IInv
  <1> QED BY <1>1, Invariant, PTL

\* The planner is always told the reason of the attempt just rejected, and
\* nothing on a first attempt.
THEOREM FeedbackFreshHolds == Spec => []FeedbackFresh
  <1>1. IInv => FeedbackFresh
    BY DEF IInv
  <1> QED BY <1>1, Invariant, PTL

-----------------------------------------------------------------------------
(***************************************************************************)
(* The loop implements the contract of run_task, step by step.             *)
(***************************************************************************)
\* The end of an iteration is an attempt of the contract.
LEMMA EndIterationAttempts ==
  ASSUME IInv, InLoop, ending = "none", NEW it \in Iteration, NEW fb, EndIteration(it, fb)
  PROVE  Contract!Attempt
  <1> DEFINE n == Len(iterations)
  <1>1. n \in Nat /\ n < cap /\ (\A k \in 1..n : ~ iterations[k].accepted)
    BY DEF IInv, TypeOK, LoopInv
  <1>2. iterations' = Append(iterations, it) /\ iterations \in Seq(Iteration)
    BY DEF EndIteration, IInv, TypeOK
  <1>3. Len(iterations') = n + 1 /\ iterations'[n + 1] = it /\ iterations' # <<>>
    BY <1>2
  <1>4. (iterations' # <<>> /\ LastIteration'.accepted) \in BOOLEAN
    BY <1>3 DEF LastIteration, Iteration
  <1>5. ~ (iterations # <<>> /\ LastIteration.accepted)
    BY <1>1, <1>2 DEF LastIteration
  <1>6. /\ cap' = cap
        /\ \/ pc' # "idle" /\ ending' = ending
           \/ pc' = "idle" /\ ending' = "raised"
    BY DEF EndIteration, NextIteration, Raise, InLoop
  <1>7. pc # "idle"
    BY DEF InLoop
  <1> QED BY <1>1, <1>3, <1>4, <1>5, <1>6, <1>7 DEF Contract!Attempt

\* A run that is finishing has a result the contract allows.
LEMMA ResultReported ==
  ASSUME IInv, pc \in {"finish", "save"}
  PROVE  \/ result.status = "success" /\ iterations # <<>> /\ LastIteration.accepted
         \/ /\ result.status = "failed" /\ ~ LastIteration.accepted
            /\ Len(iterations) = cap
  <1>1. result \in RunResult /\ result # None
    BY DEF IInv, TypeOK, LoopInv
  <1> QED BY <1>1 DEF IInv, CapExact, RunResult

\* Every step of the loop is a step of the contract, or one its caller does not
\* see.
LEMMA StepImplements ==
  ASSUME IInv, IInv', [Next]_vars
  PROVE  [Contract!Next]_(Contract!vars)
  <1>1. ASSUME NEW c \in Caps, RunTask(c) PROVE Contract!Start
    <2>1. /\ iterations' = <<>> /\ cap' = c /\ pc = "idle"
          /\ c \in Nat \ {0}
      BY <1>1, LoopAssumption DEF RunTask, FreshLocals
    <2>2. \/ pc' = "plan" /\ ending' = "none"
          \/ pc' = "idle" /\ ending' = "raised"
      BY <1>1 DEF RunTask, Raise
    <2> QED BY <2>1, <2>2 DEF Contract!Start
  <1>2. ASSUME NEW c \in Caps, RejectCap(c) PROVE Contract!Refuse
    BY <1>2 DEF RejectCap, Contract!Refuse, local, LastIteration
  <1>3. CASE PlannerPlans \/ ExecutorReturns
    BY <1>3 DEF PlannerPlans, ExecutorReturns, Contract!vars, LastIteration
  <1>4. CASE PlannerMalformed \/ ExecutorRaises \/ ReviewerDecides \/ ReviewerMalformed
    <2>1. InLoop /\ ending = "none" /\ TypeOK
      BY <1>4 DEF PlannerMalformed, ExecutorRaises, ReviewerDecides, ReviewerMalformed,
                  InLoop, IInv, LoopInv
    <2>2. iterations' \in Seq(Iteration)
      BY DEF IInv, TypeOK
    <2>3. PICK it, fb : EndIteration(it, fb)
      BY <1>4 DEF PlannerMalformed, ExecutorRaises, ReviewerDecides, ReviewerMalformed
    <2>4. it \in Iteration
      <3>1. iterations' = Append(iterations, it) /\ iterations \in Seq(Iteration)
        BY <2>1, <2>3 DEF EndIteration, TypeOK
      <3>2. it = iterations'[Len(iterations) + 1] /\ Len(iterations') = Len(iterations) + 1
        BY <3>1
      <3> QED BY <2>2, <3>1, <3>2
    <2> QED BY <2>1, <2>3, <2>4, EndIterationAttempts DEF Contract!Next
  <1>5. CASE AgentRaises
    <2>1. pc # "idle" /\ pc' = "idle" /\ ending' = "raised" /\ UNCHANGED <<cap, iterations>>
      BY <1>5 DEF AgentRaises, Raise, local
    <2> QED BY <2>1 DEF Contract!Report, Contract!Next, LastIteration
  <1>6. CASE FinishRun
    <2>1. pc = "finish" /\ ending = "none" /\ UNCHANGED <<cap, iterations, result>>
      BY <1>6 DEF FinishRun, local, IInv, LoopInv
    <2>2. \/ pc' = "save" /\ ending' = ending
          \/ pc' = "idle" /\ ending' \in {"returned", "raised"}
      BY <1>6 DEF FinishRun, Return, Raise
    <2> QED BY <2>1, <2>2, ResultReported DEF Contract!Report, Contract!Next, Contract!vars, LastIteration
  <1>7. CASE SaveRun \/ SaveRunRaises
    <2>1. /\ pc = "save" /\ ending = "none" /\ UNCHANGED <<cap, iterations, result>>
          /\ pc' = "idle" /\ ending' \in {"returned", "raised"}
      BY <1>7 DEF SaveRun, SaveRunRaises, Return, Raise, local, IInv, LoopInv
    <2> QED BY <2>1, ResultReported DEF Contract!Report, Contract!Next, LastIteration
  <1>8. CASE UNCHANGED vars
    BY <1>8 DEF vars, local, Contract!vars, LastIteration
  <1> QED BY <1>1, <1>2, <1>3, <1>4, <1>5, <1>6, <1>7, <1>8
          DEF Next, Step, Contract!Next

LEMMA InitImplements == Init => Contract!Init
  BY DEF Init, Contract!Init

\* run_task keeps its contract: the steps of the loop are those of RunContract
\* (its fairness is left to model checking).
THEOREM ContractKept == Spec => Contract!Init /\ [][Contract!Next]_(Contract!vars)
  <1>1. Init => Contract!Init
    BY InitImplements
  <1>2. IInv /\ IInv' /\ [Next]_vars => [Contract!Next]_(Contract!vars)
    BY StepImplements
  <1> QED BY <1>1, <1>2, Invariant, PTL DEF Spec

-----------------------------------------------------------------------------
(***************************************************************************)
(* Why a run ends: three calls for each attempt, then the log and the      *)
(* database.                                                               *)
(***************************************************************************)
Left ==
  CASE pc = "idle"    -> 0
    [] pc = "save"    -> 1
    [] pc = "finish"  -> 2
    [] pc = "review"  -> 3 * (cap - i) + 3
    [] pc = "execute" -> 3 * (cap - i) + 4
    [] pc = "plan"    -> 3 * (cap - i) + 5

LEMMA LeftIsNat ==
  ASSUME IInv
  PROVE  Left \in Nat /\ (pc # "idle" => Left >= 1) /\ (InLoop => Left >= 3)
  <1>1. pc \in {"idle", "plan", "execute", "review", "finish", "save"}
    BY DEF IInv, TypeOK
  <1>2. CASE InLoop
    <2> DEFINE l == cap - i
    <2>1. l \in Nat
      BY <1>2 DEF IInv, TypeOK, LoopInv
    <2>2. Left \in {3 * l + 3, 3 * l + 4, 3 * l + 5}
      BY <1>2 DEF Left, InLoop
    <2> HIDE DEF l
    <2> QED BY <2>1, <2>2
  <1>3. CASE ~ InLoop
    BY <1>1, <1>3 DEF Left, InLoop
  <1> QED BY <1>2, <1>3

LEMMA EndIterationFalls ==
  ASSUME IInv, InLoop, NEW it, NEW fb, EndIteration(it, fb)
  PROVE  Left' < Left
  <1> DEFINE l == cap - i
  <1>1. l \in Nat /\ cap \in Int /\ i \in Nat /\ cap' = cap
    BY DEF IInv, TypeOK, LoopInv, EndIteration
  <1>2. Left \in {3 * l + 3, 3 * l + 4, 3 * l + 5}
    BY DEF Left, InLoop
  <1>3. \/ pc' = "idle" \/ pc' = "finish"
        \/ pc' = "plan" /\ i' = i + 1
    BY DEF EndIteration, NextIteration, Raise
  <1>4. CASE pc' = "idle" \/ pc' = "finish"
    <2>1. Left' \in {0, 2}
      BY <1>4 DEF Left
    <2> HIDE DEF l
    <2> QED BY <1>1, <1>2, <2>1
  <1>5. CASE pc' = "plan" /\ i' = i + 1
    <2>1. Left' = 3 * (cap - (i + 1)) + 5
      BY <1>1, <1>5 DEF Left
    <2>2. Left' = 3 * l + 2
      BY <1>1, <2>1
    <2> HIDE DEF l
    <2> QED BY <1>1, <1>2, <2>2
  <1> QED BY <1>3, <1>4, <1>5

LEMMA StepFalls ==
  ASSUME IInv, Step
  PROVE  Left' < Left
  <1>1. CASE PlannerPlans \/ ExecutorReturns
    <2>1. cap \in Int /\ i \in Nat /\ cap' = cap /\ i' = i
      BY <1>1 DEF IInv, TypeOK, PlannerPlans, ExecutorReturns
    <2> QED BY <1>1, <2>1 DEF Left, PlannerPlans, ExecutorReturns
  <1>2. CASE PlannerMalformed
    BY <1>2, EndIterationFalls DEF PlannerMalformed, InLoop
  <1>3. CASE ExecutorRaises
    BY <1>3, EndIterationFalls DEF ExecutorRaises, InLoop
  <1>4. CASE ReviewerDecides
    BY <1>4, EndIterationFalls DEF ReviewerDecides, InLoop
  <1>5. CASE ReviewerMalformed
    BY <1>5, EndIterationFalls DEF ReviewerMalformed, InLoop
  <1>6. CASE AgentRaises \/ SaveRun \/ SaveRunRaises
    <2>1. pc # "idle" /\ pc' = "idle"
      BY <1>6 DEF AgentRaises, SaveRun, SaveRunRaises, Raise, Return
    <2>2. Left \in Nat /\ Left >= 1
      BY <2>1, LeftIsNat
    <2>3. Left' = 0
      BY <2>1 DEF Left
    <2> QED BY <2>2, <2>3
  <1>7. CASE FinishRun
    BY <1>7 DEF FinishRun, Raise, Return, Left
  <1> QED BY <1>1, <1>2, <1>3, <1>4, <1>5, <1>6, <1>7 DEF Step

\* A run has a budget of 3 * max_iterations + 2 calls of its parts, and every
\* one of them lowers what is left, whatever they return or raise: the loop
\* "can never loop forever".
THEOREM RunBounded ==
  Spec => /\ [](Left \in Nat)
          /\ [][Step => Left' < Left]_vars
          /\ [][~ Step => Left' <= 3 * cap' + 2 \/ Left' = 0]_vars
  <1>1. IInv => Left \in Nat
    BY LeftIsNat
  <1>2. IInv => (Step => Left' < Left)
    BY StepFalls
  <1>3. IInv /\ [Next]_vars /\ ~ Step
        => (Left' <= 3 * cap' + 2 \/ Left' = 0) \/ UNCHANGED vars
    <2> SUFFICES ASSUME IInv, NEW c \in Caps, RunTask(c) \/ RejectCap(c)
                 PROVE  Left' <= 3 * cap' + 2 \/ Left' = 0
      BY DEF Next
    <2>1. CASE RunTask(c)
      <3>1. c \in Int
        BY LoopAssumption
      <3> QED BY <2>1, <3>1 DEF RunTask, Raise, Left
    <2>2. CASE RejectCap(c)
      BY <2>2 DEF RejectCap, Left
    <2> QED BY <2>1, <2>2
  <1> QED BY <1>1, <1>2, <1>3, Invariant, PTL DEF Spec
=============================================================================
