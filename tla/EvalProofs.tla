----------------------------- MODULE EvalProofs -----------------------------
(***************************************************************************)
(* Proofs of what the scripted runs of Eval keep for every suite, every    *)
(* script, every cap and every number of crashes and timeouts.             *)
(***************************************************************************)
EXTENDS Eval, TLAPS, SequenceTheorems, FiniteSetTheorems

Running == pc \in {"plan", "execute", "review"}

\* The types, and where the list of results stands.
StateInv ==
  /\ TypeOK
  /\ mode = "baseline" => scripts = Suite
  /\ Len(results) <= Len(scripts)
  /\ pc # "done" => Len(results) < Len(scripts)

(***************************************************************************)
(* The queues are as long as the attempts have left them.  An attempt      *)
(* takes its plan first; in the reviewed run it takes a verdict unless its *)
(* executor crashes; in the baseline only a crash leads to another attempt.*)
(***************************************************************************)
QueueInv ==
  /\ pc = "plan" => Len(planner) = Len(script) - i + 1
  /\ pc \in {"execute", "review"} => Len(planner) = Len(script) - i
  /\ Running /\ mode = "reviewed" => Len(reviewer) = Len(script) - i + 1 + crashes
  /\ Running /\ mode = "baseline" => crashes = i - 1
  /\ pc = "raised" => cap > Len(script)

\* The first attempt plays the script's first plan.
FirstInv ==
  /\ pc = "plan" /\ i = 1 => planner = Plans(script)
  /\ pc \in {"execute", "review"} /\ i = 1 => plan = script[1].good
  /\ pc = "review" /\ truth = "True" => plan
  /\ pc = "end" /\ mode = "baseline" /\ crashes = 0 =>
       i = 1 /\ accepted /\ (truth = "True" => script[1].good)

EvalInv == StateInv /\ QueueInv /\ FirstInv /\ BaselineGraded

\* The halves of a script are as long as it is.
LEMMA Halves ==
  ASSUME NEW s \in Seq(Round)
  PROVE  /\ Plans(s) \in Seq(BOOLEAN) /\ Len(Plans(s)) = Len(s)
         /\ Verdicts(s) \in Seq(BOOLEAN) /\ Len(Verdicts(s)) = Len(s)
         /\ \A k \in 1..Len(s) : Plans(s)[k] = s[k].good
  <1>1. Len(s) \in Nat /\ DOMAIN s = 1..Len(s) /\ \A k \in 1..Len(s) : s[k] \in Round
    OBVIOUS
  <1>2. \A k \in 1..Len(s) : s[k].good \in BOOLEAN /\ s[k].accepted \in BOOLEAN
    BY <1>1 DEF Round
  <1> QED BY <1>1, <1>2, LenProperties DEF Plans, Verdicts

\* What the types say of the scripts.
LEMMA ScriptTypes ==
  ASSUME StateInv
  PROVE  /\ scripts \in Seq(Seq(Round)) /\ Len(scripts) \in Nat /\ Len(scripts) >= 1
         /\ cap \in Nat /\ cap >= 1 /\ i \in Nat /\ i >= 1 /\ i <= cap
         /\ Len(results) \in Nat /\ DOMAIN results = 1..Len(results)
         /\ pc # "done" => script \in Seq(Round) /\ Len(script) \in Nat
  <1>1. scripts \in Seq(Seq(Round)) /\ scripts # <<>>
    <2>1. CASE scripts = Suite
      BY <2>1, EvalAssumption
    <2>2. CASE \E d \in Demos : scripts = <<d>>
      BY <2>2, EvalAssumption
    <2> QED BY <2>1, <2>2 DEF StateInv, TypeOK
  <1>2. Len(scripts) \in Nat /\ Len(scripts) >= 1
    BY <1>1
  <1>3. cap \in Nat /\ cap >= 1
    BY EvalAssumption DEF StateInv, TypeOK
  <1>4. i \in Nat /\ i >= 1 /\ i <= cap
    BY <1>3 DEF StateInv, TypeOK
  <1>5. Len(results) \in Nat /\ DOMAIN results = 1..Len(results)
    BY DEF StateInv, TypeOK
  <1>6. pc # "done" => script \in Seq(Round)
    BY <1>1, <1>5 DEF StateInv, script
  <1> QED BY <1>1, <1>2, <1>3, <1>4, <1>5, <1>6

\* What the beginning of a run sets up.
LEMMA BeginInv ==
  ASSUME NEW s \in Seq(Round), Begin(s), script' = s, 1 <= cap', cap' \in Nat
  PROVE  /\ planner' \in Seq(BOOLEAN) /\ reviewer' \in Seq(BOOLEAN)
         /\ pc' = "plan" /\ i' = 1 /\ i' \in 1..cap'
         /\ plan' = FALSE /\ accepted' = FALSE /\ truth' = "None"
         /\ crashes' = 0 /\ timeouts' = 0 /\ faults' = faults
         /\ QueueInv' /\ FirstInv'
  <1>1. /\ pc' = "plan" /\ i' = 1 /\ crashes' = 0 /\ timeouts' = 0 /\ faults' = faults
        /\ plan' = FALSE /\ accepted' = FALSE /\ truth' = "None"
        /\ planner' = Plans(s) /\ reviewer' = Verdicts(s)
    BY DEF Begin, FreshLLM
  <1>2. QueueInv'
    <2>1. Len(planner') = Len(s) /\ Len(reviewer') = Len(s) /\ Len(s) \in Nat
      BY <1>1, Halves
    <2> QED BY <1>1, <2>1 DEF QueueInv, Running
  <1>3. FirstInv'
    BY <1>1 DEF FirstInv
  <1> QED BY <1>1, <1>2, <1>3, Halves

\* The loop goes on to the next attempt, or is left.
LEMMA RejectedCases ==
  ASSUME StateInv, Rejected, cap' = cap
  PROVE  i' \in 1..cap' /\ ((pc' = "plan" /\ i' = i + 1) \/ (pc' = "end" /\ i' = i))
  <1>1. cap \in Nat /\ i \in Nat /\ i >= 1 /\ i <= cap
    BY ScriptTypes
  <1>2. (pc' = "plan" /\ i < cap /\ i' = i + 1) \/ (pc' = "end" /\ i' = i)
    BY DEF Rejected
  <1> QED BY <1>1, <1>2

\* A queue one shorter.
LEMMA Shorter ==
  ASSUME NEW q \in Seq(BOOLEAN), q # <<>>
  PROVE  Tail(q) \in Seq(BOOLEAN) /\ Len(Tail(q)) = Len(q) - 1 /\ Head(q) \in BOOLEAN
         /\ Head(q) = q[1]
  BY HeadTailProperties

\* The steps of a run leave its script and the results alone.
LEMMA SameRun ==
  ASSUME UNCHANGED <<input, results>>
  PROVE  script' = script
  BY DEF input, script

\* A plan is taken, or there is none.
LEMMA PlanInv ==
  ASSUME EvalInv, Plan
  PROVE  EvalInv'
  <1>1. /\ pc = "plan" /\ i' = i /\ cap' = cap /\ crashes' = crashes /\ mode' = mode
        /\ scripts' = scripts /\ results' = results /\ reviewer' = reviewer
        /\ accepted' = accepted /\ truth' = truth /\ reviewed' = reviewed
        /\ timeouts' = timeouts /\ faults' = faults
    BY DEF Plan, RanDry, input, history
  <1>2. script' = script
    BY <1>1, SameRun DEF input
  <1>3. BaselineGraded'
    BY <1>1 DEF EvalInv, BaselineGraded, RunEnd
  <1>4. /\ Len(planner) = Len(script) - i + 1 /\ planner \in Seq(BOOLEAN)
        /\ mode = "reviewed" => Len(reviewer) = Len(script) - i + 1 + crashes
        /\ mode = "baseline" => crashes = i - 1
        /\ i = 1 => planner = Plans(script)
    BY <1>1 DEF EvalInv, QueueInv, FirstInv, Running, StateInv, TypeOK
  <1>5. CASE planner = <<>> /\ RanDry
    <2>1. pc' = "raised" /\ planner' = planner /\ plan' = plan
      BY <1>5 DEF RanDry
    <2>2. cap > Len(script)
      BY <1>1, <1>4, <1>5, ScriptTypes DEF EvalInv
    <2>3. QueueInv' /\ FirstInv'
      BY <1>1, <1>2, <2>1, <2>2 DEF QueueInv, FirstInv, Running
    <2>4. StateInv'
      BY <1>1, <2>1 DEF EvalInv, StateInv, TypeOK
    <2> QED BY <1>3, <2>3, <2>4 DEF EvalInv
  <1>6. CASE planner # <<>> /\ pc' = "execute" /\ plan' = Head(planner) /\ planner' = Tail(planner)
    <2>1. /\ planner' \in Seq(BOOLEAN) /\ Len(planner') = Len(planner) - 1
          /\ plan' \in BOOLEAN /\ plan' = planner[1]
      BY <1>4, <1>6, Shorter
    <2>2. Len(planner') = Len(script) - i
      BY <1>1, <1>4, <2>1, ScriptTypes DEF EvalInv
    <2>3. i = 1 => plan' = script[1].good
      <3>1. script \in Seq(Round) /\ Len(script) \in Nat
        BY <1>1, ScriptTypes DEF EvalInv
      <3>2. Len(planner) >= 1
        BY <1>4, <1>6
      <3>3. i = 1 => 1 \in 1..Len(script)
        BY <1>4, <3>1, <3>2
      <3> QED BY <1>4, <2>1, <3>1, <3>3, Halves
    <2>4. QueueInv'
      BY <1>1, <1>2, <1>4, <1>6, <2>2 DEF QueueInv, Running
    <2>5. FirstInv'
      BY <1>1, <1>2, <1>6, <2>3 DEF FirstInv
    <2>6. StateInv'
      BY <1>1, <1>6, <2>1 DEF EvalInv, StateInv, TypeOK
    <2> QED BY <1>3, <2>4, <2>5, <2>6 DEF EvalInv
  <1> QED BY <1>5, <1>6 DEF Plan

\* The executor answers.
LEMMA ExecuteInv ==
  ASSUME EvalInv, Execute \/ ExecuteInVain
  PROVE  EvalInv'
  <1>1. /\ pc = "execute" /\ pc' = "review" /\ i' = i /\ cap' = cap /\ mode' = mode
        /\ scripts' = scripts /\ results' = results /\ reviewer' = reviewer
        /\ planner' = planner /\ plan' = plan /\ crashes' = crashes
        /\ accepted' = accepted /\ reviewed' = reviewed
    BY DEF Execute, ExecuteInVain, input, history
  <1>2. script' = script
    BY <1>1, SameRun DEF input
  <1>3. BaselineGraded'
    BY <1>1 DEF EvalInv, BaselineGraded
  <1>4. truth' \in {"True", "False", "None"} /\ (truth' = "True" => plan)
    BY DEF Execute, ExecuteInVain
  <1>5. timeouts' \in Nat /\ faults' \in 0..MaxFaults
    <2>1. /\ timeouts \in Nat /\ faults \in 0..MaxFaults /\ MaxFaults \in Nat
      BY EvalAssumption DEF EvalInv, StateInv, TypeOK
    <2>2. \/ timeouts' = timeouts /\ faults' = faults
          \/ timeouts' = timeouts + 1 /\ faults' = faults + 1 /\ faults < MaxFaults
      BY DEF Execute, ExecuteInVain, history
    <2> QED BY <2>1, <2>2
  <1>6. QueueInv'
    BY <1>1, <1>2 DEF EvalInv, QueueInv, Running
  <1>7. FirstInv'
    BY <1>1, <1>2, <1>4 DEF EvalInv, FirstInv
  <1>8. StateInv'
    BY <1>1, <1>4, <1>5 DEF EvalInv, StateInv, TypeOK
  <1> QED BY <1>3, <1>6, <1>7, <1>8 DEF EvalInv

\* The executor crashes: the attempt costs a plan and no verdict.
LEMMA CrashInv ==
  ASSUME EvalInv, Crash
  PROVE  EvalInv'
  <1>1. /\ pc = "execute" /\ Rejected /\ cap' = cap /\ mode' = mode
        /\ scripts' = scripts /\ results' = results /\ reviewer' = reviewer
        /\ planner' = planner /\ plan' = plan /\ crashes' = crashes + 1
        /\ truth' = "None" /\ accepted' = FALSE /\ reviewed' = reviewed
        /\ timeouts' = timeouts /\ faults' = faults + 1 /\ faults < MaxFaults
    BY DEF Crash, input
  <1>2. script' = script
    BY <1>1, SameRun DEF input
  <1>3. BaselineGraded'
    BY <1>1 DEF EvalInv, BaselineGraded
  <1>4. i' \in 1..cap' /\ ((pc' = "plan" /\ i' = i + 1) \/ (pc' = "end" /\ i' = i))
    BY <1>1, RejectedCases DEF EvalInv
  <1>5. /\ Len(planner) = Len(script) - i
        /\ mode = "reviewed" => Len(reviewer) = Len(script) - i + 1 + crashes
        /\ mode = "baseline" => crashes = i - 1
        /\ crashes \in Nat /\ i \in Nat /\ i >= 1 /\ Len(script) \in Nat
    BY <1>1, ScriptTypes DEF EvalInv, QueueInv, Running, StateInv, TypeOK
  <1>6. QueueInv'
    <2>1. CASE pc' = "plan" /\ i' = i + 1
      <3>1. /\ Len(planner) = Len(script) - (i + 1) + 1
            /\ mode = "reviewed" => Len(reviewer) = Len(script) - (i + 1) + 1 + (crashes + 1)
            /\ mode = "baseline" => crashes + 1 = (i + 1) - 1
        BY <1>5
      <3> QED BY <1>1, <1>2, <2>1, <3>1 DEF QueueInv, Running
    <2>2. CASE pc' = "end"
      BY <2>2 DEF QueueInv, Running
    <2> QED BY <1>4, <2>1, <2>2
  <1>7. FirstInv'
    <2>1. crashes' # 0 /\ i + 1 # 1
      BY <1>1, <1>5
    <2> QED BY <1>4, <2>1 DEF FirstInv
  <1>8. StateInv'
    <2>1. crashes' \in Nat /\ faults' \in 0..MaxFaults
      BY <1>1, <1>5, EvalAssumption DEF EvalInv, StateInv, TypeOK
    <2> QED BY <1>1, <1>4, <2>1 DEF EvalInv, StateInv, TypeOK
  <1> QED BY <1>3, <1>6, <1>7, <1>8 DEF EvalInv

\* A verdict is taken, or there is none.
LEMMA ReviewInv ==
  ASSUME EvalInv, Review
  PROVE  EvalInv'
  <1>1. /\ pc = "review" /\ mode = "reviewed" /\ cap' = cap /\ mode' = mode
        /\ scripts' = scripts /\ results' = results /\ planner' = planner /\ plan' = plan
        /\ crashes' = crashes /\ truth' = truth /\ reviewed' = reviewed
        /\ timeouts' = timeouts /\ faults' = faults
    BY DEF Review, RanDry, input, history
  <1>2. script' = script
    BY <1>1, SameRun DEF input
  <1>3. BaselineGraded'
    BY <1>1 DEF EvalInv, BaselineGraded
  <1>4. /\ Len(planner) = Len(script) - i
        /\ Len(reviewer) = Len(script) - i + 1 + crashes /\ reviewer \in Seq(BOOLEAN)
        /\ crashes \in Nat /\ i \in Nat /\ i >= 1 /\ i <= cap /\ cap \in Nat
        /\ Len(script) \in Nat
    BY <1>1, ScriptTypes DEF EvalInv, QueueInv, Running, StateInv, TypeOK
  <1>5. CASE reviewer = <<>> /\ RanDry /\ UNCHANGED <<i, accepted>>
    <2>1. pc' = "raised" /\ reviewer' = reviewer /\ i' = i /\ accepted' = accepted
      BY <1>5 DEF RanDry
    <2>2. cap > Len(script)
      <3>1. Len(reviewer) = 0
        BY <1>5
      <3> QED BY <1>4, <3>1
    <2>3. QueueInv' /\ FirstInv'
      BY <1>1, <1>2, <2>1, <2>2 DEF QueueInv, FirstInv, Running
    <2>4. StateInv'
      BY <1>1, <2>1 DEF EvalInv, StateInv, TypeOK
    <2> QED BY <1>3, <2>3, <2>4 DEF EvalInv
  <1>6. CASE reviewer # <<>> /\ Decided(Head(reviewer)) /\ reviewer' = Tail(reviewer)
    <2>1. /\ reviewer' \in Seq(BOOLEAN) /\ Len(reviewer') = Len(reviewer) - 1
          /\ accepted' \in BOOLEAN
      BY <1>4, <1>6, Shorter DEF Decided
    <2>2. i' \in 1..cap' /\ ((pc' = "plan" /\ i' = i + 1) \/ (pc' = "end" /\ i' = i))
      <3>1. CASE pc' = "end" /\ i' = i
        BY <1>1, <1>4, <3>1
      <3>2. CASE Rejected
        BY <1>1, <3>2, RejectedCases DEF EvalInv
      <3> QED BY <1>6, <3>1, <3>2 DEF Decided
    <2>3. QueueInv'
      <3>1. CASE pc' = "plan" /\ i' = i + 1
        <4>1. /\ Len(planner) = Len(script) - (i + 1) + 1
              /\ Len(reviewer') = Len(script) - (i + 1) + 1 + crashes
          BY <1>4, <2>1
        <4> QED BY <1>1, <1>2, <3>1, <4>1 DEF QueueInv, Running
      <3>2. CASE pc' = "end"
        BY <3>2 DEF QueueInv, Running
      <3> QED BY <2>2, <3>1, <3>2
    <2>4. FirstInv'
      <3>1. i + 1 # 1
        BY <1>4
      <3> QED BY <1>1, <2>2, <3>1 DEF FirstInv
    <2>5. StateInv'
      BY <1>1, <2>1, <2>2 DEF EvalInv, StateInv, TypeOK
    <2> QED BY <1>3, <2>3, <2>4, <2>5 DEF EvalInv
  <1> QED BY <1>5, <1>6 DEF Review

\* The baseline's reviewer accepts.
LEMMA AcceptInv ==
  ASSUME EvalInv, AlwaysAccept
  PROVE  EvalInv'
  <1>1. /\ pc = "review" /\ pc' = "end" /\ mode = "baseline" /\ cap' = cap /\ mode' = mode
        /\ scripts' = scripts /\ results' = results /\ planner' = planner /\ plan' = plan
        /\ reviewer' = reviewer /\ i' = i /\ accepted' = TRUE
        /\ crashes' = crashes /\ truth' = truth /\ reviewed' = reviewed
        /\ timeouts' = timeouts /\ faults' = faults
    BY DEF AlwaysAccept, Decided, input, history
  <1>2. script' = script
    BY <1>1, SameRun DEF input
  <1>3. BaselineGraded'
    BY <1>1 DEF EvalInv, BaselineGraded
  <1>4. /\ crashes = i - 1 /\ i \in Nat
        /\ i = 1 => plan = script[1].good
        /\ truth = "True" => plan
    BY <1>1, ScriptTypes DEF EvalInv, QueueInv, FirstInv, Running
  <1>5. crashes = 0 => i = 1
    BY <1>4
  <1>6. QueueInv' /\ FirstInv'
    BY <1>1, <1>2, <1>4, <1>5 DEF QueueInv, FirstInv, Running
  <1>7. StateInv'
    BY <1>1 DEF EvalInv, StateInv, TypeOK
  <1> QED BY <1>3, <1>6, <1>7 DEF EvalInv

\* Between the two runs of a task, and between tasks.
LEMMA StartBaselineInv ==
  ASSUME EvalInv, StartBaseline
  PROVE  EvalInv'
  <1>1. /\ pc = "end" /\ scripts = Suite /\ mode' = "baseline" /\ Begin(script)
        /\ scripts' = scripts /\ cap' = cap /\ results' = results /\ reviewed' = ThisRun
    BY DEF StartBaseline, input
  <1>2. script' = script /\ script \in Seq(Round)
    BY <1>1, SameRun, ScriptTypes DEF EvalInv, input
  <1>3. BaselineGraded'
    BY <1>1 DEF EvalInv, BaselineGraded
  <1>4. cap' \in Nat /\ 1 <= cap'
    BY <1>1, ScriptTypes DEF EvalInv
  <1>5. /\ planner' \in Seq(BOOLEAN) /\ reviewer' \in Seq(BOOLEAN)
        /\ pc' = "plan" /\ i' \in 1..cap' /\ plan' = FALSE /\ accepted' = FALSE
        /\ truth' = "None" /\ crashes' = 0 /\ timeouts' = 0 /\ faults' = faults
        /\ QueueInv' /\ FirstInv'
    BY <1>1, <1>2, <1>4, BeginInv
  <1>6. ThisRun \in RunEnd
    BY ScriptTypes DEF EvalInv, StateInv, TypeOK, ThisRun, RunEnd, GroundTruth
  <1>7. StateInv'
    BY <1>1, <1>5, <1>6 DEF EvalInv, StateInv, TypeOK
  <1> QED BY <1>3, <1>5, <1>7 DEF EvalInv

LEMMA EvaluateNextInv ==
  ASSUME EvalInv, EvaluateNext
  PROVE  EvalInv'
  <1> DEFINE r == [with_reviewer |-> reviewed, baseline |-> ThisRun]
             n == Len(results)
  <1>1. /\ pc = "end" /\ mode = "baseline" /\ scripts = Suite
        /\ results' = Append(results, r) /\ scripts' = scripts /\ cap' = cap
    BY DEF EvaluateNext, EvalInv, StateInv, input
  <1>2. ThisRun \in RunEnd /\ r \in TaskEvalResult
    <2>1. ThisRun \in RunEnd
      BY ScriptTypes DEF EvalInv, StateInv, TypeOK, ThisRun, RunEnd, GroundTruth
    <2> QED BY <2>1 DEF EvalInv, StateInv, TypeOK, TaskEvalResult
  <1>3. /\ results \in Seq(TaskEvalResult) /\ n \in Nat /\ n < Len(scripts)
        /\ scripts \in Seq(Seq(Round)) /\ Len(scripts) \in Nat
        /\ cap' \in Nat /\ 1 <= cap'
    BY <1>1, ScriptTypes DEF EvalInv, StateInv, TypeOK
  <1>4. r.baseline = ThisRun
    OBVIOUS
  <1> HIDE DEF r
  <1>5. /\ results' \in Seq(TaskEvalResult) /\ Len(results') = n + 1
        /\ DOMAIN results' = 1..(n + 1) /\ DOMAIN results = 1..n
        /\ results'[n + 1] = r /\ \A k \in 1..n : results'[k] = results[k]
    BY <1>1, <1>2, <1>3
  <1>6. crashes = 0 => i = 1 /\ accepted /\ (truth = "True" => scripts[n + 1][1].good)
    BY <1>1 DEF EvalInv, FirstInv, script
  <1>7. BaselineGraded'
    <2>1. ASSUME NEW k \in 1..(n + 1), results'[k].baseline.crashes = 0
          PROVE  /\ results'[k].baseline.iterations = 1 /\ results'[k].baseline.accepted
                 /\ results'[k].baseline.success => scripts'[k][1].good
      <3>1. CASE k \in 1..n
        BY <1>1, <1>5, <2>1, <3>1 DEF EvalInv, BaselineGraded
      <3>2. CASE k = n + 1
        <4>1. results'[k].baseline = ThisRun
          BY <1>4, <1>5, <3>2
        <4>2. /\ ThisRun.crashes = crashes /\ ThisRun.iterations = i
              /\ ThisRun.accepted = accepted /\ ThisRun.success = (truth = "True")
          BY DEF ThisRun, GroundTruth
        <4>3. crashes = 0
          BY <2>1, <4>1, <4>2
        <4>4. i = 1 /\ accepted /\ (truth = "True" => scripts[n + 1][1].good)
          BY <1>6, <4>3
        <4>5. scripts'[k] = scripts[n + 1]
          BY <1>1, <3>2
        <4>6. (ThisRun.success) => truth = "True"
          BY <4>2
        <4>7. ThisRun.iterations = 1 /\ ThisRun.accepted
          BY <4>2, <4>4
        <4>8. ThisRun.success => scripts'[k][1].good
          BY <4>4, <4>5, <4>6
        <4> QED BY <4>1, <4>7, <4>8
      <3> QED BY <1>3, <3>1, <3>2
    <2> QED BY <1>5, <2>1 DEF BaselineGraded
  <1>8. CASE /\ Len(results') < Len(Suite)
             /\ mode' = "reviewed" /\ reviewed' = NoRun /\ Begin(Suite[Len(results') + 1])
    <2> DEFINE s == Suite[Len(results') + 1]
    <2>1. s \in Seq(Round) /\ script' = s
      BY <1>1, <1>3, <1>5, <1>8 DEF script
    <2>2. Begin(s)
      BY <1>8
    <2> HIDE DEF s
    <2>3. /\ planner' \in Seq(BOOLEAN) /\ reviewer' \in Seq(BOOLEAN)
          /\ pc' = "plan" /\ i' \in 1..cap' /\ plan' = FALSE /\ accepted' = FALSE
          /\ truth' = "None" /\ crashes' = 0 /\ timeouts' = 0 /\ faults' = faults
          /\ QueueInv' /\ FirstInv'
      BY <1>3, <2>1, <2>2, BeginInv
    <2>4. NoRun \in RunEnd
      BY DEF NoRun, RunEnd
    <2>5. StateInv'
      <3>1. /\ scripts' = Suite \/ \E d \in Demos : scripts' = <<d>>
            /\ cap' \in Caps /\ faults' \in 0..MaxFaults /\ timeouts' \in Nat
        BY <1>1, <2>3 DEF EvalInv, StateInv, TypeOK
      <3>2. plan' \in BOOLEAN /\ accepted' \in BOOLEAN
        BY <2>3
      <3>3. TypeOK'
        BY <1>5, <1>8, <2>3, <2>4, <3>1, <3>2 DEF TypeOK
      <3> QED BY <1>1, <1>3, <1>5, <1>8, <3>3 DEF StateInv
    <2> QED BY <1>7, <2>3, <2>5 DEF EvalInv
  <1>9. CASE /\ Len(results') = Len(Suite) /\ pc' = "done"
             /\ UNCHANGED <<mode, planner, reviewer, i, plan, accepted, truth, reviewed, history>>
    <2>1. QueueInv' /\ FirstInv'
      BY <1>9 DEF QueueInv, FirstInv, Running
    <2>2. StateInv'
      BY <1>1, <1>3, <1>5, <1>9 DEF EvalInv, StateInv, TypeOK, history
    <2> QED BY <1>7, <2>1, <2>2 DEF EvalInv
  <1> QED BY <1>8, <1>9 DEF EvaluateNext

LEMMA ReturnInv ==
  ASSUME EvalInv, Return
  PROVE  EvalInv'
  <1>1. /\ pc' = "done" /\ i' = i /\ cap' = cap /\ mode' = mode /\ scripts' = scripts
        /\ results' = results /\ planner' = planner /\ plan' = plan /\ reviewer' = reviewer
        /\ accepted' = accepted /\ crashes' = crashes /\ truth' = truth
        /\ reviewed' = reviewed /\ timeouts' = timeouts /\ faults' = faults
    BY DEF Return, input, history
  <1>2. StateInv' /\ BaselineGraded'
    BY <1>1 DEF EvalInv, StateInv, TypeOK, BaselineGraded
  <1> QED BY <1>1, <1>2 DEF EvalInv, QueueInv, FirstInv, Running

LEMMA EvalStutters ==
  ASSUME EvalInv, UNCHANGED vars
  PROVE  EvalInv'
  <1>1. /\ pc' = pc /\ i' = i /\ cap' = cap /\ mode' = mode /\ scripts' = scripts
        /\ results' = results /\ planner' = planner /\ plan' = plan /\ reviewer' = reviewer
        /\ accepted' = accepted /\ crashes' = crashes /\ truth' = truth
        /\ reviewed' = reviewed /\ timeouts' = timeouts /\ faults' = faults
    BY DEF vars, input, history
  <1>2. script' = script
    BY <1>1, SameRun DEF input
  <1>3. StateInv' /\ BaselineGraded'
    BY <1>1 DEF EvalInv, StateInv, TypeOK, BaselineGraded
  <1>4. QueueInv' /\ FirstInv'
    BY <1>1, <1>2 DEF EvalInv, QueueInv, FirstInv, Running
  <1> QED BY <1>3, <1>4 DEF EvalInv

LEMMA EvalInitially == Init => EvalInv
  <1> SUFFICES ASSUME Init PROVE EvalInv
    OBVIOUS
  <1>1. /\ scripts = Suite \/ \E d \in Demos : scripts = <<d>>
        /\ cap \in Caps /\ mode = "reviewed" /\ pc = "plan" /\ i = 1 /\ results = <<>>
        /\ planner = Plans(scripts[1]) /\ reviewer = Verdicts(scripts[1])
        /\ plan = FALSE /\ accepted = FALSE /\ truth = "None" /\ reviewed = NoRun
        /\ crashes = 0 /\ timeouts = 0 /\ faults = 0
    BY DEF Init
  <1>2. scripts \in Seq(Seq(Round)) /\ Len(scripts) \in Nat /\ Len(scripts) >= 1
    <2>1. scripts \in Seq(Seq(Round)) /\ scripts # <<>>
      <3>1. CASE scripts = Suite
        BY <3>1, EvalAssumption
      <3>2. CASE \E d \in Demos : scripts = <<d>>
        BY <3>2, EvalAssumption
      <3> QED BY <1>1, <3>1, <3>2
    <2> QED BY <2>1
  <1>3. Len(results) = 0 /\ DOMAIN results = {}
    BY <1>1
  <1>4. script = scripts[1] /\ script \in Seq(Round)
    BY <1>2, <1>3 DEF script
  <1>5. /\ planner \in Seq(BOOLEAN) /\ reviewer \in Seq(BOOLEAN)
        /\ Len(planner) = Len(script) /\ Len(reviewer) = Len(script) /\ Len(script) \in Nat
    BY <1>1, <1>4, Halves
  <1>6. cap \in Nat /\ cap >= 1 /\ i \in 1..cap
    BY <1>1, EvalAssumption
  <1>7. StateInv
    <2>1. NoRun \in RunEnd /\ results \in Seq(TaskEvalResult) /\ 0 \in 0..MaxFaults
      BY <1>1, EvalAssumption DEF NoRun, RunEnd
    <2>2. plan \in BOOLEAN /\ accepted \in BOOLEAN
      BY <1>1
    <2>3. TypeOK
      BY <1>1, <1>5, <1>6, <2>1, <2>2 DEF TypeOK
    <2>4. Len(results) < Len(scripts) /\ mode # "baseline"
      BY <1>1, <1>2, <1>3
    <2> QED BY <1>2, <1>3, <2>3, <2>4 DEF StateInv
  <1>8. QueueInv /\ FirstInv
    BY <1>1, <1>4, <1>5 DEF QueueInv, FirstInv, Running
  <1>9. BaselineGraded
    BY <1>3 DEF BaselineGraded
  <1> QED BY <1>7, <1>8, <1>9 DEF EvalInv

LEMMA EvalInvariant == Spec => []EvalInv
  <1>1. EvalInv /\ [Next]_vars => EvalInv'
    BY PlanInv, ExecuteInv, CrashInv, ReviewInv, AcceptInv, StartBaselineInv,
       EvaluateNextInv, ReturnInv, EvalStutters DEF Next
  <1> QED BY <1>1, EvalInitially, PTL DEF Spec

\* The model is well typed for every suite and every cap.
THEOREM EvalTypeCorrect == Spec => []TypeOK
  <1>1. EvalInv => TypeOK
    BY DEF EvalInv, StateInv
  <1> QED BY <1>1, EvalInvariant, PTL

\* On every script, the verdicts fall behind the plans by one for each crash.
THEOREM QueuesDriftHolds == Spec => []QueuesDrift
  <1>1. EvalInv => QueuesDrift
    <2> SUFFICES ASSUME EvalInv, pc = "plan", mode = "reviewed"
                 PROVE  Len(reviewer) - Len(planner) = crashes
      BY DEF QueuesDrift
    <2>1. Len(script) \in Nat /\ i \in Nat /\ crashes \in Nat
      BY ScriptTypes DEF EvalInv, StateInv, TypeOK
    <2>2. /\ Len(planner) = Len(script) - i + 1
          /\ Len(reviewer) = Len(script) - i + 1 + crashes
      BY DEF EvalInv, QueueInv, Running
    <2> QED BY <2>1, <2>2
  <1> QED BY <1>1, EvalInvariant, PTL

\* A script of as many rounds as the cap never runs dry.
THEOREM CapStopsFirstHolds == Spec => []CapStopsFirst
  <1>1. EvalInv => CapStopsFirst
    BY DEF EvalInv, QueueInv, CapStopsFirst
  <1> QED BY <1>1, EvalInvariant, PTL

\* The baseline is graded by the tests of the script's first plan.
THEOREM BaselineGradedHolds == Spec => []BaselineGraded
  <1>1. EvalInv => BaselineGraded
    BY DEF EvalInv
  <1> QED BY <1>1, EvalInvariant, PTL

-----------------------------------------------------------------------------
(***************************************************************************)
(* What a run without a crash or a timeout makes of its script.            *)
(***************************************************************************)
\* It ends with the first round whose verdict accepts, or where the cap cuts
\* the script; its success is that of this round's plan.
Played(s, n, run) ==
  FaultFree(run) =>
    /\ run.iterations \in 1..Len(s)
    /\ run.success <=> s[run.iterations].good
    /\ run.accepted <=> s[run.iterations].accepted
    /\ \A k \in 1..(run.iterations - 1) : ~ s[k].accepted
    /\ run.accepted \/ run.iterations = n

\* Without the reviewer it is the first round's plan.
ShotOnce(s, run) ==
  FaultFree(run) => Len(s) >= 1 /\ (run.success <=> s[1].good)

\* The tasks with a crash or a timeout in one of their runs.
Faulty(R) == {k \in DOMAIN R : ~ (FaultFree(R[k].with_reviewer) /\ FaultFree(R[k].baseline))}

\* The faults of the task at hand.
Spent ==
  crashes + timeouts + IF mode = "baseline" THEN reviewed.crashes + reviewed.timeouts ELSE 0

\* As long as no executor has crashed, plans and verdicts are of one round.
InStep == mode = "reviewed" /\ crashes = 0

VerdictsInv ==
  Running /\ InStep =>
    /\ \A k \in 1..Len(reviewer) : reviewer[k] <=> script[i - 1 + k].accepted
    /\ \A k \in 1..(i - 1) : ~ script[k].accepted

PlansInv ==
  /\ pc = "plan" /\ InStep =>
       \A k \in 1..Len(planner) : planner[k] <=> script[i - 1 + k].good
  /\ pc \in {"execute", "review"} /\ InStep =>
       /\ plan <=> script[i].good
       /\ \A k \in 1..Len(planner) : planner[k] <=> script[i + k].good
  /\ pc = "review" /\ timeouts = 0 => (truth = "True" <=> plan)

EndInv ==
  /\ pc = "end" /\ mode = "reviewed" => Played(script, cap, ThisRun)
  /\ pc = "end" /\ mode = "baseline" => ShotOnce(script, ThisRun)
  /\ pc # "done" /\ mode = "baseline" => Played(script, cap, reviewed)

ResultsInv ==
  \A k \in DOMAIN results : /\ Played(scripts[k], cap, results[k].with_reviewer)
                            /\ ShotOnce(scripts[k], results[k].baseline)

CountInv ==
  /\ pc # "done" => Cardinality(Faulty(results)) + Spent <= faults
  /\ Cardinality(Faulty(results)) <= faults

PlayInv == VerdictsInv /\ PlansInv /\ EndInv /\ ResultsInv /\ CountInv

\* The types that the steps below need.
LEMMA PlayTypes ==
  ASSUME EvalInv
  PROVE  /\ scripts \in Seq(Seq(Round)) /\ Len(scripts) \in Nat /\ DOMAIN scripts = 1..Len(scripts)
         /\ cap \in Nat /\ cap >= 1 /\ i \in Nat /\ i >= 1 /\ i <= cap
         /\ Len(results) \in Nat /\ DOMAIN results = 1..Len(results)
         /\ pc # "done" => script \in Seq(Round) /\ Len(script) \in Nat
         /\ crashes \in Nat /\ timeouts \in Nat /\ faults \in Nat
         /\ reviewed.crashes \in Nat /\ reviewed.timeouts \in Nat
         /\ planner \in Seq(BOOLEAN) /\ Len(planner) \in Nat
         /\ reviewer \in Seq(BOOLEAN) /\ Len(reviewer) \in Nat
  <1>1. StateInv /\ TypeOK
    BY DEF EvalInv, StateInv
  <1>2. /\ scripts \in Seq(Seq(Round)) /\ Len(scripts) \in Nat
        /\ cap \in Nat /\ cap >= 1 /\ i \in Nat /\ i >= 1 /\ i <= cap
        /\ Len(results) \in Nat /\ DOMAIN results = 1..Len(results)
        /\ pc # "done" => script \in Seq(Round) /\ Len(script) \in Nat
    BY <1>1, ScriptTypes
  <1>3. crashes \in Nat /\ timeouts \in Nat /\ faults \in Nat
    BY <1>1, EvalAssumption DEF TypeOK
  <1>4. reviewed.crashes \in Nat /\ reviewed.timeouts \in Nat
    BY <1>1 DEF TypeOK, RunEnd
  <1>5. /\ planner \in Seq(BOOLEAN) /\ Len(planner) \in Nat
        /\ reviewer \in Seq(BOOLEAN) /\ Len(reviewer) \in Nat
    BY <1>1 DEF TypeOK
  <1> QED BY <1>2, <1>3, <1>4, <1>5

\* The faulty tasks are finitely many, and no more than there are tasks.
LEMMA FaultyFinite ==
  ASSUME NEW R, NEW n \in Nat, DOMAIN R = 1..n
  PROVE  IsFiniteSet(Faulty(R)) /\ Cardinality(Faulty(R)) \in Nat
  <1>1. IsFiniteSet(1..n)
    BY FS_Interval
  <1>2. Faulty(R) \subseteq 1..n
    BY DEF Faulty
  <1>3. IsFiniteSet(Faulty(R))
    BY <1>1, <1>2, FS_Subset
  <1> QED BY <1>3, FS_CardinalityType

\* A fault of the run at hand is one of all runs.
LEMMA CountStep ==
  ASSUME EvalInv, CountInv, pc # "done", NEW d \in Nat,
         mode' = mode, reviewed' = reviewed, results' = results,
         crashes' + timeouts' = crashes + timeouts + d, faults' = faults + d
  PROVE  CountInv'
  <1> DEFINE c == Cardinality(Faulty(results))
             b == IF mode = "baseline" THEN reviewed.crashes + reviewed.timeouts ELSE 0
  <1>1. c \in Nat
    <2>1. Len(results) \in Nat /\ DOMAIN results = 1..Len(results)
      BY PlayTypes
    <2> QED BY <2>1, FaultyFinite
  <1>2. c' = c /\ b' = b
    OBVIOUS
  <1>3. crashes \in Nat /\ timeouts \in Nat /\ faults \in Nat /\ b \in Nat
    <2>1. /\ crashes \in Nat /\ timeouts \in Nat /\ faults \in Nat
          /\ reviewed.crashes \in Nat /\ reviewed.timeouts \in Nat
      BY PlayTypes
    <2>2. reviewed.crashes + reviewed.timeouts \in Nat
      BY <2>1
    <2> QED BY <2>1, <2>2
  <1>4. Spent = crashes + timeouts + b /\ Spent' = crashes' + timeouts' + b'
    BY DEF Spent
  <1>5. c + Spent <= faults /\ c <= faults
    BY DEF CountInv
  <1>6. CountInv' <=> (pc' # "done" => c' + Spent' <= faults') /\ c' <= faults'
    BY DEF CountInv
  <1> HIDE DEF c, b
  <1>7. Spent' = crashes + timeouts + d + b
    BY <1>2, <1>4
  <1>8. c + Spent + d <= faults + d /\ c <= faults + d
    BY <1>1, <1>3, <1>4, <1>5
  <1>9. c + Spent' <= faults + d
    BY <1>1, <1>3, <1>4, <1>7, <1>8
  <1> QED BY <1>2, <1>6, <1>8, <1>9

\* A step inside a run leaves what is known of the runs before it.
LEMMA EndsKept ==
  ASSUME PlayInv, pc # "done", pc' \notin {"end", "done"},
         mode' = mode, reviewed' = reviewed, results' = results, script' = script,
         cap' = cap, scripts' = scripts
  PROVE  EndInv' /\ ResultsInv'
  <1>1. EndInv'
    <2>1. mode = "baseline" => Played(script, cap, reviewed)
      BY DEF PlayInv, EndInv
    <2>2. Played(script, cap, reviewed)' = Played(script, cap, reviewed)
      BY DEF Played, FaultFree
    <2> QED BY <2>1, <2>2 DEF EndInv
  <1>2. ResultsInv'
    BY DEF PlayInv, ResultsInv, Played, ShotOnce, FaultFree
  <1> QED BY <1>1, <1>2

LEMMA PlanPlay ==
  ASSUME EvalInv, PlayInv, Plan
  PROVE  PlayInv'
  <1>1. /\ pc = "plan" /\ i' = i /\ cap' = cap /\ crashes' = crashes /\ mode' = mode
        /\ scripts' = scripts /\ results' = results /\ reviewer' = reviewer
        /\ truth' = truth /\ reviewed' = reviewed /\ timeouts' = timeouts /\ faults' = faults
    BY DEF Plan, RanDry, input, history
  <1>2. script' = script
    BY <1>1, SameRun DEF input
  <1>3. CountInv'
    <2>1. crashes' + timeouts' = crashes + timeouts + 0 /\ faults' = faults + 0
      BY <1>1, PlayTypes
    <2> QED BY <1>1, <2>1, CountStep DEF PlayInv
  <1>4. pc' = "raised" \/ pc' = "execute"
    BY DEF Plan, RanDry
  <1>5. EndInv' /\ ResultsInv'
    BY <1>1, <1>2, <1>4, EndsKept
  <1>6. CASE planner = <<>> /\ RanDry
    <2>1. pc' = "raised"
      BY <1>6 DEF RanDry
    <2> QED BY <1>3, <1>5, <2>1 DEF PlayInv, VerdictsInv, PlansInv, Running
  <1>7. CASE planner # <<>> /\ pc' = "execute" /\ plan' = Head(planner) /\ planner' = Tail(planner)
    <2>1. VerdictsInv'
      BY <1>1, <1>2, <1>7 DEF PlayInv, VerdictsInv, Running, InStep
    <2>2. PlansInv'
      <3> SUFFICES ASSUME InStep
                   PROVE  /\ plan' <=> script[i].good
                          /\ \A k \in 1..Len(planner') : planner'[k] <=> script[i + k].good
        BY <1>1, <1>2, <1>7 DEF PlansInv, InStep
      <3>1. \A k \in 1..Len(planner) : planner[k] <=> script[i - 1 + k].good
        BY <1>1 DEF PlayInv, PlansInv
      <3>2. /\ planner \in Seq(BOOLEAN) /\ Len(planner) \in Nat /\ i \in Nat
        BY PlayTypes
      <3>3. /\ Len(planner') = Len(planner) - 1 /\ Len(planner) >= 1 /\ plan' = planner[1]
            /\ \A k \in 1..Len(planner') : planner'[k] = planner[k + 1]
        BY <1>7, <3>2, HeadTailProperties
      <3>4. plan' <=> script[i].good
        <4>1. 1 \in 1..Len(planner) /\ i - 1 + 1 = i
          BY <3>2, <3>3
        <4>2. planner[1] <=> script[i].good
          BY <3>1, <4>1
        <4> QED BY <3>3, <4>2, Zenon
      <3>5. ASSUME NEW k \in 1..Len(planner')
            PROVE  planner'[k] <=> script[i + k].good
        <4>1. k + 1 \in 1..Len(planner) /\ i - 1 + (k + 1) = i + k
          BY <3>2, <3>3
        <4>2. planner[k + 1] <=> script[i + k].good
          BY <3>1, <4>1
        <4>3. planner'[k] = planner[k + 1]
          BY <3>3
        <4> QED BY <4>2, <4>3, Zenon
      <3> QED BY <3>4, <3>5
    <2> QED BY <1>3, <1>5, <2>1, <2>2 DEF PlayInv
  <1> QED BY <1>6, <1>7 DEF Plan

LEMMA ExecutePlay ==
  ASSUME EvalInv, PlayInv, Execute
  PROVE  PlayInv'
  <1>1. /\ pc = "execute" /\ pc' = "review" /\ i' = i /\ cap' = cap /\ crashes' = crashes
        /\ mode' = mode /\ scripts' = scripts /\ results' = results /\ reviewer' = reviewer
        /\ planner' = planner /\ plan' = plan /\ truth' = (IF plan THEN "True" ELSE "False")
        /\ reviewed' = reviewed /\ timeouts' = timeouts /\ faults' = faults
    BY DEF Execute, input, history
  <1>2. script' = script
    BY <1>1, SameRun DEF input
  <1>3. CountInv'
    <2>1. crashes' + timeouts' = crashes + timeouts + 0 /\ faults' = faults + 0
      BY <1>1, PlayTypes
    <2> QED BY <1>1, <2>1, CountStep DEF PlayInv
  <1>4. EndInv' /\ ResultsInv'
    BY <1>1, <1>2, EndsKept
  <1>5. VerdictsInv'
    BY <1>1, <1>2 DEF PlayInv, VerdictsInv, Running, InStep
  <1>6. truth' = "True" <=> plan'
    BY <1>1
  <1>7. PlansInv'
    BY <1>1, <1>2, <1>6 DEF PlayInv, PlansInv, InStep
  <1> QED BY <1>3, <1>4, <1>5, <1>7 DEF PlayInv

LEMMA ExecuteInVainPlay ==
  ASSUME EvalInv, PlayInv, ExecuteInVain
  PROVE  PlayInv'
  <1>1. /\ pc = "execute" /\ pc' = "review" /\ i' = i /\ cap' = cap /\ crashes' = crashes
        /\ mode' = mode /\ scripts' = scripts /\ results' = results /\ reviewer' = reviewer
        /\ planner' = planner /\ plan' = plan
        /\ reviewed' = reviewed /\ timeouts' = timeouts + 1 /\ faults' = faults + 1
    BY DEF ExecuteInVain, input
  <1>2. script' = script
    BY <1>1, SameRun DEF input
  <1>3. CountInv'
    <2>1. crashes' + timeouts' = crashes + timeouts + 1 /\ faults' = faults + 1
      BY <1>1, PlayTypes
    <2> QED BY <1>1, <2>1, CountStep DEF PlayInv
  <1>4. EndInv' /\ ResultsInv'
    BY <1>1, <1>2, EndsKept
  <1>5. VerdictsInv'
    BY <1>1, <1>2 DEF PlayInv, VerdictsInv, Running, InStep
  <1>6. timeouts' # 0
    BY <1>1, PlayTypes
  <1>7. PlansInv'
    BY <1>1, <1>2, <1>6 DEF PlayInv, PlansInv, InStep
  <1> QED BY <1>3, <1>4, <1>5, <1>7 DEF PlayInv

\* A crash takes the queues out of step.
LEMMA CrashPlay ==
  ASSUME EvalInv, PlayInv, Crash
  PROVE  PlayInv'
  <1>1. /\ pc = "execute" /\ Rejected /\ cap' = cap /\ mode' = mode
        /\ scripts' = scripts /\ results' = results /\ crashes' = crashes + 1
        /\ reviewed' = reviewed /\ timeouts' = timeouts /\ faults' = faults + 1
    BY DEF Crash, input
  <1>2. script' = script
    BY <1>1, SameRun DEF input
  <1>3. CountInv'
    <2>1. crashes' + timeouts' = crashes + timeouts + 1 /\ faults' = faults + 1
      BY <1>1, PlayTypes
    <2> QED BY <1>1, <2>1, CountStep DEF PlayInv
  <1>4. crashes' # 0
    BY <1>1, PlayTypes
  <1>5. pc' \in {"plan", "end"}
    BY <1>1 DEF Rejected
  <1>6. VerdictsInv' /\ PlansInv'
    BY <1>4, <1>5 DEF VerdictsInv, PlansInv, InStep
  <1>7. ResultsInv'
    BY <1>1 DEF PlayInv, ResultsInv, Played, ShotOnce, FaultFree
  <1>8. EndInv'
    <2>1. mode = "baseline" => Played(script, cap, reviewed)
      BY <1>1 DEF PlayInv, EndInv
    <2>2. Played(script, cap, reviewed)' = Played(script, cap, reviewed)
      BY <1>1, <1>2 DEF Played, FaultFree
    <2>3. ~ FaultFree(ThisRun)'
      BY <1>4 DEF FaultFree, ThisRun
    <2>4. Played(script, cap, ThisRun)' /\ ShotOnce(script, ThisRun)'
      BY <2>3 DEF Played, ShotOnce, FaultFree
    <2> QED BY <1>1, <2>1, <2>2, <2>4 DEF EndInv
  <1> QED BY <1>3, <1>6, <1>7, <1>8 DEF PlayInv

\* A verdict is that of the attempt's own round, and ends the run or does not.
LEMMA ReviewPlay ==
  ASSUME EvalInv, PlayInv, Review
  PROVE  PlayInv'
  <1>1. /\ pc = "review" /\ mode = "reviewed" /\ cap' = cap /\ mode' = mode
        /\ scripts' = scripts /\ results' = results /\ planner' = planner /\ plan' = plan
        /\ crashes' = crashes /\ truth' = truth /\ reviewed' = reviewed
        /\ timeouts' = timeouts /\ faults' = faults
    BY DEF Review, RanDry, input, history
  <1>2. script' = script
    BY <1>1, SameRun DEF input
  <1>3. CountInv'
    <2>1. crashes' + timeouts' = crashes + timeouts + 0 /\ faults' = faults + 0
      BY <1>1, PlayTypes
    <2> QED BY <1>1, <2>1, CountStep DEF PlayInv
  <1>4. ResultsInv'
    BY <1>1 DEF PlayInv, ResultsInv, Played, ShotOnce, FaultFree
  <1>5. CASE reviewer = <<>> /\ RanDry
    <2>1. pc' = "raised"
      BY <1>5 DEF RanDry
    <2>2. EndInv'
      BY <1>1, <2>1 DEF EndInv
    <2> QED BY <1>3, <1>4, <2>1, <2>2 DEF PlayInv, VerdictsInv, PlansInv, Running
  <1>6. CASE reviewer # <<>> /\ Decided(Head(reviewer)) /\ reviewer' = Tail(reviewer)
    <2>1. /\ planner \in Seq(BOOLEAN) /\ Len(planner) \in Nat /\ reviewer \in Seq(BOOLEAN)
          /\ Len(reviewer) \in Nat /\ i \in Nat /\ i >= 1 /\ cap \in Nat /\ i <= cap
          /\ Len(script) \in Nat
      BY <1>1, PlayTypes
    <2>2. i <= Len(script)
      BY <1>1, <2>1 DEF EvalInv, QueueInv
    <2>3. /\ Len(reviewer') = Len(reviewer) - 1 /\ Len(reviewer) >= 1
          /\ Head(reviewer) = reviewer[1]
          /\ \A k \in 1..Len(reviewer') : reviewer'[k] = reviewer[k + 1]
      BY <1>6, <2>1, HeadTailProperties
    <2>4. accepted' = reviewer[1]
      BY <1>6, <2>3 DEF Decided
    <2>5. \/ reviewer[1] /\ pc' = "end" /\ i' = i
          \/ ~ reviewer[1] /\ i < cap /\ pc' = "plan" /\ i' = i + 1
          \/ ~ reviewer[1] /\ i = cap /\ pc' = "end" /\ i' = i
      BY <1>6, <2>3 DEF Decided, Rejected
    <2>6. InStep =>
            /\ reviewer[1] <=> script[i].accepted
            /\ \A k \in 1..(i - 1) : ~ script[k].accepted
            /\ \A k \in 1..Len(reviewer') : reviewer'[k] <=> script[i + k].accepted
      <3> SUFFICES ASSUME InStep
                   PROVE  /\ reviewer[1] <=> script[i].accepted
                          /\ \A k \in 1..(i - 1) : ~ script[k].accepted
                          /\ \A k \in 1..Len(reviewer') : reviewer'[k] <=> script[i + k].accepted
        OBVIOUS
      <3>1. /\ \A k \in 1..Len(reviewer) : reviewer[k] <=> script[i - 1 + k].accepted
            /\ \A k \in 1..(i - 1) : ~ script[k].accepted
        BY <1>1 DEF PlayInv, VerdictsInv, Running
      <3>2. reviewer[1] <=> script[i].accepted
        <4>1. 1 \in 1..Len(reviewer) /\ i - 1 + 1 = i
          BY <2>1, <2>3
        <4> QED BY <3>1, <4>1
      <3>3. ASSUME NEW k \in 1..Len(reviewer')
            PROVE  reviewer'[k] <=> script[i + k].accepted
        <4>1. k + 1 \in 1..Len(reviewer) /\ i - 1 + (k + 1) = i + k
          BY <2>1, <2>3
        <4>2. reviewer[k + 1] <=> script[i + k].accepted
          BY <3>1, <4>1
        <4>3. reviewer'[k] = reviewer[k + 1]
          BY <2>3
        <4> QED BY <4>2, <4>3, Zenon
      <3> QED BY <3>1, <3>2, <3>3
    <2>7. InStep =>
            /\ plan <=> script[i].good
            /\ \A k \in 1..Len(planner) : planner[k] <=> script[i + k].good
      BY <1>1 DEF PlayInv, PlansInv
    <2>8. timeouts = 0 => (truth = "True" <=> plan)
      BY <1>1 DEF PlayInv, PlansInv
    <2>9. CASE ~ reviewer[1] /\ pc' = "plan" /\ i' = i + 1
      <3>1. VerdictsInv'
        <4> SUFFICES ASSUME InStep
                     PROVE  /\ \A k \in 1..Len(reviewer') : reviewer'[k] <=> script[i' - 1 + k].accepted
                            /\ \A k \in 1..(i' - 1) : ~ script[k].accepted
          BY <1>1, <1>2, <2>9 DEF VerdictsInv, InStep
        <4>1. i' - 1 = i
          BY <2>1, <2>9
        <4>2. ~ script[i].accepted
          BY <2>6, <2>9, Zenon
        <4>3. \A k \in 1..i : k = i \/ k \in 1..(i - 1)
          BY <2>1
        <4>4. \A k \in 1..i : ~ script[k].accepted
          BY <2>6, <4>2, <4>3
        <4> QED BY <2>6, <4>1, <4>4
      <3>2. PlansInv'
        <4>1. i' - 1 = i
          BY <2>1, <2>9
        <4> QED BY <1>1, <1>2, <2>7, <2>9, <4>1 DEF PlansInv, InStep
      <3>3. EndInv'
        BY <1>1, <2>9 DEF EndInv
      <3> QED BY <1>3, <1>4, <3>1, <3>2, <3>3 DEF PlayInv
    <2>10. CASE pc' = "end" /\ i' = i /\ (reviewer[1] \/ i = cap)
      <3>1. VerdictsInv' /\ PlansInv'
        BY <2>10 DEF VerdictsInv, PlansInv, Running
      <3>2. Played(script, cap, ThisRun)'
        <4> DEFINE run == [success |-> truth = "True", iterations |-> i, accepted |-> reviewer[1],
                           crashes |-> crashes, timeouts |-> timeouts]
        <4>1. ThisRun' = run
          BY <1>1, <2>4, <2>10 DEF ThisRun, GroundTruth
        <4>2. Played(script, cap, ThisRun)' = Played(script, cap, ThisRun')
          BY <1>1, <1>2 DEF Played, FaultFree
        <4>3. ASSUME crashes = 0, timeouts = 0
              PROVE  /\ i \in 1..Len(script)
                     /\ truth = "True" <=> script[i].good
                     /\ reviewer[1] <=> script[i].accepted
                     /\ \A k \in 1..(i - 1) : ~ script[k].accepted
                     /\ reviewer[1] \/ i = cap
          <5>1. InStep
            BY <1>1, <4>3 DEF InStep
          <5>2. truth = "True" <=> script[i].good
            BY <2>7, <2>8, <4>3, <5>1, Zenon
          <5>3. i \in 1..Len(script)
            BY <2>1, <2>2
          <5> QED BY <2>6, <2>10, <5>1, <5>2, <5>3
        <4>4. /\ run.crashes = crashes /\ run.timeouts = timeouts /\ run.iterations = i
              /\ run.accepted = reviewer[1] /\ run.success = (truth = "True")
          OBVIOUS
        <4>5. FaultFree(run) => crashes = 0 /\ timeouts = 0
          BY <4>4 DEF FaultFree
        <4> HIDE DEF run
        <4>6. Played(script, cap, run)
          BY <4>3, <4>4, <4>5, Zenon DEF Played
        <4> QED BY <4>1, <4>2, <4>6
      <3>3. EndInv'
        BY <1>1, <3>2 DEF EndInv
      <3> QED BY <1>3, <1>4, <3>1, <3>3 DEF PlayInv
    <2> QED BY <2>5, <2>9, <2>10
  <1> QED BY <1>5, <1>6 DEF Review

\* The baseline ends, with its first attempt if no executor crashed.
LEMMA AcceptPlay ==
  ASSUME EvalInv, PlayInv, AlwaysAccept
  PROVE  PlayInv'
  <1>1. /\ pc = "review" /\ pc' = "end" /\ mode = "baseline" /\ cap' = cap /\ mode' = mode
        /\ scripts' = scripts /\ results' = results /\ plan' = plan
        /\ i' = i /\ crashes' = crashes /\ truth' = truth /\ reviewed' = reviewed
        /\ timeouts' = timeouts /\ faults' = faults
    BY DEF AlwaysAccept, Decided, input, history
  <1>2. script' = script
    BY <1>1, SameRun DEF input
  <1>3. CountInv'
    <2>1. crashes' + timeouts' = crashes + timeouts + 0 /\ faults' = faults + 0
      BY <1>1, PlayTypes
    <2> QED BY <1>1, <2>1, CountStep DEF PlayInv
  <1>4. ResultsInv'
    BY <1>1 DEF PlayInv, ResultsInv, Played, ShotOnce, FaultFree
  <1>5. VerdictsInv' /\ PlansInv'
    BY <1>1 DEF VerdictsInv, PlansInv, Running
  <1>6. ASSUME crashes = 0, timeouts = 0
        PROVE  Len(script) >= 1 /\ (truth = "True" <=> script[1].good)
    <2>1. i \in Nat /\ Len(script) \in Nat /\ Len(planner) \in Nat
      BY <1>1, PlayTypes
    <2>2. i = 1
      BY <1>1, <1>6, <2>1 DEF EvalInv, QueueInv, Running
    <2>3. plan = script[1].good
      BY <1>1, <2>2 DEF EvalInv, FirstInv
    <2>4. truth = "True" <=> plan
      BY <1>1, <1>6 DEF PlayInv, PlansInv
    <2>5. Len(script) >= 1
      BY <1>1, <2>1, <2>2 DEF EvalInv, QueueInv
    <2> QED BY <2>3, <2>4, <2>5, Zenon
  <1>7. ShotOnce(script, ThisRun)'
    <2> DEFINE run == [success |-> truth = "True", iterations |-> i, accepted |-> accepted',
                       crashes |-> crashes, timeouts |-> timeouts]
    <2>1. ThisRun' = run
      BY <1>1 DEF ThisRun, GroundTruth
    <2>2. ShotOnce(script, ThisRun)' = ShotOnce(script, ThisRun')
      BY <1>2 DEF ShotOnce, FaultFree
    <2>3. run.crashes = crashes /\ run.timeouts = timeouts /\ run.success = (truth = "True")
      OBVIOUS
    <2>4. FaultFree(run) => crashes = 0 /\ timeouts = 0
      BY <2>3 DEF FaultFree
    <2> HIDE DEF run
    <2>5. ShotOnce(script, run)
      BY <1>6, <2>3, <2>4, Zenon DEF ShotOnce
    <2> QED BY <2>1, <2>2, <2>5
  <1>8. EndInv'
    <2>1. Played(script, cap, reviewed)
      BY <1>1 DEF PlayInv, EndInv
    <2>2. Played(script, cap, reviewed)' = Played(script, cap, reviewed)
      BY <1>1, <1>2 DEF Played, FaultFree
    <2> QED BY <1>1, <1>7, <2>1, <2>2 DEF EndInv
  <1> QED BY <1>3, <1>4, <1>5, <1>8 DEF PlayInv

\* A run begins in step.
LEMMA BeginPlay ==
  ASSUME NEW s \in Seq(Round), Begin(s), script' = s
  PROVE  VerdictsInv' /\ PlansInv'
  <1>1. pc' = "plan" /\ i' = 1 /\ planner' = Plans(s) /\ reviewer' = Verdicts(s)
    BY DEF Begin, FreshLLM
  <1>2. /\ Len(Plans(s)) = Len(s) /\ Len(Verdicts(s)) = Len(s) /\ Len(s) \in Nat
        /\ DOMAIN s = 1..Len(s)
    BY Halves, LenProperties
  <1>3. /\ \A k \in 1..Len(s) : Plans(s)[k] = s[k].good
        /\ \A k \in 1..Len(s) : Verdicts(s)[k] = s[k].accepted
    BY <1>2 DEF Plans, Verdicts
  <1>4. \A k \in 1..Len(s) : 1 - 1 + k = k
    OBVIOUS
  <1>5. \A k \in 1..Len(reviewer') : reviewer'[k] <=> script'[i' - 1 + k].accepted
    BY <1>1, <1>2, <1>3, <1>4
  <1>6. \A k \in 1..Len(planner') : planner'[k] <=> script'[i' - 1 + k].good
    BY <1>1, <1>2, <1>3, <1>4
  <1>7. ~ (\E k \in 1..(i' - 1) : TRUE)
    BY <1>1
  <1>8. VerdictsInv'
    BY <1>5, <1>7 DEF VerdictsInv
  <1>9. PlansInv'
    BY <1>1, <1>6 DEF PlansInv
  <1> QED BY <1>8, <1>9

LEMMA StartBaselinePlay ==
  ASSUME EvalInv, PlayInv, StartBaseline
  PROVE  PlayInv'
  <1>1. /\ pc = "end" /\ mode = "reviewed" /\ mode' = "baseline" /\ Begin(script)
        /\ scripts' = scripts /\ cap' = cap /\ results' = results /\ reviewed' = ThisRun
    BY DEF StartBaseline, input
  <1>2. pc' = "plan" /\ crashes' = 0 /\ timeouts' = 0 /\ faults' = faults
    BY <1>1 DEF Begin
  <1>3. script' = script /\ script \in Seq(Round)
    BY <1>1, SameRun, PlayTypes DEF input
  <1>4. VerdictsInv' /\ PlansInv'
    BY <1>1, <1>3, BeginPlay
  <1>5. ResultsInv'
    BY <1>1 DEF PlayInv, ResultsInv, Played, ShotOnce, FaultFree
  <1>6. EndInv'
    <2>1. Played(script, cap, ThisRun)
      BY <1>1 DEF PlayInv, EndInv
    <2>2. Played(script, cap, reviewed)' = Played(script, cap, ThisRun)
      BY <1>1, <1>3 DEF Played, FaultFree
    <2> QED BY <1>1, <1>2, <2>1, <2>2 DEF EndInv
  <1>7. CountInv'
    <2>1. reviewed'.crashes = crashes /\ reviewed'.timeouts = timeouts
      BY <1>1 DEF ThisRun
    <2>2. crashes \in Nat /\ timeouts \in Nat
      BY PlayTypes
    <2>3. Spent = crashes + timeouts /\ Spent' = crashes + timeouts
      BY <1>1, <1>2, <2>1, <2>2 DEF Spent
    <2>4. Cardinality(Faulty(results)) + Spent <= faults /\ Cardinality(Faulty(results)) <= faults
      BY <1>1 DEF PlayInv, CountInv
    <2> QED BY <1>1, <1>2, <2>3, <2>4 DEF CountInv
  <1> QED BY <1>4, <1>5, <1>6, <1>7 DEF PlayInv

\* One more task is faulty at most, and only at the price of a fault.
LEMMA FaultyAppend ==
  ASSUME NEW R, NEW n \in Nat, NEW r, NEW T, DOMAIN R = 1..n, DOMAIN T = 1..(n + 1),
         T[n + 1] = r, \A k \in 1..n : T[k] = R[k]
  PROVE  /\ Cardinality(Faulty(T)) \in Nat
         /\ Cardinality(Faulty(T)) <= Cardinality(Faulty(R)) + 1
         /\ FaultFree(r.with_reviewer) /\ FaultFree(r.baseline) =>
              Cardinality(Faulty(T)) = Cardinality(Faulty(R))
  <1>1. /\ IsFiniteSet(Faulty(R)) /\ Cardinality(Faulty(R)) \in Nat
        /\ IsFiniteSet(Faulty(T)) /\ Cardinality(Faulty(T)) \in Nat
    BY FaultyFinite
  <1>2. n + 1 \notin Faulty(R) /\ \A k \in 1..(n + 1) : k = n + 1 \/ k \in 1..n
    BY DEF Faulty
  <1>3. \A k \in 1..n : k \in Faulty(T) <=> k \in Faulty(R)
    BY DEF Faulty
  <1>4. n + 1 \in Faulty(T) <=> ~ (FaultFree(r.with_reviewer) /\ FaultFree(r.baseline))
    BY DEF Faulty
  <1>5. Faulty(T) \subseteq 1..(n + 1) /\ Faulty(R) \subseteq 1..n
    BY DEF Faulty
  <1>6. CASE n + 1 \in Faulty(T)
    <2>1. Faulty(T) = Faulty(R) \cup {n + 1}
      BY <1>2, <1>3, <1>5, <1>6
    <2>2. Cardinality(Faulty(T)) = Cardinality(Faulty(R)) + 1
      BY <1>1, <1>2, <2>1, FS_AddElement
    <2> QED BY <1>1, <1>4, <1>6, <2>2
  <1>7. CASE n + 1 \notin Faulty(T)
    <2>1. Faulty(T) = Faulty(R)
      BY <1>2, <1>3, <1>5, <1>7
    <2> QED BY <1>1, <2>1
  <1> QED BY <1>6, <1>7

LEMMA FourNone ==
  ASSUME NEW a \in Nat, NEW b \in Nat, NEW c \in Nat, NEW d \in Nat, a + b + (c + d) = 0
  PROVE  a = 0 /\ b = 0 /\ c = 0 /\ d = 0
  OBVIOUS

\* A task is evaluated: its two runs are kept, and its faults counted.
LEMMA EvaluateNextPlay ==
  ASSUME EvalInv, PlayInv, EvaluateNext
  PROVE  PlayInv'
  <1> DEFINE r == [with_reviewer |-> reviewed, baseline |-> ThisRun]
             n == Len(results)
  <1>1. /\ pc = "end" /\ mode = "baseline" /\ scripts = Suite
        /\ results' = Append(results, r) /\ scripts' = scripts /\ cap' = cap
    BY DEF EvaluateNext, EvalInv, StateInv, input
  <1>2. /\ results \in Seq(TaskEvalResult) /\ n \in Nat
        /\ scripts \in Seq(Seq(Round)) /\ Len(scripts) \in Nat
        /\ crashes \in Nat /\ timeouts \in Nat /\ faults \in Nat
        /\ reviewed.crashes \in Nat /\ reviewed.timeouts \in Nat
    BY PlayTypes DEF EvalInv, StateInv, TypeOK
  <1>3. r \in TaskEvalResult
    <2>1. ThisRun \in RunEnd
      BY ScriptTypes DEF EvalInv, StateInv, TypeOK, ThisRun, RunEnd, GroundTruth
    <2> QED BY <2>1 DEF EvalInv, StateInv, TypeOK, TaskEvalResult
  <1>4. r.with_reviewer = reviewed /\ r.baseline = ThisRun
    OBVIOUS
  <1> HIDE DEF r
  <1>5. /\ Len(results') = n + 1 /\ DOMAIN results' = 1..(n + 1) /\ DOMAIN results = 1..n
        /\ results'[n + 1] = r /\ \A k \in 1..n : results'[k] = results[k]
    BY <1>1, <1>2, <1>3
  <1>6. script = scripts[n + 1]
    BY DEF script
  <1>7. ResultsInv'
    <2> SUFFICES ASSUME NEW k \in 1..(n + 1)
                 PROVE  /\ Played(scripts[k], cap, results'[k].with_reviewer)
                        /\ ShotOnce(scripts[k], results'[k].baseline)
      BY <1>1, <1>5 DEF ResultsInv, Played, ShotOnce, FaultFree
    <2>1. CASE k \in 1..n
      BY <1>5, <2>1 DEF PlayInv, ResultsInv
    <2>2. CASE k = n + 1
      <3>1. Played(script, cap, reviewed) /\ ShotOnce(script, ThisRun)
        BY <1>1 DEF PlayInv, EndInv
      <3> QED BY <1>4, <1>5, <1>6, <2>2, <3>1
    <2> QED BY <1>2, <2>1, <2>2
  <1>8. Cardinality(Faulty(results')) \in Nat /\ Cardinality(Faulty(results')) <= faults
    <2>1. /\ n \in Nat /\ DOMAIN results = 1..n /\ DOMAIN results' = 1..(n + 1)
          /\ results'[n + 1] = r /\ \A k \in 1..n : results'[k] = results[k]
      BY <1>2, <1>5
    <2> HIDE DEF n
    <2>2. /\ Cardinality(Faulty(results')) \in Nat
          /\ Cardinality(Faulty(results')) <= Cardinality(Faulty(results)) + 1
          /\ FaultFree(r.with_reviewer) /\ FaultFree(r.baseline) =>
               Cardinality(Faulty(results')) = Cardinality(Faulty(results))
      <3> DEFINE T == results'
      <3>1. n \in Nat /\ DOMAIN results = 1..n /\ DOMAIN T = 1..(n + 1)
            /\ T[n + 1] = r /\ \A k \in 1..n : T[k] = results[k]
        BY <2>1
      <3> HIDE DEF T
      <3>2. /\ Cardinality(Faulty(T)) \in Nat
            /\ Cardinality(Faulty(T)) <= Cardinality(Faulty(results)) + 1
            /\ FaultFree(r.with_reviewer) /\ FaultFree(r.baseline) =>
                 Cardinality(Faulty(T)) = Cardinality(Faulty(results))
        BY <3>1, FaultyAppend
      <3> QED BY <3>2 DEF T
    <2>3. Cardinality(Faulty(results)) \in Nat
      BY <2>1, FaultyFinite
    <2>4. Cardinality(Faulty(results)) + Spent <= faults
      BY <1>1 DEF PlayInv, CountInv
    <2>5. Spent = crashes + timeouts + (reviewed.crashes + reviewed.timeouts)
      BY <1>1 DEF Spent
    <2>6. ThisRun.crashes = crashes /\ ThisRun.timeouts = timeouts
      BY DEF ThisRun
    <2>7. /\ crashes \in Nat /\ timeouts \in Nat /\ faults \in Nat
          /\ reviewed.crashes \in Nat /\ reviewed.timeouts \in Nat
      BY <1>2
    <2>8. (FaultFree(r.with_reviewer) /\ FaultFree(r.baseline)) \/ Spent >= 1
      <3>1. FaultFree(r.with_reviewer) <=> reviewed.crashes = 0 /\ reviewed.timeouts = 0
        BY <1>4 DEF FaultFree
      <3>2. FaultFree(r.baseline) <=> crashes = 0 /\ timeouts = 0
        BY <1>4, <2>6 DEF FaultFree
      <3>3. CASE Spent = 0
        <4>1. crashes = 0 /\ timeouts = 0 /\ reviewed.crashes = 0 /\ reviewed.timeouts = 0
          <5>1. crashes + timeouts + (reviewed.crashes + reviewed.timeouts) = 0
            BY <2>5, <3>3
          <5> QED BY <2>7, <5>1, FourNone
        <4> QED BY <3>1, <3>2, <4>1
      <3>4. CASE Spent # 0
        <4>1. Spent \in Nat
          BY <2>5, <2>7
        <4> QED BY <3>4, <4>1
      <3> QED BY <3>3, <3>4
    <2>9. Spent \in Nat
      BY <2>5, <2>7
    <2> QED BY <2>2, <2>3, <2>4, <2>7, <2>8, <2>9
  <1>9. CASE /\ Len(results') < Len(Suite)
             /\ mode' = "reviewed" /\ reviewed' = NoRun /\ Begin(Suite[Len(results') + 1])
    <2> DEFINE s == Suite[Len(results') + 1]
    <2>1. s \in Seq(Round) /\ script' = s
      BY <1>1, <1>2, <1>5, <1>9 DEF script
    <2>2. Begin(s)
      BY <1>9
    <2> HIDE DEF s
    <2>3. VerdictsInv' /\ PlansInv'
      BY <2>1, <2>2, BeginPlay
    <2>4. pc' = "plan" /\ crashes' = 0 /\ timeouts' = 0 /\ faults' = faults
      BY <2>2 DEF Begin
    <2>5. EndInv'
      BY <1>9, <2>4 DEF EndInv
    <2>6. CountInv'
      <3>1. Spent' = 0
        BY <1>9, <2>4 DEF Spent
      <3>2. Cardinality(Faulty(results')) + 0 <= faults
        BY <1>2, <1>8
      <3> QED BY <1>8, <2>4, <3>1, <3>2 DEF CountInv
    <2> QED BY <1>7, <2>3, <2>5, <2>6 DEF PlayInv
  <1>10. CASE pc' = "done" /\ UNCHANGED history
    <2>1. VerdictsInv' /\ PlansInv' /\ EndInv'
      BY <1>10 DEF VerdictsInv, PlansInv, EndInv, Running
    <2>2. CountInv'
      BY <1>8, <1>10 DEF CountInv, history
    <2> QED BY <1>7, <2>1, <2>2 DEF PlayInv
  <1>11. UNCHANGED <<mode, planner, reviewer, i, plan, accepted, truth, reviewed, history>> => UNCHANGED history
    OBVIOUS
  <1> QED BY <1>9, <1>10, <1>11 DEF EvaluateNext

LEMMA ReturnPlay ==
  ASSUME EvalInv, PlayInv, Return
  PROVE  PlayInv'
  <1>1. /\ pc = "end" /\ pc' = "done" /\ cap' = cap /\ scripts' = scripts
        /\ results' = results /\ faults' = faults
    BY DEF Return, input, history
  <1>2. VerdictsInv' /\ PlansInv' /\ EndInv'
    BY <1>1 DEF VerdictsInv, PlansInv, EndInv, Running
  <1>3. ResultsInv'
    BY <1>1 DEF PlayInv, ResultsInv, Played, ShotOnce, FaultFree
  <1>4. CountInv'
    BY <1>1 DEF PlayInv, CountInv
  <1> QED BY <1>2, <1>3, <1>4 DEF PlayInv

LEMMA PlayStutters ==
  ASSUME EvalInv, PlayInv, UNCHANGED vars
  PROVE  PlayInv'
  <1>1. /\ pc' = pc /\ i' = i /\ cap' = cap /\ mode' = mode /\ scripts' = scripts
        /\ results' = results /\ planner' = planner /\ plan' = plan /\ reviewer' = reviewer
        /\ accepted' = accepted /\ crashes' = crashes /\ truth' = truth
        /\ reviewed' = reviewed /\ timeouts' = timeouts /\ faults' = faults
    BY DEF vars, input, history
  <1>2. script' = script /\ ThisRun' = ThisRun
    BY <1>1 DEF script, ThisRun, GroundTruth
  <1>3. VerdictsInv' /\ PlansInv'
    BY <1>1, <1>2 DEF PlayInv, VerdictsInv, PlansInv, Running, InStep
  <1>4. ResultsInv'
    BY <1>1 DEF PlayInv, ResultsInv, Played, ShotOnce, FaultFree
  <1>5. EndInv'
    BY <1>1, <1>2 DEF PlayInv, EndInv, Played, ShotOnce, FaultFree
  <1>6. CountInv'
    <2>1. Spent' = Spent
      BY <1>1 DEF Spent
    <2> QED BY <1>1, <2>1 DEF PlayInv, CountInv
  <1> QED BY <1>3, <1>4, <1>5, <1>6 DEF PlayInv

LEMMA PlayInitially == Init => PlayInv
  <1> SUFFICES ASSUME Init PROVE PlayInv
    OBVIOUS
  <1>1. /\ pc = "plan" /\ mode = "reviewed" /\ i = 1 /\ results = <<>>
        /\ planner = Plans(script) /\ reviewer = Verdicts(script)
        /\ crashes = 0 /\ timeouts = 0 /\ faults = 0
    <2>1. Len(<<>>) + 1 = 1
      OBVIOUS
    <2>2. results = <<>>
      BY DEF Init
    <2>3. script = scripts[1]
      BY <2>1, <2>2 DEF script
    <2> QED BY <2>3 DEF Init
  <1>2. script \in Seq(Round)
    <2>1. EvalInv
      BY EvalInitially
    <2> QED BY <1>1, <2>1, PlayTypes
  <1> DEFINE s == script
  <1>3. /\ Len(Plans(s)) = Len(s) /\ Len(Verdicts(s)) = Len(s) /\ Len(s) \in Nat
        /\ DOMAIN s = 1..Len(s)
    BY <1>2, Halves, LenProperties
  <1>4. /\ \A k \in 1..Len(s) : Plans(s)[k] = s[k].good
        /\ \A k \in 1..Len(s) : Verdicts(s)[k] = s[k].accepted
        /\ \A k \in 1..Len(s) : 1 - 1 + k = k
    BY <1>3 DEF Plans, Verdicts
  <1>5. VerdictsInv
    BY <1>1, <1>3, <1>4 DEF VerdictsInv
  <1>6. PlansInv
    BY <1>1, <1>3, <1>4 DEF PlansInv
  <1>7. DOMAIN results = {}
    BY <1>1
  <1>8. EndInv /\ ResultsInv
    BY <1>1, <1>7 DEF EndInv, ResultsInv
  <1>9. CountInv
    <2>1. Faulty(results) = {}
      BY <1>7 DEF Faulty
    <2>2. Cardinality(Faulty(results)) = 0
      BY <2>1, FS_EmptySet
    <2>3. Spent = 0
      BY <1>1 DEF Spent
    <2> QED BY <1>1, <2>2, <2>3 DEF CountInv
  <1> QED BY <1>5, <1>6, <1>8, <1>9 DEF PlayInv

LEMMA PlayInvariant == Spec => []PlayInv
  <1>1. EvalInv /\ PlayInv /\ [Next]_vars => PlayInv'
    BY PlanPlay, ExecutePlay, ExecuteInVainPlay, CrashPlay, ReviewPlay, AcceptPlay,
       StartBaselinePlay, EvaluateNextPlay, ReturnPlay, PlayStutters DEF Next
  <1> QED BY <1>1, PlayInitially, EvalInvariant, PTL DEF Spec

\* Results are kept of the suite's tasks only, and a report is of all of them.
ReportInv ==
  /\ results # <<>> => scripts = Suite
  /\ pc = "done" /\ scripts = Suite => Len(results) = Len(Suite)

LEMMA ReportInvariant == Spec => []ReportInv
  <1>1. Init => ReportInv
    BY DEF Init, ReportInv
  <1>2. EvalInv /\ ReportInv /\ [Next]_vars => ReportInv'
    <2> SUFFICES ASSUME EvalInv, ReportInv, [Next]_vars PROVE ReportInv'
      OBVIOUS
    <2>1. CASE EvaluateNext
      <3>1. scripts = Suite /\ scripts' = scripts
        BY <2>1 DEF EvaluateNext, EvalInv, StateInv, input
      <3>2. pc' = "plan" \/ Len(results') = Len(Suite)
        BY <2>1 DEF EvaluateNext, Begin
      <3> QED BY <3>1, <3>2 DEF ReportInv
    <2>2. CASE Return
      BY <2>2 DEF Return, ReportInv, input
    <2>3. CASE UNCHANGED vars
      BY <2>3 DEF ReportInv, vars, input
    <2>4. CASE Plan
      BY <2>4 DEF Plan, RanDry, ReportInv, input
    <2>5. CASE Execute \/ ExecuteInVain
      BY <2>5 DEF Execute, ExecuteInVain, ReportInv, input
    <2>6. CASE Crash
      BY <2>6 DEF Crash, Rejected, ReportInv, input
    <2>7. CASE Review
      BY <2>7 DEF Review, RanDry, Decided, Rejected, ReportInv, input
    <2>8. CASE AlwaysAccept
      BY <2>8 DEF AlwaysAccept, Decided, Rejected, ReportInv, input
    <2>9. CASE StartBaseline
      BY <2>9 DEF StartBaseline, Begin, ReportInv, input
    <2> QED BY <2>1, <2>2, <2>3, <2>4, <2>5, <2>6, <2>7, <2>8, <2>9 DEF Next
  <1> QED BY <1>1, <1>2, EvalInvariant, PTL DEF Spec

\* A task whose first plan is good is solved by it with the reviewer too.
THEOREM NeverWorseHolds == Spec => []NeverWorse
  <1>1. EvalInv /\ PlayInv /\ ReportInv => NeverWorse
    <2> SUFFICES ASSUME EvalInv, PlayInv, ReportInv, NEW k \in DOMAIN results,
                        FaultFree(results[k].with_reviewer), FaultFree(results[k].baseline),
                        results[k].baseline.success
                 PROVE  results[k].with_reviewer.success
      BY DEF NeverWorse
    <2> DEFINE run == results[k].with_reviewer
               s   == Suite[k]
    <2>1. /\ DOMAIN results = 1..Len(results) /\ Len(results) \in Nat
          /\ Len(results) <= Len(scripts) /\ scripts = Suite
          /\ Len(Suite) \in Nat /\ DOMAIN Suite = 1..Len(Suite) /\ s \in Seq(Round)
      <3>1. results # <<>>
        OBVIOUS
      <3>2. scripts = Suite
        BY <3>1 DEF ReportInv
      <3>3. /\ scripts \in Seq(Seq(Round)) /\ Len(scripts) \in Nat
            /\ DOMAIN scripts = 1..Len(scripts)
            /\ Len(results) \in Nat /\ DOMAIN results = 1..Len(results)
        BY PlayTypes
      <3>4. Len(results) <= Len(scripts)
        BY DEF EvalInv, StateInv
      <3>5. k \in DOMAIN scripts
        BY <3>3, <3>4
      <3>6. scripts[k] \in Seq(Round)
        BY <3>3, <3>5, ElementOfSeq
      <3> QED BY <3>2, <3>3, <3>4, <3>6
    <2>2. Len(s) >= 1 /\ s[1].good
      BY <2>1 DEF PlayInv, ResultsInv, ShotOnce
    <2>3. k \in DOMAIN Suite
      BY <2>1
    <2>4. s[1].accepted
      BY <2>1, <2>2, <2>3, FirstPlansAssumption
    <2>5. /\ run.iterations \in 1..Len(s)
          /\ run.success <=> s[run.iterations].good
          /\ \A a \in 1..(run.iterations - 1) : ~ s[a].accepted
      BY <2>1 DEF PlayInv, ResultsInv, Played
    <2>6. run.iterations = 1
      <3>1. Len(s) \in Nat
        BY <2>1
      <3> HIDE DEF run, s
      <3>2. run.iterations \in Int /\ run.iterations >= 1
        BY <2>5, <3>1
      <3>3. ~ (1 \in 1..(run.iterations - 1))
        BY <2>4, <2>5
      <3> QED BY <3>2, <3>3
    <2> QED BY <2>2, <2>5, <2>6
  <1> QED BY <1>1, EvalInvariant, PlayInvariant, ReportInvariant, PTL

-----------------------------------------------------------------------------
LEMMA UpTo ==
  ASSUME NEW n \in Nat
  PROVE  IsFiniteSet(1..n) /\ Cardinality(1..n) = n
  <1>1. /\ IsFiniteSet(1..n)
        /\ Cardinality(1..n) = IF 1 > n THEN 0 ELSE n - 1 + 1
    BY FS_Interval
  <1> QED BY <1>1

\* What covers a set with another's help is smaller by that help at most.
LEMMA CoverCount ==
  ASSUME NEW S, NEW T, NEW F, IsFiniteSet(T), IsFiniteSet(F), S \subseteq T \cup F
  PROVE  /\ Cardinality(S) \in Nat /\ Cardinality(T) \in Nat
         /\ Cardinality(S) <= Cardinality(T) + Cardinality(F)
  <1>1. /\ IsFiniteSet(T \cup F)
        /\ Cardinality(T \cup F) = Cardinality(T) + Cardinality(F) - Cardinality(T \cap F)
    BY FS_Union
  <1>2. IsFiniteSet(S) /\ Cardinality(S) <= Cardinality(T \cup F)
    BY <1>1, FS_Subset
  <1>3. IsFiniteSet(T \cap F)
    BY FS_Subset
  <1>4. /\ Cardinality(S) \in Nat /\ Cardinality(T) \in Nat /\ Cardinality(F) \in Nat
        /\ Cardinality(T \cup F) \in Nat /\ Cardinality(T \cap F) \in Nat
    BY <1>1, <1>2, <1>3, FS_CardinalityType
  <1> QED BY <1>1, <1>2, <1>4

\* An honest script that the cap does not cut short is played to its success.
LEMMA HonestSolved ==
  ASSUME NEW s \in Seq(Round), NEW n \in Nat, NEW run, Honest(s), Len(s) <= n,
         Played(s, n, run), FaultFree(run)
  PROVE  run.success
  <1>1. Len(s) \in Nat /\ DOMAIN s = 1..Len(s)
    OBVIOUS
  <1>2. /\ run.iterations \in 1..Len(s)
        /\ run.success <=> s[run.iterations].good
        /\ run.accepted <=> s[run.iterations].accepted
        /\ run.accepted \/ run.iterations = n
    BY DEF Played
  <1>3. s[run.iterations].accepted <=> s[run.iterations].good
    BY <1>1, <1>2 DEF Honest
  <1>4. CASE run.iterations = n
    <2>1. n \in 1..Len(s)
      BY <1>2, <1>4
    <2>2. Len(s) = n
      <3> DEFINE l == Len(s)
      <3>1. l \in Nat /\ l <= n /\ n \in 1..l
        BY <1>1, <2>1
      <3> HIDE DEF l
      <3>2. l = n
        BY <3>1
      <3> QED BY <3>2 DEF l
    <2>3. run.iterations = Len(s)
      BY <1>4, <2>2
    <2> QED BY <1>2, <2>3 DEF Honest
  <1> QED BY <1>2, <1>3, <1>4

\* On honest scripts the scores are off by the number of faults at most.
THEOREM FaultsCountOnceHolds == Spec => []FaultsCountOnce
  <1>1. EvalInv /\ PlayInv /\ ReportInv => FaultsCountOnce
    <2> DEFINE N == Len(Suite)
               F == Faulty(results)
               W == {k \in DOMAIN results : results[k].with_reviewer.success}
               B == {k \in DOMAIN results : results[k].baseline.success}
               G == {k \in DOMAIN Suite : Suite[k][1].good}
    <2> SUFFICES ASSUME EvalInv, PlayInv, ReportInv, pc = "done", scripts = Suite,
                        \A k \in DOMAIN Suite : Honest(Suite[k]) /\ Len(Suite[k]) <= cap
                 PROVE  /\ Len(results) = N
                        /\ Cardinality(W) >= N - faults
                        /\ Cardinality(B) \in (Cardinality(G) - faults)..(Cardinality(G) + faults)
      BY DEF FaultsCountOnce, format_eval_report, FirstGood
    <2>1. /\ Len(results) = N /\ N \in Nat /\ DOMAIN results = 1..N /\ DOMAIN Suite = 1..N
          /\ cap \in Nat /\ faults \in Nat
          /\ \A k \in 1..N : Suite[k] \in Seq(Round)
      <3>1. /\ scripts \in Seq(Seq(Round)) /\ Len(scripts) \in Nat
            /\ DOMAIN scripts = 1..Len(scripts) /\ cap \in Nat
            /\ DOMAIN results = 1..Len(results)
        BY PlayTypes
      <3>2. Len(results) = N
        BY DEF ReportInv
      <3>3. faults \in Nat
        BY EvalAssumption DEF EvalInv, StateInv, TypeOK
      <3>4. \A k \in DOMAIN scripts : scripts[k] \in Seq(Round)
        BY <3>1, ElementOfSeq
      <3> QED BY <3>1, <3>2, <3>3, <3>4
    <2>2. \A k \in 1..N : /\ Played(Suite[k], cap, results[k].with_reviewer)
                          /\ ShotOnce(Suite[k], results[k].baseline)
                          /\ Honest(Suite[k]) /\ Len(Suite[k]) <= cap
      BY <2>1 DEF PlayInv, ResultsInv
    <2>3. IsFiniteSet(F) /\ Cardinality(F) \in Nat /\ Cardinality(F) <= faults
      BY <2>1, FaultyFinite DEF PlayInv, CountInv
    <2>4. 1..N \subseteq W \cup F
      <3> SUFFICES ASSUME NEW k \in 1..N, k \notin F PROVE k \in W
        OBVIOUS
      <3>1. FaultFree(results[k].with_reviewer)
        BY <2>1 DEF Faulty
      <3>2. results[k].with_reviewer.success
        BY <2>1, <2>2, <3>1, HonestSolved
      <3> QED BY <2>1, <3>2
    <2>5. B \subseteq G \cup F /\ G \subseteq B \cup F
      <3>1. ASSUME NEW k \in 1..N, k \notin F
            PROVE  results[k].baseline.success <=> Suite[k][1].good
        <4>1. FaultFree(results[k].baseline)
          BY <2>1, <3>1 DEF Faulty
        <4> QED BY <2>2, <4>1 DEF ShotOnce
      <3> QED BY <2>1, <3>1
    <2>6. /\ IsFiniteSet(1..N) /\ Cardinality(1..N) = N
          /\ W \subseteq 1..N /\ B \subseteq 1..N /\ G \subseteq 1..N
      <3>1. IsFiniteSet(1..N) /\ Cardinality(1..N) = N
        BY <2>1, UpTo
      <3> QED BY <2>1, <3>1
    <2>7. IsFiniteSet(W) /\ IsFiniteSet(B) /\ IsFiniteSet(G)
      BY <2>6, FS_Subset
    <2> HIDE DEF F, W, B, G
    <2>8. Cardinality(W) \in Nat /\ N <= Cardinality(W) + Cardinality(F)
      BY <2>3, <2>4, <2>6, <2>7, CoverCount
    <2>9. /\ Cardinality(B) \in Nat /\ Cardinality(G) \in Nat
          /\ Cardinality(B) <= Cardinality(G) + Cardinality(F)
          /\ Cardinality(G) <= Cardinality(B) + Cardinality(F)
      BY <2>3, <2>5, <2>7, CoverCount
    <2> QED BY <2>1, <2>3, <2>8, <2>9
  <1> QED BY <1>1, EvalInvariant, PlayInvariant, ReportInvariant, PTL

\* Where neither a crash nor a timeout comes between, a result is what the
\* script makes of the run: the round at which the first accepting verdict or
\* the cap stops it, with the reviewer, and the first round, without.
THEOREM FaultFreeRunsPlayed == Spec => []ResultsInv
  <1>1. PlayInv => ResultsInv
    BY DEF PlayInv
  <1> QED BY <1>1, PlayInvariant, PTL
=============================================================================
