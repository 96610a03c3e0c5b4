----------------------------- MODULE TaskSuite ------------------------------
(***************************************************************************)
(* The task suite (task_suite/tasks.py) and the scripts written for it     *)
(* (demo_fixtures.py), as data.  Of a task's files only this matters: its  *)
(* starter code fails its tests and its reference fix passes them, as      *)
(* test_task_suite.py checks; another task's fix, which defines another    *)
(* function, fails them.                                                   *)
(***************************************************************************)
EXTENDS Integers, Sequences

\* The ids, in the order of the suite.
TASKS == <<"is_palindrome", "fibonacci", "flatten_list", "word_count",
           "dedupe_preserve_order", "safe_divide">>

\* get_task knows the task; else it raises KeyError.
Known(task_id) == \E k \in DOMAIN TASKS : TASKS[k] = task_id

\* The solution a plan writes: whose it is, and which of them.
starter_code(task_id)  == [of |-> task_id, version |-> "starter"]
reference_fix(task_id) == [of |-> task_id, version |-> "reference"]
own_attempt(task_id)   == [of |-> task_id, version |-> "flawed"]

Passes(task_id, code) == code = reference_fix(task_id)

\* One round of a script: the solution, and the verdict given on it.
Try(code, accepted) == [code |-> code, accepted |-> accepted]

\* _SCRIPTS: right at once, or after one flawed solution.
Script(task_id) ==
  CASE task_id \in {"is_palindrome", "fibonacci", "dedupe_preserve_order"} ->
         <<Try(reference_fix(task_id), TRUE)>>
    [] task_id \in {"flatten_list", "safe_divide"} ->
         <<Try(starter_code(task_id), FALSE), Try(reference_fix(task_id), TRUE)>>
    [] task_id = "word_count" ->
         <<Try(own_attempt(task_id), FALSE), Try(reference_fix(task_id), TRUE)>>

\* A right solution, rejected, handed in again and accepted.
build_reviewer_error_llm ==
  LET correct == reference_fix("dedupe_preserve_order")
  IN  <<Try(correct, FALSE), Try(correct, TRUE)>>

\* The same wrong solution, rejected every time.
build_always_reject_llm(max_calls) ==
  [k \in 1..max_calls |-> Try(starter_code("fibonacci"), FALSE)]

\* What a script amounts to when it is played for a task.
Rounds(task_id, script) ==
  [k \in DOMAIN script |-> [good     |-> Passes(task_id, script[k].code),
                            accepted |-> script[k].accepted]]
=============================================================================
