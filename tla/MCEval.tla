------------------------------- MODULE MCEval -------------------------------
(***************************************************************************)
(* Eval with the tasks and the scripts of the repository.                  *)
(***************************************************************************)
EXTENDS Eval, TaskSuite

MCSuite == [k \in DOMAIN TASKS |-> Rounds(TASKS[k], Script(TASKS[k]))]

\* The `run' command with the script of the task, or with the one that gets a
\* verdict wrong, which may be played for any task; and the script that the
\* tests reject for ever.
MCDemos ==
  {Rounds(TASKS[k], Script(TASKS[k])) : k \in DOMAIN TASKS}
  \cup {Rounds(TASKS[k], build_reviewer_error_llm) : k \in DOMAIN TASKS}
  \cup {Rounds("fibonacci", build_always_reject_llm(n)) : n \in 3..4}
=============================================================================
