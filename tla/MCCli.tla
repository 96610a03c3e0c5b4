------------------------------- MODULE MCCli --------------------------------
(***************************************************************************)
(* Cli on small instances: one command of every kind that behaves          *)
(* differently, and the environments in which from_env does.               *)
(***************************************************************************)
EXTENDS Cli

Run(task_id, cap, llm, db_option, trace_option) ==
  [command |-> "run", task_id |-> task_id, max_iterations |-> cap,
   db |-> db_option, trace_file |-> trace_option, llm |-> llm]

MCCommands ==
  {Run("word_count", 2, "script", TRUE, TRUE), Run("word_count", 0, "script", TRUE, TRUE),
   Run("safe_divide", 1, "reviewer error", TRUE, FALSE), Run("fibonacci", 1, "real", FALSE, TRUE),
   Run("no-such-task", 1, "script", TRUE, TRUE),
   [command |-> "demo"], [command |-> "trace", run_id |-> 1], [command |-> "trace", run_id |-> 2]}

Keys(a, o) == [p \in Provider |-> IF p = "anthropic" THEN a ELSE o]

From(p, d, i) ==
  [process |-> p, dotenv |-> d, installed |-> i]

\* Both keys; the example .env; a blank variable that hides one key and leaves
\* the other; a key in .env without python-dotenv.
MCEnvironments ==
  {From(Keys("key", "unset"), Keys("unset", "key"), TRUE),
   From(Keys("unset", "unset"), Keys("blank", "blank"), TRUE),
   From(Keys("blank", "unset"), Keys("key", "key"), TRUE),
   From(Keys("unset", "unset"), Keys("key", "unset"), FALSE)}
=============================================================================
