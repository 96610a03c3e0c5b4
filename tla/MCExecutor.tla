----------------------------- MODULE MCExecutor -----------------------------
(***************************************************************************)
(* Executor on a small instance: a task's two files and one more, the      *)
(* starter code and a fix of the same length, and plans over the steps     *)
(* below.                                                                  *)
(***************************************************************************)
EXTENDS Executor

CONSTANTS sol, tst, aux, starter, suite, fix, nothing

MCFile == {sol, tst, aux}
MCContent == {starter, suite, fix, nothing}

\* The fix has the length of the starter code (`<' for `>', say).
MCSizeOf == [c \in MCContent |-> CASE c = nothing -> 0
                                   [] c = suite   -> 2
                                   [] OTHER       -> 1]

Do(tool, path, content) == [tool |-> tool, path |-> path, content |-> content]

Fix  == Do("write_file", sol, fix)
Test == Do("run_tests", tst, None)

\* One step of every kind: those that may succeed, and those that cannot.
WorkingSteps ==
  {Fix, Test,
   Do("write_file", aux, fix), Do("write_file", tst, None),
   Do("run_tests", Root, None), Do("run_tests", aux, None),
   Do("read_file", aux, None), Do("list_files", None, None)}

BrokenSteps ==
  {Do("bogus", aux, None), Do("write_file", None, fix), Do("read_file", Outside, None)}

\* Every plan of at most two steps, and those that test, edit and test again.
MCPlans ==
  {<<>>} \cup [1..1 -> WorkingSteps \cup BrokenSteps]
         \cup [1..2 -> WorkingSteps]
         \cup {<<Test, Fix, Test>>, <<Fix, Test, Test>>, <<Fix, Do("bogus", aux, None), Test>>}
=============================================================================
