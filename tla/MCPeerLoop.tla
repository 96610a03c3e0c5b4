----------------------------- MODULE MCPeerLoop -----------------------------
(***************************************************************************)
(* PeerLoop on a small instance: a task's two files, the starter code and  *)
(* a fix of the same length, and three plans: one that edits and tests     *)
(* between two test runs, one that only tests, one with a step no tool     *)
(* carries out.                                                            *)
(***************************************************************************)
EXTENDS PeerLoop

CONSTANTS sol, tst, starter, suite, fix, nothing, words

MCFile == {sol, tst}
MCContent == {starter, suite, fix, nothing}
MCSizeOf == [c \in MCContent |-> CASE c = nothing -> 0
                                   [] c = suite   -> 2
                                   [] OTHER       -> 1]

Do(tool, path, content) == [tool |-> tool, path |-> path, content |-> content]

Fix  == Do("write_file", sol, fix)
Test == Do("run_tests", tst, None)

MCPlan == {<<Test, Fix, Test>>, <<Test>>, <<Fix, Do("bogus", tst, None)>>}
=============================================================================
