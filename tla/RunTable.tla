------------------------------ MODULE RunTable ------------------------------
(***************************************************************************)
(* What the database promises whoever saves runs in it, without            *)
(* connections, statements, transactions and locks: a table that only      *)
(* grows at its end.  A run is saved in one step, with all its iterations, *)
(* under the id that save_run returns; or its save_run raises.  Then its   *)
(* row may still come into the table, whole or not, but only just before   *)
(* that of a run that is saved.  No run is in the table twice.             *)
(***************************************************************************)
EXTENDS Integers, Sequences

CONSTANT Run   \* the runs that may be saved: their number and their iterations

VARIABLES
  file,      \* the rows: the index is the id
  returned,  \* the runs whose save_run returned, and their ids
  failed     \* the runs whose save_run raised

vars == <<file, returned, failed>>

Init == file = <<>> /\ returned = {} /\ failed = {}

Whole(r) ==
  [run |-> r.run, iteration_count |-> r.iteration_count, iterations |-> r.iteration_count]

RunsOf(s) == {s[k].run : k \in DOMAIN s}

\* Rows are added at the end, each of a run that is not there yet.
Grows ==
  /\ Len(file) < Len(file')
  /\ \A k \in 1..Len(file) : file'[k] = file[k]
  /\ \A j, k \in 1..Len(file') : file'[j].run = file'[k].run => j = k

\* save_run returns.
Save(r) ==
  /\ r.run \notin failed
  /\ Grows /\ file'[Len(file')] = Whole(r)
  /\ \A k \in (Len(file) + 1)..(Len(file') - 1) : file'[k].run \in failed
  /\ returned' = returned \cup {[id |-> Len(file'), job |-> r]}
  /\ UNCHANGED failed

\* save_run raises, and adds nothing.
Fail(r) ==
  /\ r.run \notin RunsOf(file)
  /\ failed' = failed \cup {r.run}
  /\ UNCHANGED <<file, returned>>

Next == \E r \in Run : Save(r) \/ Fail(r)

Spec == Init /\ [][Next]_vars
=============================================================================
