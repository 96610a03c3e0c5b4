---------------------------- MODULE RunContract ----------------------------
(***************************************************************************)
(* What run_task promises its caller, without planner, executor, reviewer, *)
(* logger or database: a call makes attempts, one at a time and no more    *)
(* than its limit, until one is accepted; then it reports success, or      *)
(* failure when none was.  At any point it may end in an exception instead,*)
(* and a limit below 1 is refused.                                         *)
(***************************************************************************)
EXTENDS Integers

VARIABLES
  running,   \* whether a call is under way
  limit,     \* its max_iterations
  attempts,  \* the attempts it has made
  accepted,  \* whether the last of them was accepted
  report     \* what the last call that ended gave its caller: "none" |
             \* "success" | "failed" | "exception" | "refused"

vars == <<running, limit, attempts, accepted, report>>

Init ==
  /\ running = FALSE /\ limit = 0 /\ attempts = 0 /\ accepted = FALSE
  /\ report = "none"

\* A call starts; it may end in an exception at once.
Start ==
  /\ ~ running
  /\ limit' \in Nat \ {0} /\ attempts' = 0 /\ accepted' = FALSE
  /\ \/ running' = TRUE /\ report' = "none"
     \/ running' = FALSE /\ report' = "exception"

Refuse ==
  /\ ~ running /\ report' = "refused"
  /\ UNCHANGED <<running, limit, attempts, accepted>>

\* One more attempt, which may turn out to be the last thing the call does.
Attempt ==
  /\ running /\ attempts < limit /\ ~ accepted
  /\ attempts' = attempts + 1 /\ accepted' \in BOOLEAN
  /\ \/ UNCHANGED <<running, report>>
     \/ running' = FALSE /\ report' = "exception"
  /\ UNCHANGED limit

Report ==
  /\ running /\ running' = FALSE
  /\ \/ accepted /\ report' = "success"
     \/ ~ accepted /\ attempts = limit /\ report' = "failed"
     \/ report' = "exception"
  /\ UNCHANGED <<limit, attempts, accepted>>

Next == Start \/ Refuse \/ Attempt \/ Report

Spec == Init /\ [][Next]_vars /\ WF_vars(Attempt \/ Report)
=============================================================================
