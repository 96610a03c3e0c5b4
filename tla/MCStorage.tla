----------------------------- MODULE MCStorage -----------------------------
(***************************************************************************)
(* Storage on small instances: the names of the clients.                   *)
(***************************************************************************)
EXTENDS Storage

CONSTANTS a, b, d
=============================================================================
