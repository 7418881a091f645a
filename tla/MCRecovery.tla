----------------------------- MODULE MCRecovery -----------------------------
(***************************************************************************)
(* One slot whose name resolves to subsets of two addresses, with the four *)
(* durations shrunk but in the order they have in the code.                *)
(***************************************************************************)
EXTENDS Recovery

=============================================================================
