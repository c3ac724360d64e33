----------------------------- MODULE MCExecutors -----------------------------
(* Instances of Executors for TLC. *)
EXTENDS Executors
==============================================================================
