-------------------------- MODULE MCHandleThreads ---------------------------
(* Instances of HandleThreads for TLC. *)
EXTENDS HandleThreads

=============================================================================
