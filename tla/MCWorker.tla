------------------------------ MODULE MCWorker ------------------------------
(* Worker on small instances, for TLC: one job, named by the configuration. *)
EXTENDS Worker

=============================================================================
