---------------------------- MODULE MCIsolation ----------------------------
(* Instances of Isolation for TLC. *)
EXTENDS Isolation
=============================================================================
