--------------------------- MODULE MCRunLifecycle ---------------------------
(* Runs without and with failing writes: the whole state space is finite. *)
EXTENDS RunLifecycle
=============================================================================
