----------------------------- MODULE MCLifecycle -----------------------------
(* Lifecycle for TLC.  The configurations choose the commands, the events   *)
(* around htxd and the bounds.                                              *)
EXTENDS Lifecycle
=============================================================================
