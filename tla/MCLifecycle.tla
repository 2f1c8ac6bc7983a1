---------------------------- MODULE MCLifecycle ----------------------------
(* The TLC instance of Lifecycle: one application thread, every bring-up     *)
(* failure, and every choice of the phases that outlast load()'s timeouts.   *)
EXTENDS Lifecycle
=============================================================================
