----------------------------- MODULE MCExecutor -----------------------------
(* Two timers with a short and a long delay: deadlines merge, expire in     *)
(* either order and outlive the session that asked for them.                *)
EXTENDS Executor
=============================================================================
