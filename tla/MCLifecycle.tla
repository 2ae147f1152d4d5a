----------------------------- MODULE MCLifecycle -----------------------------
(* Lifecycle for TLC: a signal reaches any thread, as SIGINT does. *)
EXTENDS Lifecycle

AnyThread == Threads
===============================================================================
