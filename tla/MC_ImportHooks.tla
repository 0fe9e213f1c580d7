-------------------------- MODULE MC_ImportHooks --------------------------
(* Threads that import, ask for and hook on to one or two modules. *)
EXTENDS ImportHooks
=============================================================================
