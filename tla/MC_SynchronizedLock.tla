----------------------- MODULE MC_SynchronizedLock -----------------------
(* Threads that race for the first use of one context, and tasks with them. *)
EXTENDS SynchronizedLock, TLC

Symmetry == Permutations(Threads) \cup Permutations(Tasks) \cup Permutations(Locks)
=============================================================================
