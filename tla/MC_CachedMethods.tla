-------------------------- MODULE MC_CachedMethods --------------------------
(* An instance, its copies, a proxy around the instance, the class itself;    *)
(* a method, its override, and a third that replaces one; a class method.    *)
EXTENDS CachedMethods, TLC

CONSTANTS i, j, k, p, none, base, override, replacement, shared, a1, a2, a3

MCAround == p :> i

Symmetry == Permutations(Threads) \cup Permutations(Addresses) \cup Permutations({j, k})
=============================================================================
