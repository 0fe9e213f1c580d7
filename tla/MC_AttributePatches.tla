------------------------ MODULE MC_AttributePatches ------------------------
(* A class that defines the attribute, one that inherits it, and its instance. *)
EXTENDS AttributePatches, TLC

CONSTANTS base, derived, instance

MCMro == base :> <<base>> @@ derived :> <<derived, base>>
           @@ instance :> <<instance, derived, base>>

Symmetry == Permutations(Threads) \cup Permutations(Permanent) \cup Permutations(Transient)
=============================================================================
