-------------------------- MODULE MC_ObjectProxy --------------------------
(* Two threads sharing one proxy, or two that are each other's operand. *)
EXTENDS ObjectProxy, TLC

Symmetry == Permutations(Objects) \cup Permutations(Threads) \cup Permutations(Proxies)

(* Bound: an in-place operator makes a new object, or returns its left operand. *)
NewOrLeft ==
  \A t \in Threads : pc[t] = "use" /\ Held(t, "new")' # NULL =>
    \E o \in Objects : /\ Held(t, "new")' = o
                       /\ Unallocated(o) \/ Held(t, "left") = o
=============================================================================
