------------------------- MODULE MC_ProxyAttributes -------------------------
(* A function, a callable to which handlers are added and that makes a new one of
   itself each time (tests/stress/stress_inplace_ops.py has such an object), a list
   and a number, around which is put a proxy whose class has an __fspath__ of its own. *)
EXTENDS ProxyAttributes, TLC

CONSTANTS function, handler, list, number

MCMethods == <<"__call__", "__iter__", "__fspath__">>

MCInterface == function :> {"__call__"} @@ handler :> {"__call__", "__fspath__"}
                 @@ list :> {"__iter__"} @@ number :> {}

(* A list gives itself, a function only raises, and what number + other is may be
   up to the other. *)
MCSum == function :> {} @@ handler :> {function, handler} @@ list :> {list}
           @@ number :> {number, handler}

Symmetry == Permutations(Threads) \cup Permutations(Names)
=============================================================================
