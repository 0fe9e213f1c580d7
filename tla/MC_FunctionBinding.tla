------------------------- MODULE MC_FunctionBinding -------------------------
(* Two unrelated classes with an instance each, two decorators. *)
EXTENDS DecoratorStack

CONSTANTS C, D, x, y
MCClassOf == [i \in {x, y} |-> IF i = x THEN C ELSE D]
=============================================================================
