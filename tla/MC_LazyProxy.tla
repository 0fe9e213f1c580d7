--------------------------- MODULE MC_LazyProxy ---------------------------
(* One lazy proxy, in C or in Python, and a factory that may use it. *)
EXTENDS LazyProxy
=============================================================================
