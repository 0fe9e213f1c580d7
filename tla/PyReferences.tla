--------------------------- MODULE PyReferences ---------------------------
(***************************************************************************)
(* Strong references as the C extension _wrappers.c handles them.          *)
(*                                                                         *)
(* A slot is a place that owns one reference: a member of a proxy's struct *)
(* or a local variable of a C frame.  refs is the interpreter's count of   *)
(* each object.  An object whose count is 0 is not allocated: it was freed *)
(* by the decrement that brought the count to 0, or was never created.     *)
(* Nothing ties the two variables together here: that they agree is what   *)
(* the modules that use these operators have to show.                      *)
(***************************************************************************)
EXTENDS Integers, FiniteSets

CONSTANTS
  Objects,  \* the objects that can be wrapped
  NULL      \* the C null pointer

VARIABLES
  slot,     \* slot[s]: the object the reference in slot s is to, or NULL
  refs      \* refs[o]: ob_refcnt of object o

Holders(o) == {s \in DOMAIN slot : slot[s] = o}

Unallocated(o) == refs[o] = 0

(* Py_XINCREF(o), kept in slot s. *)
Acquire(s, o) ==
  /\ slot' = [slot EXCEPT ![s] = o]
  /\ refs' = IF o = NULL THEN refs ELSE [refs EXCEPT ![o] = @ + 1]

(* Py_XDECREF of what slot s holds; s holds nothing afterwards. *)
Release(s) ==
  /\ slot' = [slot EXCEPT ![s] = NULL]
  /\ refs' = IF slot[s] = NULL THEN refs ELSE [refs EXCEPT ![slot[s]] = @ - 1]

(* The pointer swap of Py_XSETREF: no count changes, the old value moves   *)
(* to the local that gave the new one.                                     *)
Exchange(s1, s2) ==
  /\ slot' = [slot EXCEPT ![s1] = slot[s2], ![s2] = slot[s1]]
  /\ UNCHANGED refs

(* Every count is the number of slots that own a reference to the object:  *)
(* no reference is released twice and none is leaked.                      *)
CountsExact == \A o \in Objects : refs[o] = Cardinality(Holders(o))
=============================================================================
