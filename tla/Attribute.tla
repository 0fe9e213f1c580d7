------------------------------ MODULE Attribute ------------------------------
(***************************************************************************)
(* What CPython makes of a callable that is an attribute of a class: the   *)
(* promise a wrapt decorator on that callable has to keep.  A callable is  *)
(* found through a class or one of its instances, which may bind it, may   *)
(* be stored in another class and found again there, and may be called.    *)
(* Only the arguments that reach the function's body are of interest.      *)
(***************************************************************************)
EXTENDS Sequences, Integers

CONSTANTS Classes, Instances, ClassOf, Other, MaxArgs, None, TypeError

VARIABLES attr,     \* the callable in hand
          asked,    \* the lookup or the call that is under way
          effect    \* the arguments the body got from the last call, None since a lookup

(* A callable as it is written in a class body: a function, one inside     *)
(* classmethod or staticmethod, a callable object with or without a        *)
(* __get__ of its own, a class, or a builtin function.                     *)
Kinds == {"function", "classmethod", "staticmethod", "descriptor", "callable", "class", "builtin"}
Raw(kind) == [kind |-> kind]
Method(function, receiver) == [kind |-> "method", wrapped |-> function, instance |-> receiver]

Arguments == UNION {[1..n -> Instances \cup {Other}] : n \in 0..MaxArgs}

Request(op, instance, owner, args) ==
  [op |-> op, instance |-> instance, owner |-> owner, args |-> args]

(* instance is None when the attribute is found through the class. *)
Lookups == {Request("lookup", None, c, <<>>) : c \in Classes}
             \cup {Request("lookup", i, ClassOf[i], <<>>) : i \in Instances}

Calls == {Request("call", None, None, args) : args \in Arguments}

Nothing == Request("none", None, None, <<>>)

(* "static" is the function inside a staticmethod once it has been found.   *)

(* tp_descr_get of the callable's type; a type that has none, the type of  *)
(* bound methods among them (CPython 3.11), leaves the callable as it is.  *)
PyBind(o, instance, owner) ==
  CASE o.kind \in {"function", "static", "descriptor"} /\ instance # None -> Method(o, instance)
    [] o.kind = "classmethod"  -> Method(Raw("function"), owner)
    [] o.kind = "staticmethod" -> Raw("static")
    [] OTHER -> o

PyCall(o, args) ==
  CASE o.kind = "method"      -> <<o.instance>> \o args
    [] o.kind = "classmethod" -> TypeError
    [] OTHER -> args

Init == attr \in {Raw(kind) : kind \in Kinds} /\ asked = Nothing /\ effect = None

Ask(request) == asked = Nothing /\ asked' = request /\ effect' = None /\ UNCHANGED attr

(* The one liberty granted: the function of a staticmethod that was found   *)
(* and is stored in another class may stay static there, where CPython     *)
(* binds it like any function.                                             *)
Found == /\ asked.op = "lookup" /\ asked' = Nothing
         /\ \/ attr' = PyBind(attr, asked.instance, asked.owner)
            \/ attr.kind = "static" /\ attr' = attr
         /\ UNCHANGED effect

Called == /\ asked.op = "call" /\ asked' = Nothing
          /\ effect' = PyCall(attr, asked.args)
          /\ UNCHANGED attr

Next == (\E request \in Lookups \cup Calls : Ask(request)) \/ Found \/ Called

Spec == Init /\ [][Next]_<<attr, asked, effect>>
=============================================================================
