--------------------------- MODULE FunctionBinding ---------------------------
(***************************************************************************)
(* FunctionWrapper and BoundFunctionWrapper: how a decorated callable is   *)
(* bound, bound again, stored elsewhere, wrapped again and called, in the  *)
(* C extension or in pure Python.  A callable is a core of CPython's with  *)
(* the wrappers around it, each the record of its fields, the outermost    *)
(* last.  A lookup goes down through them and makes bound wrappers on its  *)
(* way up; a call goes down from wrapper function to wrapper function.     *)
(***************************************************************************)
EXTENDS Sequences, Integers, Functions

CONSTANTS Classes, Instances, ClassOf, Other, MaxArgs, None, TypeError,
          Wrappers      \* the wrapper functions, each used by one decorator

ASSUME ClassOfAssumption ==
  /\ ClassOf \in [Instances -> Classes]
  /\ None \notin Instances \cup Classes \cup Wrappers /\ Instances \cap Classes = {}

VARIABLES inC,          \* whether the C extension is in use
          held,         \* the callable that the program has in hand
          made,         \* the function wrapper that each decorator has made
          decorators,   \* the wrapper functions put around it, the first one first
          enabled,      \* what the enabled() of each wrapper would return
          asked,        \* the lookup or the call that is under way
          phase,        \* what it is doing: "idle", "get", "got", "call", "partial"
          at,           \* the callable that it is at
          waiting,      \* the wrappers whose __get__ waits for an inner one
          args,         \* the arguments that are passed on
          partial,      \* the argument kept in a PartialCallableObjectProxy
          seen,         \* what each wrapper function saw that the last call has run
          effect,       \* the arguments that the body got from it
          changed       \* the wrappers added or switched since the last call began

frame == <<asked, phase, at, waiting, args, partial>>
vars == <<inC, held, made, decorators, enabled, frame, seen, effect, changed>>

(* Raw callables, methods, lookups and arguments are CPython's; of the promise that
   the module makes, what it holds for in pure Python is another matter. *)
Promised(value, otherwise) == IF inC THEN value ELSE otherwise

Py == INSTANCE Attribute WITH
        attr <- Promised(held.core, [kind |-> "function"]),
        asked <- Promised(asked, [op |-> "none", instance |-> None, owner |-> None, args |-> <<>>]),
        effect <- Promised(effect, None)

Raws == {Py!Raw(kind) : kind \in Py!Kinds \cup {"static"}}

Cores == Raws \cup {Py!Method(o, v) : o \in Raws, v \in Instances \cup Classes}

Bindings == {"function", "instancemethod", "classmethod", "staticmethod", "callable", "class",
             "builtin"}

(* The fields of a wrapper.  Its parent, if it is bound, is what its decorator has
   made; self is what the lookup of __self__ finds, in objects that never change. *)
Layers == [wrapper : Wrappers, instance : Instances \cup {None}, binding : Bindings,
           bound : BOOLEAN, owner : Classes \cup {None}, self : Instances \cup Classes \cup {None}]

Callables == [layers : Seq(Layers), core : Cores]

NoCallable == [layers |-> <<>>, core |-> Py!Raw("none")]

IsWrapper(o) == o.layers # <<>>
Top(o) == o.layers[Len(o.layers)]
IsBound(o) == IsWrapper(o) /\ Top(o).bound
Wrapped(o) == [layers |-> SubSeq(o.layers, 1, Len(o.layers) - 1), core |-> o.core]
Parent(o) == made[Top(o).wrapper]
Around(o, layer) == [layers |-> Append(o.layers, layer), core |-> o.core]

IsInstance(v, class) == v \in Instances /\ ClassOf[v] = class

(* The __self__ of a callable, None when it has none. *)
SelfOf(o) ==
  CASE IsWrapper(o) -> Top(o).self
    [] ~IsWrapper(o) /\ o.core.kind = "method" -> o.core.instance
    [] OTHER -> None

---------------------------------------------------------------------------
(* Construction *)

(* FunctionWrapper.__init__ classifies what it is given; a wrapper inside  *)
(* has already done so.                                                    *)
BindingOf(o) ==
  LET kind == o.core.kind IN
  CASE IsWrapper(o) -> Top(o).binding
    [] ~IsWrapper(o) /\ kind = "method" ->
         IF o.core.instance \in Classes THEN "classmethod" ELSE "instancemethod"
    [] ~IsWrapper(o) /\ kind = "descriptor" -> "callable"
    [] ~IsWrapper(o) /\ kind = "static" -> "function"
    [] OTHER -> kind

FunctionWrapper(o, wrapper) ==
  Around(o, [wrapper |-> wrapper, instance |-> None, binding |-> BindingOf(o),
             bound |-> FALSE, owner |-> None, self |-> SelfOf(o)])

(* A bound wrapper is asked for __self__ with its parent first. *)
BoundFunctionWrapper(o, wrapper, instance, owner) ==
  LET parent == made[wrapper] IN
  Around(o, [wrapper |-> wrapper, instance |-> instance, binding |-> Top(parent).binding,
             bound |-> TRUE, owner |-> owner,
             self |-> IF SelfOf(parent) # None THEN SelfOf(parent) ELSE SelfOf(o)])

---------------------------------------------------------------------------
(* The program that uses a decorated callable *)

Idle == /\ phase' = "idle" /\ asked' = Py!Nothing /\ at' = NoCallable
        /\ args' = <<>> /\ waiting' = <<>> /\ partial' = <<>>

Init == /\ inC \in BOOLEAN
        /\ \E kind \in Py!Kinds : held = [layers |-> <<>>, core |-> Py!Raw(kind)]
        /\ made = [w \in Wrappers |-> NoCallable]
        /\ decorators = <<>>
        /\ enabled = [w \in Wrappers |-> TRUE]
        /\ phase = "idle" /\ asked = Py!Nothing /\ at = NoCallable
        /\ args = <<>> /\ waiting = <<>> /\ partial = <<>>
        /\ seen = <<>> /\ effect = None /\ changed = {}

Decorate(wrapper) ==
  /\ phase = "idle" /\ wrapper \notin Range(decorators)
  /\ held' = FunctionWrapper(held, wrapper)
  /\ made' = [made EXCEPT ![wrapper] = FunctionWrapper(held, wrapper)]
  /\ decorators' = Append(decorators, wrapper)
  /\ changed' = changed \cup {wrapper}
  /\ UNCHANGED <<inC, enabled, frame, seen, effect>>

Toggle(wrapper) ==
  /\ enabled' = [enabled EXCEPT ![wrapper] = ~@]
  /\ changed' = changed \cup {wrapper}
  /\ UNCHANGED <<inC, held, made, decorators, frame, seen, effect>>

Ask(request) ==
  /\ phase = "idle"
  /\ asked' = request /\ at' = held /\ args' = request.args
  /\ seen' = <<>> /\ effect' = None /\ changed' = {}
  /\ UNCHANGED <<inC, held, made, decorators, enabled, waiting, partial>>

(* The callable in hand is stored in a class and looked up there. *)
Access == phase' = "get" /\ \E lookup \in Py!Lookups : Ask(lookup)

Call == phase' = "call" /\ \E call \in Py!Calls : Ask(call)

---------------------------------------------------------------------------
(* Binding: __get__ *)

(* The C extension looks for tp_descr_get in the type of what it wraps,    *)
(* Python for the attribute __get__, which a bound method (CPython 3.11)   *)
(* passes on to its function.                                              *)
HasGet(o) ==
  \/ IsWrapper(o)
  \/ o.core.kind \in {"function", "static", "descriptor", "classmethod", "staticmethod"}
  \/ ~inC /\ o.core.kind = "method"

(* The wrapper waits while what it wraps, or has wrapped before, is bound. *)
Descend(o) ==
  /\ waiting' = Append(waiting, Top(at).wrapper)
  /\ at' = o
  /\ UNCHANGED <<inC, held, made, decorators, enabled, asked, phase, args, partial, seen,
                 effect, changed>>

Got ==
  /\ phase' = "got"
  /\ UNCHANGED <<inC, held, made, decorators, enabled, asked, args, partial, seen, effect,
                 changed>>

Bind ==
  /\ phase = "get" /\ IsWrapper(at) /\ ~IsBound(at)
  /\ IF Top(at).binding \in {"builtin", "class"} \/ ~HasGet(Wrapped(at))
     THEN Got /\ UNCHANGED <<at, waiting>>
     ELSE Descend(Wrapped(at))

(* Found through a class before, and now through an instance or a class:   *)
(* bound anew from the parent.                                             *)
FoundThroughClass(o) ==
  Top(o).instance = None /\ Top(o).binding \in {"function", "instancemethod", "callable"}

(* Mutant: binds the parent itself instead of what it wraps. *)
RebindParent ==
  /\ phase = "get" /\ IsBound(at)
  /\ IF FoundThroughClass(at) THEN Descend(Parent(at)) ELSE Got /\ UNCHANGED <<at, waiting>>

Rebind ==
  /\ phase = "get" /\ IsBound(at)
  /\ IF FoundThroughClass(at) THEN Descend(Wrapped(Parent(at))) ELSE Got /\ UNCHANGED <<at, waiting>>

(* The lookup has come to the core; a method is bound only where a wrapper asks. *)
Descriptor ==
  /\ phase = "get" /\ ~IsWrapper(at)
  /\ LET o == IF waiting # <<>> /\ at.core.kind = "method" THEN at.core.wrapped ELSE at.core
     IN at' = [at EXCEPT !.core = Py!PyBind(o, asked.instance, asked.owner)]
  /\ Got /\ UNCHANGED waiting

MakeBound ==
  /\ phase = "got" /\ waiting # <<>>
  /\ at' = BoundFunctionWrapper(at, waiting[Len(waiting)], asked.instance, asked.owner)
  /\ waiting' = SubSeq(waiting, 1, Len(waiting) - 1)
  /\ UNCHANGED <<inC, held, made, decorators, enabled, asked, phase, args, partial, seen,
                 effect, changed>>

Found ==
  /\ phase = "got" /\ waiting = <<>>
  /\ held' = at
  /\ Idle
  /\ UNCHANGED <<inC, made, decorators, enabled, seen, effect, changed>>

---------------------------------------------------------------------------
(* Calling: __call__ *)

Enter(on) ==
  /\ phase = "call" /\ IsWrapper(at) /\ enabled[Top(at).wrapper] = on
  /\ at' = Wrapped(at)
  /\ UNCHANGED <<inC, held, made, decorators, enabled, asked, waiting, effect, changed>>

Skip == Enter(FALSE) /\ UNCHANGED <<phase, args, partial, seen>>

(* The wrapper function notes what it sees and ends in                     *)
(* wrapped( *args), as the ones of the documentation do.                   *)
RunWrapper(instance, passed) ==
  seen' = Append(seen, [wrapper |-> Top(at).wrapper, instance |-> instance, args |-> passed])

CallUnbound ==
  /\ Enter(TRUE) /\ ~IsBound(at)
  /\ LET known == Top(at).binding \in {"function", "instancemethod", "classmethod", "callable"}
     IN RunWrapper(IF Top(at).instance = None /\ known THEN SelfOf(Wrapped(at))
                   ELSE Top(at).instance, args)
  /\ UNCHANGED <<phase, args, partial>>

(* Called through the class: the first argument is the instance. *)
PassesInstance(o) ==
  /\ Top(o).binding \in {"function", "callable"}
  /\ Top(o).instance = None
  /\ args # <<>>
  /\ IsInstance(Head(args), Top(o).owner)

(* Mutant: takes the instance out of the arguments without binding it. *)
CallBoundShifted ==
  /\ Enter(TRUE) /\ IsBound(at)
  /\ IF PassesInstance(at)
     THEN RunWrapper(Head(args), Tail(args)) /\ args' = Tail(args) /\ UNCHANGED <<phase, partial>>
     ELSE /\ RunWrapper(IF Top(at).binding \in {"function", "callable"} THEN Top(at).instance
                        ELSE SelfOf(Wrapped(at)), args)
          /\ UNCHANGED <<phase, args, partial>>

(* Mutant: passes on the instance it was found through. *)
CallBoundFound ==
  /\ Enter(TRUE) /\ IsBound(at)
  /\ IF PassesInstance(at)
     THEN /\ RunWrapper(Head(args), Tail(args))
          /\ phase' = "partial" /\ partial' = <<Head(args)>> /\ args' = Tail(args)
     ELSE RunWrapper(Top(at).instance, args) /\ UNCHANGED <<phase, args, partial>>

CallBound ==
  /\ Enter(TRUE) /\ IsBound(at)
  /\ IF PassesInstance(at)
     THEN /\ RunWrapper(Head(args), Tail(args))
          /\ phase' = "partial" /\ partial' = <<Head(args)>> /\ args' = Tail(args)
     ELSE /\ RunWrapper(IF Top(at).binding \in {"function", "callable"} THEN Top(at).instance
                        ELSE SelfOf(Wrapped(at)), args)
          /\ UNCHANGED <<phase, args, partial>>

(* PartialCallableObjectProxy.__call__ *)
CallPartial ==
  /\ phase = "partial"
  /\ phase' = "call" /\ args' = partial \o args /\ partial' = <<>>
  /\ UNCHANGED <<inC, held, made, decorators, enabled, asked, at, waiting, seen, effect, changed>>

Body ==
  /\ phase = "call" /\ ~IsWrapper(at)
  /\ effect' = Py!PyCall(at.core, args)
  /\ Idle
  /\ UNCHANGED <<inC, held, made, decorators, enabled, seen, changed>>

Next == \/ \E w \in Wrappers : Decorate(w) \/ Toggle(w)
        \/ Access \/ Bind \/ Rebind \/ Descriptor \/ MakeBound \/ Found
        \/ Call \/ Skip \/ CallUnbound \/ CallBound \/ CallPartial \/ Body

Spec == Init /\ [][Next]_vars

---------------------------------------------------------------------------
(* Properties *)

(* With the C extension, a callable behaves the same whatever decorators   *)
(* are put around it, before, after or between bindings, and whether they  *)
(* are enabled or not: every lookup binds it, and every call reaches its   *)
(* body with the arguments, as CPython does without decorators, up to what *)
(* Attribute grants for static methods.                                    *)
ImplementsAttribute == Py!Spec

(* Every decorator whose enabled() says so during the call has run its     *)
(* wrapper function when the call is over, once, the outermost first, and  *)
(* no other: no binding loses one and none runs twice.                     *)
WrappersRunOnce ==
  effect # None =>
    /\ \A i, j \in DOMAIN seen : i < j =>
         \E a, b \in DOMAIN decorators :
           decorators[a] = seen[i].wrapper /\ decorators[b] = seen[j].wrapper /\ a > b
    /\ \A w \in Range(decorators) \ changed :
         enabled[w] <=> \E i \in DOMAIN seen : seen[i].wrapper = w

(* All decorators were put on a callable that lookups bind, before any did. *)
DecoratedFirst(o) ==
  LET first == IF IsWrapper(o) THEN Parent(o) ELSE o
  IN /\ \A i \in DOMAIN first.layers : ~first.layers[i].bound
     /\ first.core.kind \notin {"method", "callable"}

(* docs/decorators.rst:629-760.  What a wrapper function sees is the call  *)
(* that its body gets: instance is the receiver and args the rest, or      *)
(* instance is None and args are all.  A method called through its class   *)
(* looks the same as one called on the instance, to every decorator on it. *)
(* Not so where an outer decorator takes the inner one for a method while  *)
(* lookups leave what that one wraps as it is.                             *)
InstanceIsReceiver ==
  /\ Len(decorators) = 1 \/ DecoratedFirst(held)
  /\ effect \notin {None, TypeError}
  => \A i \in DOMAIN seen : LET s == seen[i] IN
       /\ effect = IF s.instance = None THEN s.args ELSE <<s.instance>> \o s.args
       /\ /\ IsBound(held)
          /\ Top(held).binding \in {"function", "callable"}
          /\ effect # <<>>
          /\ IsInstance(Head(effect), Top(held).owner)
          => s.instance = Head(effect)
=============================================================================
