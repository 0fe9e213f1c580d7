------------------------ MODULE FunctionBindingProofs ------------------------
(***************************************************************************)
(* A decorated callable is bound and called as CPython does without the    *)
(* decorators, every decorator runs once and is told the receiver: for any *)
(* classes, instances and decorators, and stacks of any height.            *)
(***************************************************************************)
EXTENDS FunctionBinding, SequenceTheorems, TLAPS

Values == Instances \cup Classes

Sights == [wrapper : Wrappers, instance : Values \cup {None},
           args : Seq(Instances \cup {Other})]

(* Types, and what belongs to a phase. *)
TypeOK ==
  /\ inC \in BOOLEAN
  /\ held \in Callables
  /\ made \in [Wrappers -> Callables \cup {NoCallable}]
  /\ decorators \in Seq(Wrappers)
  /\ \A i, j \in 1..Len(decorators) : decorators[i] = decorators[j] => i = j
  /\ enabled \in [Wrappers -> BOOLEAN]
  /\ waiting \in Seq(Wrappers)
  /\ args \in Seq(Instances \cup {Other})
  /\ partial \in Seq(Instances \cup {Other})
  /\ seen \in Seq(Sights)
  /\ changed \in SUBSET Wrappers
  /\ \/ phase = "idle" /\ asked = Py!Nothing
     \/ phase \in {"get", "got"} /\ asked \in Py!Lookups
     \/ phase \in {"call", "partial"} /\ asked \in Py!Calls
  /\ phase \notin {"get", "got"} => waiting = <<>>

(* The binding that __init__ gives a wrapper around nothing but a core. *)
CoreBinding(core) == BindingOf([layers |-> <<>>, core |-> core])

CoreSelf(core) == SelfOf([layers |-> <<>>, core |-> core])

Rebindable(layer) ==
  layer.instance = None /\ layer.binding \in {"function", "instancemethod", "callable"}

(* A decorator made of what it wrapped something that lookups go through. *)
Bindable(i) ==
  LET parent == made[decorators[i]]
  IN /\ parent.layers[i].binding \notin {"builtin", "class"}
     /\ i > 1 \/ HasGet([layers |-> <<>>, core |-> parent.core])

(* The kinds that the core of a wrapper with a binding can have in C. *)
Fits(core, binding) ==
  /\ binding = "function" => core.kind \in {"function", "static", "method"}
  /\ binding = "instancemethod" => core.kind = "method"
  /\ binding = "classmethod" => core.kind \in {"classmethod", "method"}
  /\ binding = "staticmethod" => core.kind \in {"staticmethod", "static"}
  /\ binding = "callable" => core.kind \in {"descriptor", "callable", "method"}
  /\ binding \in {"class", "builtin"} => core.kind = binding

Settled(core) == core.kind \in {"method", "callable", "class", "builtin", "static"}

(* The wrappers of a callable, each as its decorator made it or as a lookup
   bound it. *)
Consistent(o) ==
  /\ o \in Callables
  /\ Len(o.layers) <= Len(decorators)
  /\ \A i \in 1..Len(o.layers) :
       LET layer == o.layers[i]
           parent == made[decorators[i]]
       IN /\ layer.wrapper = decorators[i]
          /\ layer.binding = parent.layers[i].binding
          /\ ~layer.bound => /\ layer.instance = None
                             /\ parent.core = o.core
                             /\ \A j \in 1..i : parent.layers[j] = o.layers[j]
          /\ layer.bound => Bindable(i)
          /\ layer.bound /\ inC /\ Rebindable(layer) => parent.core = o.core
          /\ layer.bound /\ inC /\ ~Rebindable(layer) => Settled(o.core)
          /\ inC => Fits(o.core, layer.binding)

Parents ==
  \A i \in 1..Len(decorators) : LET parent == made[decorators[i]] IN
    /\ Consistent(parent)
    /\ Len(parent.layers) = i
    /\ ~parent.layers[i].bound
    /\ parent.layers[i].binding = CoreBinding(made[decorators[1]].core)

Held == Consistent(held) /\ Len(held.layers) = Len(decorators)

(* A lookup has still to be made for at, or has given at to the ones that wait. *)
Lookup ==
  phase \in {"get", "got"} =>
    /\ Consistent(at)
    /\ Len(at.layers) + Len(waiting) = Len(decorators)
    /\ \A j \in 1..Len(waiting) : LET i == Len(decorators) + 1 - j IN
         /\ waiting[j] = decorators[i]
         /\ Bindable(i)
         /\ inC => made[decorators[i]].core = held.core
    /\ inC /\ phase = "get" =>
         /\ at.core = held.core
         /\ waiting # <<>> => HasGet(at)
    /\ inC /\ phase = "got" =>
         \/ at.core = Py!PyBind(held.core, asked.instance, asked.owner)
         \/ held.core.kind = "static" /\ at.core = held.core
    /\ effect = None

(* A call has run the wrappers outside of at. *)
Calling ==
  phase \in {"call", "partial"} =>
    /\ at \in Callables
    /\ Len(at.layers) <= Len(held.layers)
    /\ \A i \in 1..Len(at.layers) : at.layers[i] = held.layers[i]
    /\ at.core = held.core
    /\ phase = "call" => args = asked.args
    /\ phase = "partial" => partial \o args = asked.args
    /\ effect = None

(* The wrapper functions outside of the first n that a call has run. *)
Ran(n) ==
  /\ \A i \in DOMAIN seen : \E a \in n + 1..Len(decorators) : decorators[a] = seen[i].wrapper
  /\ \A i, j \in DOMAIN seen : i < j =>
       \E a, b \in DOMAIN decorators :
         decorators[a] = seen[i].wrapper /\ decorators[b] = seen[j].wrapper /\ a > b
  /\ \A a \in n + 1..Len(decorators) :
       decorators[a] \notin changed =>
         (enabled[decorators[a]] <=> \E i \in DOMAIN seen : seen[i].wrapper = decorators[a])

Runs == /\ phase \in {"call", "partial"} => Ran(Len(at.layers))
        /\ phase \in {"get", "got"} => seen = <<>>
        /\ decorators = <<>> => seen = <<>>

---------------------------------------------------------------------------
(* Decorated first, looked up then: all wrappers are unbound, or the last
   lookup has bound them all. *)
First == /\ decorators # <<>>
         /\ DecoratedFirst(made[decorators[Len(decorators)]])

Fresh(o) ==
  /\ o.core = made[decorators[Len(decorators)]].core
  /\ \A i \in 1..Len(o.layers) : ~o.layers[i].bound /\ o.layers[i].self = None

Uniform(o, instance, owner) ==
  /\ o.core = Py!PyBind(made[decorators[Len(decorators)]].core, instance, owner)
  /\ \A i \in 1..Len(o.layers) :
       /\ o.layers[i].bound /\ o.layers[i].instance = instance /\ o.layers[i].owner = owner
       /\ o.layers[i].self = CoreSelf(o.core)

Alike ==
  First =>
    /\ Fresh(made[decorators[Len(decorators)]])
    /\ \/ Fresh(held)
       \/ \E instance \in Instances \cup {None}, owner \in Classes : Uniform(held, instance, owner)
    /\ phase = "get" => Fresh(at) \/ (waiting = <<>> /\ at = held)
    /\ phase = "got" => \/ Uniform(at, asked.instance, asked.owner)
                        \/ waiting = <<>> /\ at = held

(* What a wrapper function has seen is the call of the body. *)
Faithful(s, passed) ==
  /\ passed = IF s.instance = None THEN s.args ELSE <<s.instance>> \o s.args
  /\ /\ IsBound(held)
     /\ Top(held).binding \in {"function", "callable"}
     /\ passed # <<>>
     /\ IsInstance(Head(passed), Top(held).owner)
     => s.instance = Head(passed)

Receives ==
  /\ phase \in {"call", "partial"}
  /\ Len(decorators) = 1 \/ DecoratedFirst(held)
  /\ held.core.kind # "classmethod"
  => \A i \in DOMAIN seen : Faithful(seen[i], Py!PyCall(held.core, asked.args))

IInv == /\ TypeOK /\ Parents /\ Held /\ Lookup /\ Calling /\ Runs /\ Alike /\ Receives
        /\ WrappersRunOnce /\ InstanceIsReceiver

---------------------------------------------------------------------------
(* Callables, requests and what CPython makes of a core *)

LEMMA CallableFacts ==
  ASSUME NEW o \in Callables
  PROVE  /\ o.layers \in Seq(Layers) /\ o.core \in Cores
         /\ Len(o.layers) \in Nat
         /\ IsWrapper(o) <=> Len(o.layers) > 0
         /\ \A i \in 1..Len(o.layers) : o.layers[i] \in Layers
<1>1. o.layers \in Seq(Layers) /\ o.core \in Cores
  BY DEF Callables
<1>2. QED
  BY <1>1, ElementOfSeq, EmptySeq DEF IsWrapper

LEMMA WrappedFacts ==
  ASSUME NEW o \in Callables, IsWrapper(o)
  PROVE  /\ Wrapped(o) \in Callables
         /\ Wrapped(o).core = o.core
         /\ Len(Wrapped(o).layers) = Len(o.layers) - 1
         /\ \A i \in 1..Len(o.layers) - 1 : Wrapped(o).layers[i] = o.layers[i]
<1> DEFINE n == Len(o.layers) - 1
           s == SubSeq(o.layers, 1, n)
<1>1. n \in Nat /\ \A i \in 1..n : o.layers[i] \in Layers
  BY CallableFacts
<1>2. /\ s \in Seq(Layers) /\ Len(s) = n /\ \A i \in 1..n : s[i] = o.layers[i]
  <2> HIDE DEF n
  <2>1. /\ s \in Seq(Layers)
        /\ Len(s) = IF 1 <= n THEN n - 1 + 1 ELSE 0
        /\ \A i \in 1..n - 1 + 1 : s[i] = o.layers[1 + i - 1]
    BY <1>1, SubSeqProperties
  <2>2. QED
    BY <2>1, <1>1
<1>3. Wrapped(o) = [layers |-> s, core |-> o.core]
  BY DEF Wrapped
<1>4. QED
  BY <1>2, <1>3, CallableFacts DEF Callables

LEMMA AroundFacts ==
  ASSUME NEW o \in Callables, NEW layer \in Layers
  PROVE  /\ Around(o, layer) \in Callables
         /\ Around(o, layer).core = o.core
         /\ Len(Around(o, layer).layers) = Len(o.layers) + 1
         /\ \A i \in 1..Len(o.layers) : Around(o, layer).layers[i] = o.layers[i]
         /\ Around(o, layer).layers[Len(o.layers) + 1] = layer
<1>1. o.layers \in Seq(Layers) /\ o.core \in Cores
  BY CallableFacts
<1>2. QED
  BY <1>1, AppendProperties DEF Around, Callables

LEMMA CoreFacts ==
  ASSUME NEW c \in Cores
  PROVE  \/ /\ c.kind \in {"function", "classmethod", "staticmethod", "descriptor", "callable",
                           "class", "builtin", "static"}
            /\ c = Py!Raw(c.kind)
         \/ /\ c.kind = "method" /\ c.wrapped \in Raws /\ c.instance \in Values
            /\ c = Py!Method(c.wrapped, c.instance)
BY DEF Cores, Raws, Values, Py!Raw, Py!Method, Py!Kinds

LEMMA RawFacts ==
  ASSUME NEW c \in Raws
  PROVE  /\ c \in Cores
         /\ c.kind \in {"function", "classmethod", "staticmethod", "descriptor", "callable",
                        "class", "builtin", "static"}
BY DEF Cores, Raws, Py!Raw, Py!Kinds

LEMMA BindFacts ==
  ASSUME NEW c \in Cores, NEW instance \in Instances \cup {None}, NEW owner \in Classes
  PROVE  /\ Py!PyBind(c, instance, owner) \in Cores
         /\ c.kind \in {"function", "static", "descriptor"} =>
              Py!PyBind(c, instance, owner) = IF instance = None THEN c ELSE Py!Method(c, instance)
         /\ c.kind = "classmethod" =>
              Py!PyBind(c, instance, owner) = Py!Method(Py!Raw("function"), owner)
         /\ c.kind = "staticmethod" => Py!PyBind(c, instance, owner) = Py!Raw("static")
         /\ c.kind \in {"method", "callable", "class", "builtin"} =>
              Py!PyBind(c, instance, owner) = c
<1>1. c.kind \in {"function", "static", "descriptor"} => c \in Raws
  BY DEF Cores, Raws, Py!Raw, Py!Method, Py!Kinds
<1>2. Py!Raw("function") \in Raws /\ Py!Raw("static") \in Raws
  BY DEF Raws, Py!Raw, Py!Kinds
<1>3. QED
  BY <1>1, <1>2 DEF Py!PyBind, Cores

LEMMA BindingFacts ==
  ASSUME NEW c \in Cores
  PROVE  /\ CoreBinding(c) = CASE c.kind = "method" -> IF c.instance \in Classes THEN "classmethod"
                                                        ELSE "instancemethod"
                               [] c.kind = "descriptor" -> "callable"
                               [] c.kind = "static" -> "function"
                               [] OTHER -> c.kind
         /\ CoreSelf(c) = IF c.kind = "method" THEN c.instance ELSE None
         /\ CoreBinding(c) \in Bindings
         /\ CoreSelf(c) \in Values \cup {None}
         /\ Fits(c, CoreBinding(c))
<1>1. CoreSelf(c) = IF c.kind = "method" THEN c.instance ELSE None
  BY DEF CoreSelf, SelfOf, IsWrapper
<1>2. CoreBinding(c) = CASE c.kind = "method" -> IF c.instance \in Classes THEN "classmethod"
                                                 ELSE "instancemethod"
                         [] c.kind = "descriptor" -> "callable"
                         [] c.kind = "static" -> "function"
                         [] OTHER -> c.kind
  BY DEF CoreBinding, BindingOf, IsWrapper
<1>3. QED
  BY <1>1, <1>2, CoreFacts DEF Fits, Bindings, Values

LEMMA RequestFacts ==
  /\ Py!Nothing.op = "none"
  /\ \A r \in Py!Lookups : /\ r.op = "lookup" /\ r.instance \in Instances \cup {None}
                           /\ r.owner \in Classes /\ r.args = <<>>
  /\ \A r \in Py!Calls : r.op = "call" /\ r.args \in Seq(Instances \cup {Other})
<1>1. \A r \in Py!Lookups : /\ r.op = "lookup" /\ r.instance \in Instances \cup {None}
                            /\ r.owner \in Classes /\ r.args = <<>>
  BY ClassOfAssumption DEF Py!Lookups, Py!Request
<1>2. ASSUME NEW r \in Py!Calls
      PROVE  r.op = "call" /\ r.args \in Seq(Instances \cup {Other})
  <2>1. PICK a \in Py!Arguments : r = Py!Request("call", None, None, a)
    BY DEF Py!Calls
  <2>2. PICK n \in 0..MaxArgs : a \in [1..n -> Instances \cup {Other}]
    BY <2>1 DEF Py!Arguments
  <2>3. a \in Seq(Instances \cup {Other})
    BY <2>2, SeqDef
  <2>4. QED
    BY <2>1, <2>3 DEF Py!Request
<1>3. QED
  BY <1>1, <1>2 DEF Py!Nothing, Py!Request

---------------------------------------------------------------------------
(* Consistent callables *)

(* Whether a callable is consistent goes by what the decorators have made. *)
LEMMA ConsistentFrame ==
  ASSUME UNCHANGED <<inC, made, decorators>>, NEW o, Consistent(o)
  PROVE  Consistent(o)'
<1>1. \A i : Bindable(i) <=> Bindable(i)'
  BY DEF Bindable, HasGet
<1>2. QED
  BY <1>1 DEF Consistent

(* What is inside a consistent callable is consistent. *)
LEMMA InsideConsistent ==
  ASSUME NEW o, Consistent(o), IsWrapper(o), Len(decorators) \in Nat
  PROVE  Consistent(Wrapped(o))
<1>1. o \in Callables
  BY DEF Consistent
<1> DEFINE n == Len(o.layers) - 1
<1>2. n \in Nat /\ Len(o.layers) = n + 1
  BY <1>1, CallableFacts
<1> PICK w : w = Wrapped(o)
  OBVIOUS
<1>3. /\ w \in Callables /\ w.core = o.core /\ Len(w.layers) = n
      /\ \A i \in 1..n : w.layers[i] = o.layers[i]
  BY <1>1, WrappedFacts
<1>4. Len(w.layers) <= Len(decorators)
  BY <1>2, <1>3 DEF Consistent
<1>5. Consistent(w)
  BY <1>2, <1>3, <1>4 DEF Consistent
<1>6. QED
  BY <1>5

(* A wrapper that fits its decorator keeps a callable consistent. *)
LEMMA AroundConsistent ==
  ASSUME NEW o, Consistent(o), Len(decorators) \in Nat, NEW layer \in Layers,
         NEW n \in Nat, n = Len(o.layers) + 1, n <= Len(decorators),
         layer.wrapper = decorators[n],
         layer.binding = made[decorators[n]].layers[n].binding,
         ~layer.bound => /\ layer.instance = None
                         /\ made[decorators[n]].core = o.core
                         /\ made[decorators[n]].layers[n] = layer
                         /\ \A j \in 1..n - 1 : made[decorators[n]].layers[j] = o.layers[j],
         layer.bound => Bindable(n),
         layer.bound /\ inC /\ Rebindable(layer) => made[decorators[n]].core = o.core,
         layer.bound /\ inC /\ ~Rebindable(layer) => Settled(o.core),
         inC => Fits(o.core, layer.binding)
  PROVE  Consistent(Around(o, layer))
<1>1. o \in Callables
  BY DEF Consistent
<1> PICK w : w = Around(o, layer)
  OBVIOUS
<1>2. /\ w \in Callables /\ w.core = o.core /\ Len(w.layers) = n /\ w.layers[n] = layer
      /\ \A i \in 1..n - 1 : w.layers[i] = o.layers[i]
  <2>1. /\ w \in Callables /\ w.core = o.core
        /\ Len(w.layers) = Len(o.layers) + 1 /\ w.layers[Len(o.layers) + 1] = layer
        /\ \A i \in 1..Len(o.layers) : w.layers[i] = o.layers[i]
    BY <1>1, AroundFacts
  <2>2. Len(o.layers) \in Nat /\ Len(o.layers) = n - 1
    BY <1>1, CallableFacts
  <2>3. QED
    BY <2>1, <2>2
<1>3. ASSUME NEW i \in 1..n - 1
      PROVE  /\ w.layers[i] = o.layers[i]
             /\ \A j \in 1..i : w.layers[j] = o.layers[j]
             /\ i \in 1..Len(o.layers)
  BY <1>2
<1>4. ASSUME NEW i \in 1..n - 1
      PROVE  LET l == w.layers[i]
                 parent == made[decorators[i]]
             IN /\ l.wrapper = decorators[i]
                /\ l.binding = parent.layers[i].binding
                /\ ~l.bound => /\ l.instance = None
                               /\ parent.core = w.core
                               /\ \A j \in 1..i : parent.layers[j] = w.layers[j]
                /\ l.bound => Bindable(i)
                /\ l.bound /\ inC /\ Rebindable(l) => parent.core = w.core
                /\ l.bound /\ inC /\ ~Rebindable(l) => Settled(w.core)
                /\ inC => Fits(w.core, l.binding)
  BY <1>2, <1>3 DEF Consistent
<1>5. LET l == w.layers[n]
          parent == made[decorators[n]]
      IN /\ l.wrapper = decorators[n]
         /\ l.binding = parent.layers[n].binding
         /\ ~l.bound => /\ l.instance = None
                        /\ parent.core = w.core
                        /\ \A j \in 1..n : parent.layers[j] = w.layers[j]
         /\ l.bound => Bindable(n)
         /\ l.bound /\ inC /\ Rebindable(l) => parent.core = w.core
         /\ l.bound /\ inC /\ ~Rebindable(l) => Settled(w.core)
         /\ inC => Fits(w.core, l.binding)
  <2>1. ~layer.bound => \A j \in 1..n : made[decorators[n]].layers[j] = w.layers[j]
    BY <1>2
  <2>2. QED
    BY <1>2, <2>1
<1>6. \A i \in 1..Len(w.layers) : i \in 1..n - 1 \/ i = n
  BY <1>2
<1>7. Consistent(w)
  BY <1>2, <1>4, <1>5, <1>6 DEF Consistent
<1>8. QED
  BY <1>7

---------------------------------------------------------------------------
(* Making wrappers *)

LEMMA OutsideFacts ==
  ASSUME NEW o \in Callables
  PROVE  /\ IsWrapper(o) => /\ BindingOf(o) = o.layers[Len(o.layers)].binding
                            /\ SelfOf(o) = o.layers[Len(o.layers)].self
         /\ ~IsWrapper(o) => BindingOf(o) = CoreBinding(o.core) /\ SelfOf(o) = CoreSelf(o.core)
         /\ BindingOf(o) \in Bindings /\ SelfOf(o) \in Values \cup {None}
<1>1. CASE IsWrapper(o)
  <2>1. BindingOf(o) = Top(o).binding /\ SelfOf(o) = Top(o).self
    BY <1>1 DEF BindingOf, SelfOf
  <2>2. Top(o) \in Layers /\ Top(o) = o.layers[Len(o.layers)]
    BY <1>1, CallableFacts DEF Top
  <2>3. QED
    BY <1>1, <2>1, <2>2 DEF Layers, Values
<1>2. CASE ~IsWrapper(o)
  <2>1. BindingOf(o) = CoreBinding(o.core)
    BY <1>2 DEF BindingOf, CoreBinding, IsWrapper
  <2>2. SelfOf(o) = CoreSelf(o.core)
    BY <1>2 DEF SelfOf, CoreSelf, IsWrapper
  <2>3. o.core \in Cores
    BY CallableFacts
  <2>4. QED
    BY <1>2, <2>1, <2>2, <2>3, BindingFacts
<1>3. QED
  BY <1>1, <1>2

LEMMA FunctionWrapperFacts ==
  ASSUME NEW o \in Callables, NEW w \in Wrappers
  PROVE  \E layer \in Layers :
           /\ FunctionWrapper(o, w) = Around(o, layer)
           /\ layer.wrapper = w /\ layer.instance = None /\ ~layer.bound
           /\ layer.binding = BindingOf(o) /\ layer.self = SelfOf(o)
<1> DEFINE layer == [wrapper |-> w, instance |-> None, binding |-> BindingOf(o),
                     bound |-> FALSE, owner |-> None, self |-> SelfOf(o)]
<1>1. layer \in Layers
  BY OutsideFacts DEF Layers, Values
<1>2. FunctionWrapper(o, w) = Around(o, layer)
  BY DEF FunctionWrapper
<1>3. QED
  BY <1>1, <1>2

LEMMA BoundFunctionWrapperFacts ==
  ASSUME NEW o \in Callables, NEW w \in Wrappers, made[w] \in Callables, IsWrapper(made[w]),
         NEW instance \in Instances \cup {None}, NEW owner \in Classes
  PROVE  \E layer \in Layers :
           /\ BoundFunctionWrapper(o, w, instance, owner) = Around(o, layer)
           /\ layer.wrapper = w /\ layer.instance = instance /\ layer.bound
           /\ layer.owner = owner
           /\ layer.binding = made[w].layers[Len(made[w].layers)].binding
           /\ layer.self = IF SelfOf(made[w]) # None THEN SelfOf(made[w]) ELSE SelfOf(o)
<1> DEFINE layer == [wrapper |-> w, instance |-> instance, binding |-> Top(made[w]).binding,
                     bound |-> TRUE, owner |-> owner,
                     self |-> IF SelfOf(made[w]) # None THEN SelfOf(made[w]) ELSE SelfOf(o)]
<1>1. SelfOf(made[w]) \in Values \cup {None} /\ SelfOf(o) \in Values \cup {None}
  BY OutsideFacts
<1>2. Top(made[w]) \in Layers /\ Top(made[w]) = made[w].layers[Len(made[w].layers)]
  BY CallableFacts DEF Top
<1>3. layer \in Layers
  BY <1>1, <1>2 DEF Layers, Values
<1>4. BoundFunctionWrapper(o, w, instance, owner) = Around(o, layer)
  BY DEF BoundFunctionWrapper
<1>5. QED
  BY <1>2, <1>3, <1>4

(* The decorator of a wrapper that is consistent, and of one that waits. *)
LEMMA TopFacts ==
  ASSUME NEW o, Consistent(o), IsWrapper(o), TypeOK, Parents
  PROVE  /\ Len(o.layers) \in 1..Len(decorators)
         /\ Top(o) = o.layers[Len(o.layers)] /\ Top(o) \in Layers
         /\ Top(o).wrapper = decorators[Len(o.layers)] /\ Top(o).wrapper \in Wrappers
         /\ Parent(o) = made[decorators[Len(o.layers)]]
<1>1. o \in Callables /\ Len(o.layers) <= Len(decorators) /\ Len(decorators) \in Nat
  BY DEF Consistent, TypeOK
<1>2. Len(o.layers) \in 1..Len(decorators) /\ Len(o.layers) \in 1..Len(o.layers)
  BY <1>1, CallableFacts
<1>3. Top(o) = o.layers[Len(o.layers)] /\ Top(o) \in Layers
  BY <1>1, <1>2, CallableFacts DEF Top
<1>4. Top(o).wrapper = decorators[Len(o.layers)]
  BY <1>2, <1>3 DEF Consistent
<1>5. Top(o).wrapper \in Wrappers
  BY <1>3 DEF Layers
<1>6. QED
  BY <1>2, <1>3, <1>4, <1>5 DEF Parent

LEMMA WaitingFacts ==
  ASSUME TypeOK, Parents, Lookup, phase \in {"get", "got"}, waiting # <<>>
  PROVE  LET n == Len(at.layers) + 1
         IN /\ n \in 1..Len(decorators) /\ n = Len(decorators) + 1 - Len(waiting)
            /\ waiting[Len(waiting)] = decorators[n] /\ decorators[n] \in Wrappers
            /\ Bindable(n)
            /\ inC => made[decorators[n]].core = held.core
            /\ Consistent(made[decorators[n]]) /\ Len(made[decorators[n]].layers) = n
            /\ Len(at.layers) \in Nat /\ Len(waiting) \in Nat \ {0}
<1> DEFINE n == Len(at.layers) + 1
<1>1. waiting \in Seq(Wrappers) /\ Len(waiting) \in Nat \ {0} /\ Len(decorators) \in Nat
  BY EmptySeq DEF TypeOK
<1>2. Len(at.layers) \in Nat /\ Len(at.layers) + Len(waiting) = Len(decorators)
  BY CallableFacts DEF Lookup, Consistent
<1>3. n \in 1..Len(decorators) /\ n = Len(decorators) + 1 - Len(waiting)
  BY <1>1, <1>2
<1>4. Len(waiting) \in 1..Len(waiting)
  BY <1>1
<1>5. /\ waiting[Len(waiting)] = decorators[n] /\ Bindable(n)
      /\ inC => made[decorators[n]].core = held.core
  BY <1>3, <1>4 DEF Lookup
<1>6. decorators[n] \in Wrappers
  BY <1>3, ElementOfSeq DEF TypeOK
<1>7. Consistent(made[decorators[n]]) /\ Len(made[decorators[n]].layers) = n
  BY <1>3 DEF Parents
<1>8. QED
  BY <1>1, <1>2, <1>3, <1>5, <1>6, <1>7

---------------------------------------------------------------------------
(* Types *)

(* A wrapper function that is put on is new. *)
LEMMA NewDecorator ==
  ASSUME TypeOK, NEW w \in Wrappers, w \notin Range(decorators), decorators' = Append(decorators, w)
  PROVE  /\ Len(decorators) \in Nat /\ Len(decorators') = Len(decorators) + 1
         /\ decorators' \in Seq(Wrappers)
         /\ decorators'[Len(decorators')] = w
         /\ \A i \in 1..Len(decorators) : decorators'[i] = decorators[i] /\ decorators[i] # w
<1>1. decorators \in Seq(Wrappers)
  BY DEF TypeOK
<1>2. /\ Len(decorators) \in Nat /\ Len(decorators') = Len(decorators) + 1
      /\ decorators' \in Seq(Wrappers)
      /\ decorators'[Len(decorators) + 1] = w
      /\ \A i \in 1..Len(decorators) : decorators'[i] = decorators[i]
  BY <1>1, AppendProperties, LenProperties
<1>3. \A i \in 1..Len(decorators) : decorators[i] # w
  BY <1>1, LenProperties DEF Range
<1>4. QED
  BY <1>2, <1>3

(* What a call that enters a wrapper sees and passes on. *)
LEMMA EnterFacts ==
  ASSUME TypeOK, Calling, NEW on, Enter(on)
  PROVE  /\ at \in Callables /\ IsWrapper(at) /\ Top(at) \in Layers
         /\ Wrapped(at) \in Callables /\ SelfOf(Wrapped(at)) \in Values \cup {None}
         /\ phase = "call" /\ args = asked.args
<1>1. phase = "call" /\ IsWrapper(at) /\ at \in Callables /\ args = asked.args
  BY DEF Enter, Calling
<1>2. Top(at) \in Layers
  BY <1>1, CallableFacts DEF Top
<1>3. Wrapped(at) \in Callables
  BY <1>1, WrappedFacts
<1>4. QED
  BY <1>1, <1>2, <1>3, OutsideFacts

LEMMA SightType ==
  ASSUME TypeOK, Top(at).wrapper \in Wrappers,
         NEW instance \in Values \cup {None}, NEW passed \in Seq(Instances \cup {Other}),
         RunWrapper(instance, passed)
  PROVE  seen' \in Seq(Sights)
<1> DEFINE s == [wrapper |-> Top(at).wrapper, instance |-> instance, args |-> passed]
<1>1. s \in Sights
  BY DEF Sights
<1>2. seen \in Seq(Sights)
  BY DEF TypeOK
<1> HIDE DEF s
<1>3. seen' = Append(seen, s)
  BY DEF RunWrapper, s
<1>4. QED
  BY <1>1, <1>2, <1>3, AppendProperties

(* Calling through the class takes the instance off the arguments. *)
LEMMA PassedInstance ==
  ASSUME TypeOK, PassesInstance(at)
  PROVE  /\ Head(args) \in Instances /\ Tail(args) \in Seq(Instances \cup {Other})
         /\ <<Head(args)>> \in Seq(Instances \cup {Other})
         /\ <<Head(args)>> \o Tail(args) = args
<1> DEFINE S == Instances \cup {Other}
<1>1. args \in Seq(S) /\ args # <<>> /\ Head(args) \in Instances
  BY DEF TypeOK, PassesInstance, IsInstance
<1>2. Tail(args) \in Seq(S)
  BY <1>1, HeadTailProperties
<1>3. <<Head(args)>> \in Seq(S)
  BY <1>1
<1>4. <<Head(args)>> \o Tail(args) = args
  BY <1>1
<1>5. QED
  BY <1>1, <1>2, <1>3, <1>4

LEMMA InitType ==
  ASSUME Init
  PROVE  TypeOK
<1> USE DEF Init
<1>1. held \in Callables
  <2>1. PICK kind \in Py!Kinds : held = [layers |-> <<>>, core |-> Py!Raw(kind)]
    OBVIOUS
  <2>2. Py!Raw(kind) \in Cores
    BY DEF Cores, Raws
  <2>3. QED
    BY <2>1, <2>2 DEF Callables
<1>2. made \in [Wrappers -> Callables \cup {NoCallable}] /\ enabled \in [Wrappers -> BOOLEAN]
  OBVIOUS
<1>3. \A S : <<>> \in Seq(S)
  OBVIOUS
<1>4. \A i, j \in 1..Len(decorators) : decorators[i] = decorators[j] => i = j
  OBVIOUS
<1>5. QED
  BY <1>1, <1>2, <1>3, <1>4 DEF TypeOK

LEMMA TypeStep ==
  ASSUME TypeOK, Parents, Held, Lookup, Calling, [Next]_vars
  PROVE  TypeOK'
<1> \A S : <<>> \in Seq(S)
  OBVIOUS
<1>1. ASSUME NEW w \in Wrappers, Decorate(w)
      PROVE  TypeOK'
  <2>1. FunctionWrapper(held, w) \in Callables
    BY FunctionWrapperFacts, AroundFacts DEF TypeOK
  <2>2. made' \in [Wrappers -> Callables \cup {NoCallable}]
    BY <1>1, <2>1 DEF Decorate, TypeOK
  <2>3. /\ decorators' \in Seq(Wrappers) /\ Len(decorators) \in Nat
        /\ Len(decorators') = Len(decorators) + 1 /\ decorators'[Len(decorators) + 1] = w
        /\ \A i \in 1..Len(decorators) : decorators'[i] = decorators[i] /\ decorators[i] # w
    BY <1>1, NewDecorator DEF Decorate
  <2>4. \A i, j \in 1..Len(decorators') : decorators'[i] = decorators'[j] => i = j
    <3>1. \A i \in 1..Len(decorators') : i \in 1..Len(decorators) \/ i = Len(decorators) + 1
      BY <2>3
    <3>2. QED
      BY <2>3, <3>1 DEF TypeOK
  <2>5. QED
    BY <1>1, <2>1, <2>2, <2>3, <2>4 DEF Decorate, TypeOK, frame
<1>2. ASSUME NEW w \in Wrappers, Toggle(w)
      PROVE  TypeOK'
  BY <1>2 DEF Toggle, TypeOK, frame
<1>3. CASE Access
  <2>1. PICK request \in Py!Lookups : Ask(request)
    BY <1>3 DEF Access
  <2>2. request.args = <<>>
    BY RequestFacts
  <2>3. QED
    BY <1>3, <2>1, <2>2 DEF Access, Ask, TypeOK
<1>4. CASE Call
  <2>1. PICK request \in Py!Calls : Ask(request)
    BY <1>4 DEF Call
  <2>2. request.args \in Seq(Instances \cup {Other})
    BY RequestFacts
  <2>3. QED
    BY <1>4, <2>1, <2>2 DEF Call, Ask, TypeOK
<1>5. ASSUME NEW o, Descend(o), phase = "get", IsWrapper(at)
      PROVE  TypeOK'
  <2>1. Top(at).wrapper \in Wrappers
    BY <1>5, TopFacts DEF Lookup
  <2>2. waiting' \in Seq(Wrappers)
    BY <1>5, <2>1, AppendProperties DEF Descend, TypeOK
  <2>3. QED
    BY <1>5, <2>2 DEF Descend, TypeOK
<1>6. ASSUME Got, phase = "get", UNCHANGED waiting
      PROVE  TypeOK'
  BY <1>6 DEF Got, TypeOK
<1>7. CASE Bind
  BY <1>5, <1>6, <1>7 DEF Bind
<1>8. CASE Rebind
  BY <1>5, <1>6, <1>8 DEF Rebind, IsBound
<1>9. CASE Descriptor
  BY <1>6, <1>9 DEF Descriptor
<1>10. CASE MakeBound
  <2>1. phase = "got" /\ waiting # <<>>
    BY <1>10 DEF MakeBound
  <2>2. Len(waiting) \in Nat \ {0} /\ waiting \in Seq(Wrappers)
    BY <2>1, WaitingFacts DEF TypeOK
  <2>3. \A i \in 1..Len(waiting) - 1 : waiting[i] \in Wrappers
    BY <2>2, ElementOfSeq
  <2>4. SubSeq(waiting, 1, Len(waiting) - 1) \in Seq(Wrappers)
    BY <2>2, <2>3, SubSeqProperties
  <2>5. QED
    BY <1>10, <2>4 DEF MakeBound, TypeOK
<1>11. CASE Found
  <2>1. at \in Callables
    BY <1>11 DEF Found, Lookup, Consistent
  <2>2. QED
    BY <1>11, <2>1 DEF Found, Idle, TypeOK
<1>12. CASE Skip
  BY <1>12 DEF Skip, Enter, TypeOK
<1>13. CASE CallUnbound
  <2>1. /\ Top(at) \in Layers /\ SelfOf(Wrapped(at)) \in Values \cup {None}
        /\ phase = "call"
    BY <1>13, EnterFacts DEF CallUnbound
  <2>2. Top(at).wrapper \in Wrappers /\ Top(at).instance \in Values \cup {None}
    BY <2>1 DEF Layers, Values
  <2>3. PICK instance \in Values \cup {None} : RunWrapper(instance, args)
    BY <1>13, <2>1, <2>2 DEF CallUnbound
  <2>4. seen' \in Seq(Sights)
    BY <2>2, <2>3, SightType DEF TypeOK
  <2>5. QED
    BY <1>13, <2>4 DEF CallUnbound, Enter, TypeOK
<1>14. CASE CallBound
  <2>1. /\ Top(at) \in Layers /\ SelfOf(Wrapped(at)) \in Values \cup {None}
        /\ phase = "call"
    BY <1>14, EnterFacts DEF CallBound
  <2>2. Top(at).wrapper \in Wrappers /\ Top(at).instance \in Values \cup {None}
    BY <2>1 DEF Layers, Values
  <2>3. CASE PassesInstance(at)
    <3>1. /\ Head(args) \in Values /\ Tail(args) \in Seq(Instances \cup {Other})
          /\ <<Head(args)>> \in Seq(Instances \cup {Other})
      BY <2>3, PassedInstance DEF Values
    <3>2. /\ RunWrapper(Head(args), Tail(args))
          /\ phase' = "partial" /\ partial' = <<Head(args)>> /\ args' = Tail(args)
      BY <1>14, <2>3 DEF CallBound
    <3>3. seen' \in Seq(Sights)
      BY <2>2, <3>1, <3>2, SightType
    <3>4. QED
      BY <1>14, <2>1, <3>1, <3>2, <3>3 DEF CallBound, Enter, TypeOK
  <2>4. CASE ~PassesInstance(at)
    <3>1. PICK instance \in Values \cup {None} : RunWrapper(instance, args)
      BY <1>14, <2>1, <2>2, <2>4 DEF CallBound
    <3>2. seen' \in Seq(Sights)
      BY <2>2, <3>1, SightType DEF TypeOK
    <3>3. QED
      BY <1>14, <2>4, <3>2 DEF CallBound, Enter, TypeOK
  <2>5. QED
    BY <2>3, <2>4
<1>15. CASE CallPartial
  <2>1. partial \o args \in Seq(Instances \cup {Other})
    BY ConcatProperties DEF TypeOK
  <2>2. QED
    BY <1>15, <2>1 DEF CallPartial, TypeOK
<1>16. CASE Body
  BY <1>16 DEF Body, Idle, TypeOK
<1>17. CASE UNCHANGED vars
  BY <1>17 DEF vars, frame, TypeOK
<1>18. QED
  BY <1>1, <1>2, <1>3, <1>4, <1>7, <1>8, <1>9, <1>10, <1>11, <1>12, <1>13, <1>14, <1>15, <1>16,
     <1>17 DEF Next

---------------------------------------------------------------------------
(* Decorating *)

(* What has been made before stays consistent. *)
LEMMA DecorateConsistent ==
  ASSUME TypeOK, NEW w \in Wrappers, Decorate(w), NEW o, Consistent(o)
  PROVE  Consistent(o)'
<1>1. /\ inC' = inC /\ Len(decorators) \in Nat /\ Len(decorators') = Len(decorators) + 1
      /\ \A i \in 1..Len(decorators) : decorators'[i] = decorators[i] /\ decorators[i] # w
  BY NewDecorator DEF Decorate
<1>2. \A i \in 1..Len(decorators) : made'[decorators'[i]] = made[decorators[i]]
  BY <1>1, ElementOfSeq DEF Decorate, TypeOK
<1>3. \A i \in 1..Len(decorators) : Bindable(i) => Bindable(i)'
  BY <1>1, <1>2 DEF Bindable, HasGet
<1>4. o \in Callables /\ Len(o.layers) <= Len(decorators)
  BY DEF Consistent
<1>5. Len(o.layers) \in Nat
  BY <1>4, CallableFacts
<1>6. \A i \in 1..Len(o.layers) : i \in 1..Len(decorators)
  BY <1>1, <1>4, <1>5
<1>7. Len(o.layers) <= Len(decorators')
  BY <1>1, <1>4, <1>5
<1>8. QED
  BY <1>1, <1>2, <1>3, <1>4, <1>6, <1>7 DEF Consistent

(* The function wrapper that a decorator makes is consistent. *)
LEMMA DecorateMakes ==
  ASSUME TypeOK, Parents, Held, NEW w \in Wrappers, Decorate(w)
  PROVE  /\ Consistent(held)' /\ Len(held'.layers) = Len(decorators) + 1
         /\ made'[w] = held' /\ held'.core = held.core
         /\ ~held'.layers[Len(decorators) + 1].bound
         /\ held'.layers[Len(decorators) + 1].binding = CoreBinding(made'[decorators'[1]].core)
<1> DEFINE n == Len(decorators) + 1
<1>1. /\ n \in Nat /\ Len(decorators) = n - 1 /\ Len(decorators') = n /\ decorators'[n] = w
      /\ \A i \in 1..n - 1 : decorators'[i] = decorators[i] /\ decorators[i] # w
  BY NewDecorator DEF Decorate
<1>2. held \in Callables /\ Len(held.layers) = n - 1
  BY <1>1 DEF Held, TypeOK
<1>3. PICK layer \in Layers :
        /\ FunctionWrapper(held, w) = Around(held, layer)
        /\ layer.wrapper = w /\ layer.instance = None /\ ~layer.bound
        /\ layer.binding = BindingOf(held) /\ layer.self = SelfOf(held)
  BY <1>2, FunctionWrapperFacts
<1> PICK o : o = held'
  OBVIOUS
<1>4. /\ o \in Callables /\ o.core = held.core /\ Len(o.layers) = n /\ o.layers[n] = layer
      /\ \A i \in 1..n - 1 : o.layers[i] = held.layers[i]
  <2>1. o = Around(held, layer)
    BY <1>3 DEF Decorate
  <2>2. QED
    BY <2>1, <1>1, <1>2, AroundFacts
<1>5. made'[w] = o
  BY DEF Decorate, TypeOK
<1>6. layer.binding = CoreBinding(made'[decorators'[1]].core)
  <2>1. CASE n = 1
    <3>1. ~IsWrapper(held)
      BY <2>1, <1>2, CallableFacts
    <3>2. QED
      BY <2>1, <3>1, <1>1, <1>2, <1>3, <1>4, <1>5, OutsideFacts
  <2>2. CASE n # 1
    <3>1. n - 1 \in 1..Len(decorators) /\ 1 \in 1..Len(decorators) /\ n - 1 \in 1..Len(held.layers)
      BY <2>2, <1>1, <1>2
    <3>2. IsWrapper(held)
      BY <3>1, <1>2, CallableFacts
    <3>3. layer.binding = held.layers[n - 1].binding
      BY <3>2, <1>2, <1>3, OutsideFacts
    <3>4. held.layers[n - 1].binding = made[decorators[n - 1]].layers[n - 1].binding
      BY <3>1 DEF Held, Consistent
    <3>5. made[decorators[n - 1]].layers[n - 1].binding = CoreBinding(made[decorators[1]].core)
      BY <3>1 DEF Parents
    <3>6. made'[decorators'[1]] = made[decorators[1]]
      BY <3>1, <1>1, ElementOfSeq DEF Decorate, TypeOK
    <3>7. QED
      BY <3>3, <3>4, <3>5, <3>6
  <2>3. QED
    BY <2>1, <2>2
<1>7. inC => Fits(o.core, layer.binding)
  <2>1. CASE n = 1
    <3>1. ~IsWrapper(held) /\ held.core \in Cores
      BY <2>1, <1>2, CallableFacts
    <3>2. QED
      BY <3>1, <1>2, <1>3, <1>4, OutsideFacts, BindingFacts
  <2>2. CASE n # 1
    <3>1. n - 1 \in 1..Len(held.layers)
      BY <2>2, <1>1, <1>2
    <3>2. IsWrapper(held)
      BY <3>1, <1>2, CallableFacts
    <3>3. layer.binding = held.layers[n - 1].binding
      BY <3>2, <1>2, <1>3, OutsideFacts
    <3>4. QED
      BY <3>1, <3>3, <1>4 DEF Held, Consistent
  <2>3. QED
    BY <2>1, <2>2
<1>8. ASSUME NEW i \in 1..n - 1
      PROVE  LET l == o.layers[i]
                 parent == made'[decorators'[i]]
             IN /\ l.wrapper = decorators'[i]
                /\ l.binding = parent.layers[i].binding
                /\ ~l.bound => /\ l.instance = None
                               /\ parent.core = o.core
                               /\ \A j \in 1..i : parent.layers[j] = o.layers[j]
                /\ l.bound => Bindable(i)'
                /\ l.bound /\ inC' /\ Rebindable(l) => parent.core = o.core
                /\ l.bound /\ inC' /\ ~Rebindable(l) => Settled(o.core)
                /\ inC' => Fits(o.core, l.binding)
  <2>1. /\ i \in 1..Len(held.layers) /\ o.layers[i] = held.layers[i]
        /\ \A j \in 1..i : o.layers[j] = held.layers[j]
    BY <1>1, <1>2, <1>4
  <2> PICK h : h = held
    OBVIOUS
  <2>2. Consistent(h)'
    BY <1>1, DecorateConsistent DEF Held
  <2>3. QED
    BY <2>1, <2>2, <1>4 DEF Consistent
<1>9. LET parent == made'[decorators'[n]]
      IN /\ layer.wrapper = decorators'[n]
         /\ layer.binding = parent.layers[n].binding
         /\ ~layer.bound /\ layer.instance = None
         /\ parent.core = o.core
         /\ \A j \in 1..n : parent.layers[j] = o.layers[j]
         /\ inC' => Fits(o.core, layer.binding)
  <2>1. inC' = inC
    BY DEF Decorate
  <2>2. QED
    BY <2>1, <1>1, <1>3, <1>4, <1>5, <1>7
<1>10. \A i \in 1..Len(o.layers) : i \in 1..n - 1 \/ i = n
  BY <1>1, <1>4
<1>11. Consistent(o)'
  BY <1>1, <1>3, <1>4, <1>8, <1>9, <1>10 DEF Consistent
<1>12. QED
  BY <1>3, <1>4, <1>5, <1>6, <1>11

LEMMA ParentsStep ==
  ASSUME TypeOK, Parents, Held, Lookup, [Next]_vars
  PROVE  Parents'
<1>1. ASSUME NEW w \in Wrappers, Decorate(w)
      PROVE  Parents'
  <2> DEFINE n == Len(decorators) + 1
  <2>1. /\ n \in Nat /\ Len(decorators) = n - 1 /\ Len(decorators') = n /\ decorators'[n] = w
        /\ \A i \in 1..n - 1 : decorators'[i] = decorators[i] /\ decorators[i] # w
    BY <1>1, NewDecorator DEF Decorate
  <2>2. \A i \in 1..n - 1 : made'[decorators'[i]] = made[decorators[i]]
    BY <1>1, <2>1, ElementOfSeq DEF Decorate, TypeOK
  <2>3. ASSUME NEW i \in 1..n - 1
        PROVE  \E p : /\ p = made'[decorators'[i]] /\ Consistent(p)'
                      /\ Len(p.layers) = i /\ ~p.layers[i].bound
                      /\ p.layers[i].binding = CoreBinding(made'[decorators'[1]].core)
    <3> PICK p : p = made[decorators[i]]
      OBVIOUS
    <3>1. /\ Consistent(p) /\ Len(p.layers) = i /\ ~p.layers[i].bound
          /\ p.layers[i].binding = CoreBinding(made[decorators[1]].core)
      BY <2>1 DEF Parents
    <3>2. Consistent(p)'
      BY <1>1, <3>1, DecorateConsistent
    <3>3. made'[decorators'[1]] = made[decorators[1]] /\ made'[decorators'[i]] = p
      BY <2>1, <2>2
    <3>4. QED
      BY <3>1, <3>2, <3>3
  <2>4. \E p : /\ p = made'[decorators'[n]] /\ Consistent(p)'
               /\ Len(p.layers) = n /\ ~p.layers[n].bound
               /\ p.layers[n].binding = CoreBinding(made'[decorators'[1]].core)
    <3> PICK p : p = held'
      OBVIOUS
    <3>1. QED
      BY <1>1, <2>1, DecorateMakes
  <2>5. \A i \in 1..n : i \in 1..n - 1 \/ i = n
    BY <2>1
  <2>6. QED
    BY <2>1, <2>3, <2>4, <2>5 DEF Parents
<1>2. CASE UNCHANGED <<inC, made, decorators>>
  <2>1. ASSUME NEW i \in 1..Len(decorators)
        PROVE  \E p : /\ p = made'[decorators'[i]] /\ Consistent(p)'
                      /\ Len(p.layers) = i /\ ~p.layers[i].bound
                      /\ p.layers[i].binding = CoreBinding(made'[decorators'[1]].core)
    <3> PICK p : p = made[decorators[i]]
      OBVIOUS
    <3>1. /\ Consistent(p) /\ Len(p.layers) = i /\ ~p.layers[i].bound
          /\ p.layers[i].binding = CoreBinding(made[decorators[1]].core)
      BY DEF Parents
    <3>2. Consistent(p)'
      BY <1>2, <3>1, ConsistentFrame
    <3>3. QED
      BY <1>2, <3>1, <3>2
  <2>2. QED
    BY <1>2, <2>1 DEF Parents
<1>3. QED
  BY <1>1, <1>2 DEF Next, vars, frame, Decorate, Toggle, Access, Ask, Bind, Rebind, Descend, Got,
     Descriptor, MakeBound, Found, Call, Skip, Enter, CallUnbound, CallBound, CallPartial, Body

LEMMA HeldStep ==
  ASSUME TypeOK, Parents, Held, Lookup, [Next]_vars
  PROVE  Held'
<1>1. ASSUME NEW w \in Wrappers, Decorate(w)
      PROVE  Held'
  BY <1>1, DecorateMakes, NewDecorator DEF Decorate, Held
<1>2. CASE Found
  <2> PICK o : o = at
    OBVIOUS
  <2>1. UNCHANGED <<inC, made, decorators>> /\ held' = o
    BY <1>2 DEF Found
  <2>2. Consistent(o) /\ Len(o.layers) = Len(decorators)
    BY <1>2, CallableFacts DEF Found, Lookup, Consistent
  <2>3. Consistent(o)'
    BY <2>1, <2>2, ConsistentFrame
  <2>4. QED
    BY <2>1, <2>2, <2>3 DEF Held
<1>3. CASE UNCHANGED <<inC, held, made, decorators>>
  <2> PICK o : o = held
    OBVIOUS
  <2>1. Consistent(o)'
    BY <1>3, ConsistentFrame DEF Held
  <2>2. QED
    BY <1>3, <2>1 DEF Held
<1>4. QED
  BY <1>1, <1>2, <1>3 DEF Next, vars, frame, Decorate, Toggle, Access, Ask, Bind, Rebind, Descend,
     Got, Descriptor, MakeBound, Call, Skip, Enter, CallUnbound, CallBound, CallPartial, Body

---------------------------------------------------------------------------
(* Lookups *)

(* What a lookup makes of a core suits the binding that the core has. *)
LEMMA BindFits ==
  ASSUME NEW c \in Cores, NEW instance \in Instances \cup {None}, NEW owner \in Classes
  PROVE  Fits(Py!PyBind(c, instance, owner), CoreBinding(c))
<1>1. \A v : Py!Method(c, v).kind = "method" /\ Py!Method(Py!Raw("function"), v).kind = "method"
  BY DEF Py!Method
<1>2. Py!Raw("static").kind = "static"
  BY DEF Py!Raw
<1> HIDE DEF Py!PyBind, Py!Method
<1>3. QED
  BY <1>1, <1>2, BindFacts, BindingFacts, CoreFacts DEF Fits

(* A lookup settles a core, but for the ones that classes leave alone. *)
LEMMA BindSettles ==
  ASSUME NEW c \in Cores, NEW instance \in Instances \cup {None}, NEW owner \in Classes,
         NEW binding \in Bindings, Fits(c, binding)
  PROVE  IF instance = None /\ binding \in {"function", "instancemethod", "callable"}
         THEN Py!PyBind(c, instance, owner) = c
         ELSE Settled(Py!PyBind(c, instance, owner))
<1>1. \A v : Py!Method(c, v).kind = "method" /\ Py!Method(Py!Raw("function"), v).kind = "method"
  BY DEF Py!Method
<1>2. Py!Raw("static").kind = "static"
  BY DEF Py!Raw
<1>3. QED
  BY <1>1, <1>2, BindFacts, CoreFacts DEF Fits, Settled, Bindings

LEMMA LookupFrame ==
  ASSUME Lookup, UNCHANGED <<inC, held, made, decorators, frame, effect>>
  PROVE  Lookup'
<1> PICK o : o = at
  OBVIOUS
<1>1. UNCHANGED <<inC, held, made, decorators, asked, phase, at, waiting, effect>>
  BY DEF frame
<1>2. \A i : Bindable(i) <=> Bindable(i)'
  BY <1>1 DEF Bindable, HasGet
<1>3. Consistent(o) => Consistent(o)'
  BY <1>1, ConsistentFrame
<1>4. HasGet(at) <=> HasGet(at)'
  BY <1>1 DEF HasGet
<1>5. QED
  BY <1>1, <1>2, <1>3, <1>4 DEF Lookup

LEMMA GotStep ==
  ASSUME TypeOK, Lookup, phase = "get", Got, UNCHANGED <<at, waiting>>,
         inC => Settled(at.core)
  PROVE  Lookup'
<1> PICK o : o = at
  OBVIOUS
<1>1. UNCHANGED <<inC, held, made, decorators, asked, at, waiting, effect>> /\ phase' = "got"
  BY DEF Got
<1>2. \A i : Bindable(i) <=> Bindable(i)'
  BY <1>1 DEF Bindable, HasGet
<1>3. Consistent(o)'
  BY <1>1, ConsistentFrame DEF Lookup
<1>4. inC => \/ at.core = Py!PyBind(held.core, asked.instance, asked.owner)
             \/ held.core.kind = "static" /\ at.core = held.core
  <2>1. asked.instance \in Instances \cup {None} /\ asked.owner \in Classes
    BY RequestFacts DEF TypeOK
  <2>2. at.core \in Cores /\ (inC => at.core = held.core)
    BY CallableFacts DEF Lookup, Consistent
  <2>3. QED
    BY <2>1, <2>2, BindFacts DEF Settled
<1>5. QED
  BY <1>1, <1>2, <1>3, <1>4 DEF Lookup

(* A wrapper goes from the callable that a lookup is at to the ones that wait. *)
LEMMA HeightAndWait ==
  ASSUME NEW x, NEW y, NEW u, NEW v, NEW n, Len(x) \in Nat, Len(y) \in Nat, Len(x) + Len(y) = n,
         Len(u) = Len(x) - 1, Len(v) = Len(y) + 1
  PROVE  Len(u) + Len(v) = n
OBVIOUS

LEMMA DescendStep ==
  ASSUME TypeOK, Parents, Lookup, phase = "get", IsWrapper(at), NEW o, Descend(o), Consistent(o),
         NEW n \in Nat, n = Len(at.layers), Len(o.layers) = n - 1, Bindable(n), HasGet(o),
         inC => made[decorators[n]].core = held.core /\ o.core = held.core
  PROVE  Lookup'
<1>1. /\ UNCHANGED <<inC, held, made, decorators, asked, phase, effect>> /\ at' = o
      /\ waiting' = Append(waiting, Top(at).wrapper)
  BY DEF Descend
<1>2. /\ n \in 1..Len(decorators) /\ Top(at).wrapper = decorators[n]
      /\ Top(at).wrapper \in Wrappers /\ Len(decorators) \in Nat
  <2>1. Consistent(at)
    BY DEF Lookup
  <2>2. Len(decorators) \in Nat
    BY DEF TypeOK
  <2>3. QED
    BY <2>1, <2>2, TopFacts
<1>3. waiting \in Seq(Wrappers) /\ Len(waiting) \in Nat /\ n + Len(waiting) = Len(decorators)
  BY DEF TypeOK, Lookup
<1>4. /\ Len(waiting') = Len(waiting) + 1
      /\ \A j \in 1..Len(waiting) : waiting'[j] = waiting[j]
      /\ waiting'[Len(waiting) + 1] = decorators[n]
  BY <1>1, <1>2, <1>3, AppendProperties
<1>5. \A i : Bindable(i) <=> Bindable(i)'
  BY <1>1 DEF Bindable, HasGet
<1>6. \A j \in 1..Len(waiting') : LET i == Len(decorators) + 1 - j IN
        /\ waiting'[j] = decorators[i]
        /\ Bindable(i)
        /\ inC => made[decorators[i]].core = held.core
  <2> TAKE j \in 1..Len(waiting')
  <2>1. CASE j \in 1..Len(waiting)
    BY <2>1, <1>4 DEF Lookup
  <2>2. CASE j = Len(waiting) + 1
    <3>1. Len(decorators) + 1 - j = n
      BY <2>2, <1>2, <1>3
    <3>2. QED
      BY <2>2, <3>1, <1>4
  <2>3. QED
    BY <2>1, <2>2, <1>3, <1>4
<1>7. Consistent(o)'
  BY <1>1, ConsistentFrame
<1>8. HasGet(at)'
  BY <1>1 DEF HasGet
<1>9. Len(at'.layers) + Len(waiting') = Len(decorators)
  <2>1. Len(at.layers) \in Nat /\ Len(waiting) \in Nat
    BY <1>2, <1>3
  <2>2. Len(at.layers) + Len(waiting) = Len(decorators)
    BY <1>3
  <2>3. Len(at'.layers) = Len(at.layers) - 1 /\ Len(waiting') = Len(waiting) + 1
    BY <1>1, <1>4
  <2>4. QED
    BY <2>1, <2>2, <2>3, HeightAndWait
<1>10. effect = None
  BY DEF Lookup
<1>11. QED
  BY <1>1, <1>5, <1>6, <1>7, <1>8, <1>9, <1>10 DEF Lookup

LEMMA BindStep ==
  ASSUME TypeOK, Parents, Held, Lookup, Bind
  PROVE  Lookup'
<1> DEFINE n == Len(at.layers)
<1>1. phase = "get" /\ IsWrapper(at) /\ ~IsBound(at) /\ Consistent(at) /\ at \in Callables
  BY DEF Bind, Lookup, Consistent
<1>2. /\ n \in 1..Len(decorators) /\ Top(at) = at.layers[n] /\ Top(at) \in Layers
      /\ Len(decorators) \in Nat
  <2>1. Len(decorators) \in Nat
    BY DEF TypeOK
  <2>2. QED
    BY <1>1, <2>1, TopFacts
<1>3. n \in 1..Len(at.layers) /\ n \in Nat
  BY <1>2
<1>4. /\ ~at.layers[n].bound /\ made[decorators[n]].core = at.core
      /\ at.layers[n].binding = made[decorators[n]].layers[n].binding
      /\ inC => Fits(at.core, at.layers[n].binding)
  BY <1>1, <1>2, <1>3 DEF Consistent, IsBound
<1>5. inC => at.core = held.core
  BY <1>1 DEF Lookup
<1>6. at.core \in Cores
  BY <1>1, CallableFacts
<1> PICK o : o = Wrapped(at)
  OBVIOUS
<1>7. o \in Callables /\ o.core = at.core /\ Len(o.layers) = n - 1
  BY <1>1, WrappedFacts
<1>8. CASE Top(at).binding \in {"builtin", "class"} \/ ~HasGet(Wrapped(at))
  <2>1. Got /\ UNCHANGED <<at, waiting>>
    BY <1>8 DEF Bind
  <2>2. ASSUME inC
        PROVE  Settled(at.core)
    <3>1. CASE Top(at).binding \in {"builtin", "class"}
      BY <2>2, <3>1, <1>2, <1>4 DEF Fits, Settled
    <3>2. CASE ~HasGet(o)
      <4>1. at.core.kind \notin {"function", "static", "descriptor", "classmethod", "staticmethod"}
        BY <3>2, <1>7 DEF HasGet
      <4>2. QED
        BY <4>1, <1>6, CoreFacts DEF Settled
    <3>3. QED
      BY <1>8, <3>1, <3>2
  <2>3. QED
    BY <1>1, <2>1, <2>2, GotStep
<1>9. CASE ~(Top(at).binding \in {"builtin", "class"} \/ ~HasGet(Wrapped(at)))
  <2>1. Descend(o) /\ HasGet(o)
    BY <1>9 DEF Bind
  <2>2. Consistent(o)
    BY <1>1, <1>2, InsideConsistent
  <2>3. Bindable(n)
    <3>1. made[decorators[n]].layers[n].binding \notin {"builtin", "class"}
      BY <1>9, <1>2, <1>4
    <3>2. n > 1 \/ ~IsWrapper(o)
      BY <1>2, <1>7, CallableFacts
    <3>3. ~IsWrapper(o) => HasGet([layers |-> <<>>, core |-> made[decorators[n]].core])
      BY <2>1, <1>4, <1>7 DEF HasGet, IsWrapper
    <3>4. QED
      BY <3>1, <3>2, <3>3 DEF Bindable
  <2>4. QED
    <3> HIDE DEF n
    <3>1. QED
      BY <1>1, <1>3, <1>4, <1>5, <1>7, <2>1, <2>2, <2>3, DescendStep DEF n
<1>10. QED
  BY <1>8, <1>9

LEMMA RebindStep ==
  ASSUME TypeOK, Parents, Held, Lookup, Rebind
  PROVE  Lookup'
<1> DEFINE n == Len(at.layers)
<1>1. phase = "get" /\ IsWrapper(at) /\ Top(at).bound /\ Consistent(at) /\ at \in Callables
  BY DEF Rebind, IsBound, Lookup, Consistent
<1>2. /\ n \in 1..Len(decorators) /\ Top(at) = at.layers[n] /\ Top(at) \in Layers
      /\ Parent(at) = made[decorators[n]]
  BY <1>1, TopFacts
<1>3. n \in 1..Len(at.layers) /\ n \in Nat
  BY <1>2
<1>4. /\ Bindable(n)
      /\ inC /\ Rebindable(Top(at)) => made[decorators[n]].core = at.core
      /\ inC /\ ~Rebindable(Top(at)) => Settled(at.core)
  BY <1>1, <1>2, <1>3 DEF Consistent
<1>5. inC => at.core = held.core
  BY <1>1 DEF Lookup
<1>6. FoundThroughClass(at) <=> Rebindable(Top(at))
  BY DEF FoundThroughClass, Rebindable
<1>7. CASE ~FoundThroughClass(at)
  <2>1. Got /\ UNCHANGED <<at, waiting>>
    BY <1>7 DEF Rebind
  <2>2. QED
    BY <1>1, <1>4, <1>6, <1>7, <2>1, GotStep
<1>8. CASE FoundThroughClass(at)
  <2> PICK parent : parent = made[decorators[n]]
    OBVIOUS
  <2> PICK o : o = Wrapped(parent)
    OBVIOUS
  <2>1. Descend(o)
    BY <1>2, <1>8 DEF Rebind
  <2>2. Consistent(parent) /\ Len(parent.layers) = n /\ parent \in Callables
    BY <1>2 DEF Parents, Consistent
  <2>3. IsWrapper(parent)
    BY <1>2, <2>2, CallableFacts
  <2>4. Consistent(o)
    BY <2>2, <2>3, InsideConsistent DEF TypeOK
  <2>5. o \in Callables /\ o.core = parent.core /\ Len(o.layers) = n - 1
    BY <2>2, <2>3, WrappedFacts
  <2>6. HasGet(o)
    <3>1. CASE n > 1
      BY <3>1, <1>2, <2>5, CallableFacts DEF HasGet
    <3>2. CASE ~(n > 1)
      BY <3>2, <1>4, <2>5 DEF Bindable, HasGet, IsWrapper
    <3>3. QED
      BY <3>1, <3>2
  <2>7. inC => made[decorators[n]].core = held.core /\ o.core = held.core
    BY <1>4, <1>5, <1>6, <1>8, <2>5
  <2>8. QED
    <3> HIDE DEF n
    <3>1. QED
      BY <1>1, <1>3, <1>4, <2>1, <2>4, <2>5, <2>6, <2>7, DescendStep DEF n
<1>9. QED
  BY <1>7, <1>8

LEMMA DescriptorStep ==
  ASSUME TypeOK, Parents, Held, Lookup, Descriptor
  PROVE  Lookup'
<1> DEFINE c == IF waiting # <<>> /\ at.core.kind = "method" THEN at.core.wrapped ELSE at.core
<1>1. /\ phase = "get" /\ ~IsWrapper(at) /\ at \in Callables /\ at.core \in Cores
      /\ UNCHANGED <<inC, held, made, decorators, asked, waiting, effect>> /\ phase' = "got"
  BY CallableFacts DEF Descriptor, Got, Lookup, Consistent
<1>2. asked.instance \in Instances \cup {None} /\ asked.owner \in Classes
  BY <1>1, RequestFacts DEF TypeOK
<1>3. c \in Cores
  BY <1>1, CoreFacts, RawFacts
<1> PICK o : o = at'
  OBVIOUS
<1>4. /\ o.layers = <<>> /\ o.layers = at.layers
      /\ o.core = Py!PyBind(c, asked.instance, asked.owner) /\ o \in Callables
  <2>1. at.layers = <<>>
    BY <1>1 DEF IsWrapper
  <2>2. at \in [layers : Seq(Layers), core : Cores]
    BY <1>1 DEF Callables
  <2>3. o = [at EXCEPT !.core = Py!PyBind(c, asked.instance, asked.owner)]
    BY DEF Descriptor
  <2>4. Py!PyBind(c, asked.instance, asked.owner) \in Cores
    BY <1>2, <1>3, BindFacts
  <2>5. QED
    BY <2>1, <2>2, <2>3, <2>4 DEF Callables
<1>5. Consistent(o)'
  <2>1. Len(o.layers) = 0 /\ 0 <= Len(decorators)
    BY <1>4 DEF TypeOK
  <2>2. \A i : i \notin 1..0
    OBVIOUS
  <2>3. QED
    BY <1>1, <1>4, <2>1, <2>2 DEF Consistent
<1>6. inC => o.core = Py!PyBind(held.core, asked.instance, asked.owner)
  <2>1. ASSUME inC
        PROVE  c = held.core
    <3>1. at.core = held.core /\ (waiting # <<>> => at.core.kind # "method")
      BY <1>1, <2>1 DEF Lookup, HasGet
    <3>2. QED
      BY <3>1
  <2>2. QED
    BY <1>4, <2>1
<1>7. \A i : Bindable(i) <=> Bindable(i)'
  BY <1>1 DEF Bindable, HasGet
<1>8. /\ Len(o.layers) + Len(waiting) = Len(decorators)
      /\ \A j \in 1..Len(waiting) : LET i == Len(decorators) + 1 - j IN
           /\ waiting[j] = decorators[i]
           /\ Bindable(i)
           /\ inC => made[decorators[i]].core = held.core
      /\ effect = None
  BY <1>1, <1>4 DEF Lookup
<1>9. QED
  BY <1>1, <1>5, <1>6, <1>7, <1>8 DEF Lookup

LEMMA MakeBoundStep ==
  ASSUME TypeOK, Parents, Held, Lookup, MakeBound
  PROVE  Lookup'
<1> DEFINE n == Len(at.layers) + 1
           w == decorators[n]
<1>1. /\ phase = "got" /\ waiting # <<>> /\ phase' = "got"
      /\ UNCHANGED <<inC, held, made, decorators, asked, effect>>
      /\ at' = BoundFunctionWrapper(at, waiting[Len(waiting)], asked.instance, asked.owner)
      /\ waiting' = SubSeq(waiting, 1, Len(waiting) - 1)
  BY DEF MakeBound
<1>2. /\ n \in 1..Len(decorators) /\ n = Len(decorators) + 1 - Len(waiting)
      /\ waiting[Len(waiting)] = w /\ w \in Wrappers /\ Bindable(n)
      /\ inC => made[w].core = held.core
      /\ Consistent(made[w]) /\ Len(made[w].layers) = n
      /\ Len(at.layers) \in Nat /\ Len(waiting) \in Nat \ {0} /\ n \in Nat
  <2>1. phase \in {"get", "got"} /\ waiting # <<>>
    BY <1>1
  <2>2. QED
    BY <2>1, WaitingFacts
<1>3. /\ asked.instance \in Instances \cup {None} /\ asked.owner \in Classes
      /\ Consistent(at) /\ at \in Callables /\ at.core \in Cores
      /\ held \in Callables /\ held.core \in Cores /\ Len(decorators) \in Nat
  <2>1. at \in Callables /\ Consistent(at) /\ held \in Callables /\ Len(decorators) \in Nat
    BY <1>1 DEF Lookup, Consistent, TypeOK
  <2>2. asked.instance \in Instances \cup {None} /\ asked.owner \in Classes
    BY <1>1, RequestFacts DEF TypeOK
  <2>3. QED
    BY <2>1, <2>2, CallableFacts
<1>4. made[w] \in Callables /\ IsWrapper(made[w])
  BY <1>2, CallableFacts DEF Consistent
<1>5. PICK layer \in Layers :
        /\ BoundFunctionWrapper(at, w, asked.instance, asked.owner) = Around(at, layer)
        /\ layer.wrapper = w /\ layer.instance = asked.instance /\ layer.bound
        /\ layer.owner = asked.owner
        /\ layer.binding = made[w].layers[Len(made[w].layers)].binding
  <2> HIDE DEF n, w
  <2>1. /\ w \in Wrappers /\ made[w] \in Callables /\ IsWrapper(made[w]) /\ at \in Callables
        /\ asked.instance \in Instances \cup {None} /\ asked.owner \in Classes
    BY <1>2, <1>3, <1>4
  <2>2. QED
    BY <2>1, BoundFunctionWrapperFacts
<1>6. layer.binding = made[w].layers[n].binding /\ layer.binding \in Bindings
  BY <1>2, <1>5 DEF Layers
<1>7. inC => \/ at.core = Py!PyBind(held.core, asked.instance, asked.owner)
             \/ held.core.kind = "static" /\ at.core = held.core
  BY <1>1 DEF Lookup
<1>8. inC => Fits(held.core, layer.binding)
  <2>1. n \in 1..Len(held.layers)
    BY <1>2 DEF Held
  <2>2. QED
    BY <1>6, <2>1 DEF Held, Consistent
<1>9. inC => Fits(at.core, layer.binding)
  <2>1. layer.binding = CoreBinding(made[decorators[1]].core)
    BY <1>2, <1>6 DEF Parents
  <2>2. CASE n = 1
    <3>1. inC => layer.binding = CoreBinding(held.core)
      BY <1>2, <2>1, <2>2
    <3>2. QED
      BY <3>1, <1>3, <1>7, BindFits, BindingFacts
  <2>3. CASE n # 1
    <3>1. 1 \in 1..Len(at.layers) /\ 1 \in 1..Len(decorators)
      BY <2>3, <1>2, <1>3
    <3>2. at.layers[1].binding = made[decorators[1]].layers[1].binding
      BY <3>1, <1>3 DEF Consistent
    <3>3. made[decorators[1]].layers[1].binding = CoreBinding(made[decorators[1]].core)
      BY <3>1 DEF Parents
    <3>4. QED
      BY <3>1, <3>2, <3>3, <2>1, <1>3 DEF Consistent
  <2>4. QED
    BY <2>2, <2>3
<1>10. inC /\ Rebindable(layer) => made[w].core = at.core
  BY <1>2, <1>3, <1>5, <1>6, <1>7, <1>8, BindSettles DEF Rebindable
<1>11. inC /\ ~Rebindable(layer) => Settled(at.core)
  <2>1. held.core.kind = "static" => Settled(held.core)
    BY DEF Settled
  <2>2. QED
    BY <2>1, <1>3, <1>5, <1>6, <1>7, <1>8, BindSettles DEF Rebindable
<1> PICK o : o = at'
  OBVIOUS
<1>12. o = Around(at, layer)
  BY <1>1, <1>2, <1>5
<1>13. o.core = at.core /\ Len(o.layers) = n
  BY <1>3, <1>5, <1>12, AroundFacts
<1>14. Consistent(o)
  <2> HIDE DEF n, w
  <2>1. n = Len(at.layers) + 1 /\ w = decorators[n] /\ n <= Len(decorators)
    BY <1>2 DEF n, w
  <2>2. QED
    BY <1>2, <1>3, <1>5, <1>6, <1>9, <1>10, <1>11, <1>12, <2>1, AroundConsistent
<1>15. Consistent(o)'
  BY <1>1, <1>14, ConsistentFrame
<1>16. /\ Len(waiting') = Len(waiting) - 1
       /\ \A j \in 1..Len(waiting') : j \in 1..Len(waiting) /\ waiting'[j] = waiting[j]
  <2> DEFINE k == Len(waiting) - 1
  <2>1. k \in Nat /\ Len(waiting) = k + 1 /\ waiting \in Seq(Wrappers)
    BY <1>2 DEF TypeOK
  <2>2. \A j \in 1..k : waiting[j] \in Wrappers
    BY <2>1, ElementOfSeq
  <2> HIDE DEF k
  <2>3. /\ Len(SubSeq(waiting, 1, k)) = k
        /\ \A j \in 1..k : SubSeq(waiting, 1, k)[j] = waiting[j]
    BY <2>1, <2>2, SubSeqProperties
  <2>4. waiting' = SubSeq(waiting, 1, k)
    BY <1>1 DEF k
  <2>5. QED
    BY <2>1, <2>3, <2>4
<1>17. \A i : Bindable(i) <=> Bindable(i)'
  BY <1>1 DEF Bindable, HasGet
<1>18. Len(o.layers) + Len(waiting') = Len(decorators)
  <2>1. Len(o.layers) = Len(at.layers) + 1 /\ Len(waiting') = Len(waiting) - 1
    BY <1>13, <1>16
  <2>2. Len(at.layers) \in Nat /\ Len(waiting) \in Nat
    BY <1>2
  <2>3. Len(waiting) + Len(at.layers) = Len(decorators)
    <3>1. Len(at.layers) + Len(waiting) = Len(decorators)
      BY <1>1 DEF Lookup
    <3>2. QED
      BY <2>2, <3>1
  <2>4. Len(waiting') + Len(o.layers) = Len(decorators)
    BY <2>1, <2>2, <2>3, HeightAndWait
  <2>5. Len(waiting') \in Int /\ Len(o.layers) \in Int
    BY <2>1, <2>2
  <2>6. QED
    BY <2>4, <2>5
<1>19. /\ \A j \in 1..Len(waiting) : LET i == Len(decorators) + 1 - j IN
            /\ waiting[j] = decorators[i]
            /\ Bindable(i)
            /\ inC => made[decorators[i]].core = held.core
       /\ effect = None
  BY <1>1 DEF Lookup
<1>20. QED
  BY <1>1, <1>7, <1>13, <1>15, <1>16, <1>17, <1>18, <1>19 DEF Lookup

LEMMA LookupStep ==
  ASSUME TypeOK, Parents, Held, Lookup, [Next]_vars
  PROVE  Lookup'
<1>1. CASE UNCHANGED <<inC, held, made, decorators, frame, effect>>
  BY <1>1, LookupFrame
<1>2. CASE phase' \notin {"get", "got"}
  BY <1>2 DEF Lookup
<1>3. CASE Access
  <2> PICK o : o = held
    OBVIOUS
  <2>1. /\ UNCHANGED <<inC, held, made, decorators, waiting>> /\ at' = o /\ phase' = "get"
        /\ phase = "idle" /\ effect' = None
    BY <1>3 DEF Access, Ask
  <2>2. Consistent(o) /\ Len(o.layers) = Len(decorators)
    BY DEF Held
  <2>3. Consistent(o)'
    BY <2>1, <2>2, ConsistentFrame
  <2>4. waiting = <<>> /\ Len(waiting) = 0 /\ Len(decorators) \in Nat
    BY <2>1 DEF TypeOK
  <2>5. QED
    BY <2>1, <2>2, <2>3, <2>4 DEF Lookup
<1>4. QED
  BY <1>1, <1>2, <1>3, BindStep, RebindStep, DescriptorStep, MakeBoundStep
     DEF Next, vars, frame, Decorate, Toggle, Found, Idle, Call, Skip, Enter, CallUnbound, CallBound,
     CallPartial, Body

---------------------------------------------------------------------------
(* Calls *)

LEMMA CallingStep ==
  ASSUME TypeOK, Parents, Held, Calling, [Next]_vars
  PROVE  Calling'
<1>1. CASE UNCHANGED <<held, frame, effect>>
  BY <1>1 DEF Calling, frame
<1>2. CASE phase' \notin {"call", "partial"}
  BY <1>2 DEF Calling
<1>3. CASE Call
  <2>1. /\ phase' = "call" /\ at' = held /\ held' = held /\ effect' = None
        /\ args' = asked'.args
    BY <1>3 DEF Call, Ask
  <2>2. held \in Callables /\ Len(held.layers) \in Nat
    BY CallableFacts DEF TypeOK
  <2>3. QED
    BY <2>1, <2>2 DEF Calling
<1>4. ASSUME NEW on, Enter(on)
      PROVE  /\ at' \in Callables /\ held' = held /\ at'.core = held.core /\ effect' = None
             /\ Len(at'.layers) <= Len(held.layers)
             /\ \A i \in 1..Len(at'.layers) : at'.layers[i] = held.layers[i]
             /\ asked' = asked /\ args = asked.args /\ phase = "call"
  <2>1. /\ phase = "call" /\ IsWrapper(at) /\ at' = Wrapped(at)
        /\ UNCHANGED <<held, effect, asked>>
    BY <1>4 DEF Enter
  <2>2. /\ at \in Callables /\ at.core = held.core /\ effect = None /\ args = asked.args
        /\ Len(at.layers) <= Len(held.layers)
        /\ \A i \in 1..Len(at.layers) : at.layers[i] = held.layers[i]
    BY <2>1 DEF Calling
  <2>3. Len(at.layers) \in Nat /\ Len(held.layers) \in Nat
    BY <2>2, CallableFacts DEF TypeOK
  <2> PICK o : o = Wrapped(at)
    OBVIOUS
  <2>4. /\ o \in Callables /\ o.core = at.core /\ Len(o.layers) = Len(at.layers) - 1
        /\ \A i \in 1..Len(at.layers) - 1 : o.layers[i] = at.layers[i]
    BY <2>1, <2>2, WrappedFacts
  <2>5. Len(o.layers) <= Len(held.layers)
    BY <2>2, <2>3, <2>4
  <2>6. \A i \in 1..Len(o.layers) : o.layers[i] = held.layers[i]
    <3> TAKE i \in 1..Len(o.layers)
    <3>1. i \in 1..Len(at.layers) - 1 /\ i \in 1..Len(at.layers)
      BY <2>3, <2>4
    <3>2. QED
      BY <3>1, <2>2, <2>4
  <2>7. QED
    BY <2>1, <2>2, <2>4, <2>5, <2>6
<1>5. CASE Skip
  BY <1>4, <1>5 DEF Skip, Calling
<1>6. CASE CallUnbound
  BY <1>4, <1>6 DEF CallUnbound, Calling
<1>7. CASE CallBound
  <2>1. CASE PassesInstance(at)
    <3>1. phase' = "partial" /\ partial' = <<Head(args)>> /\ args' = Tail(args)
      BY <1>7, <2>1 DEF CallBound
    <3>2. partial' \o args' = args
      BY <3>1, <2>1, PassedInstance
    <3>3. QED
      BY <1>4, <1>7, <3>1, <3>2 DEF CallBound, Calling
  <2>2. CASE ~PassesInstance(at)
    BY <1>4, <1>7, <2>2 DEF CallBound, Calling
  <2>3. QED
    BY <2>1, <2>2
<1>8. CASE CallPartial
  BY <1>8 DEF CallPartial, Calling
<1>9. QED
  BY <1>1, <1>2, <1>3, <1>5, <1>6, <1>7, <1>8
     DEF Next, vars, frame, Decorate, Toggle, Access, Bind, Rebind, Descend, Got, Descriptor,
     MakeBound, Found, Idle, Body

(* The wrapper that a call enters. *)
LEMMA Entered ==
  ASSUME TypeOK, Held, Calling, NEW on, Enter(on)
  PROVE  /\ Len(at.layers) \in 1..Len(decorators) /\ Len(decorators) \in Nat
         /\ Top(at) = held.layers[Len(at.layers)]
         /\ Top(at).wrapper = decorators[Len(at.layers)]
         /\ Len(at'.layers) = Len(at.layers) - 1
<1>1. /\ phase = "call" /\ IsWrapper(at) /\ at' = Wrapped(at)
  BY DEF Enter
<1>2. /\ at \in Callables /\ Len(at.layers) <= Len(held.layers)
      /\ \A i \in 1..Len(at.layers) : at.layers[i] = held.layers[i]
  BY <1>1 DEF Calling
<1>3. Len(held.layers) = Len(decorators) /\ Len(decorators) \in Nat
  BY DEF Held, TypeOK
<1>4. Len(at.layers) \in 1..Len(at.layers) /\ Len(at.layers) \in 1..Len(held.layers)
  BY <1>1, <1>2, <1>3, CallableFacts
<1>5. Top(at) = held.layers[Len(at.layers)]
  BY <1>2, <1>4 DEF Top
<1>6. held.layers[Len(at.layers)].wrapper = decorators[Len(at.layers)]
  BY <1>4 DEF Held, Consistent
<1>7. Len(at'.layers) = Len(at.layers) - 1
  BY <1>1, <1>2, WrappedFacts
<1>8. QED
  BY <1>3, <1>4, <1>5, <1>6, <1>7

(* One more wrapper function has run. *)
LEMMA RanOne ==
  ASSUME TypeOK, UNCHANGED <<decorators, enabled, changed>>, NEW n \in 1..Len(decorators), Ran(n),
         enabled[decorators[n]] = TRUE, NEW s \in Sights, s.wrapper = decorators[n],
         seen' = Append(seen, s)
  PROVE  Ran(n - 1)'
<1>1. /\ Len(decorators) \in Nat /\ n \in Nat /\ DOMAIN decorators = 1..Len(decorators)
      /\ DOMAIN seen = 1..Len(seen) /\ Len(seen) \in Nat
  BY LenProperties DEF TypeOK
<1>2. /\ seen' \in Seq(Sights) /\ Len(seen') = Len(seen) + 1 /\ seen'[Len(seen) + 1] = s
      /\ \A i \in 1..Len(seen) : seen'[i] = seen[i]
  BY AppendProperties DEF TypeOK
<1>3. DOMAIN seen' = 1..Len(seen) + 1
  BY <1>2, LenProperties
<1>4. \A i \in DOMAIN seen' : i \in DOMAIN seen \/ i = Len(seen) + 1
  BY <1>1, <1>3
<1>5. /\ n \in n - 1 + 1..Len(decorators) /\ n \in DOMAIN decorators
      /\ \A a \in n + 1..Len(decorators) : a \in n - 1 + 1..Len(decorators) /\ a > n
                                           /\ a \in DOMAIN decorators
      /\ \A a \in n - 1 + 1..Len(decorators) : a = n \/ a \in n + 1..Len(decorators)
  BY <1>1
<1>6. \A i \in DOMAIN seen : \E a \in n + 1..Len(decorators) : decorators[a] = seen[i].wrapper
  BY DEF Ran
<1>7. \A i \in DOMAIN seen' : \E a \in n - 1 + 1..Len(decorators) : decorators[a] = seen'[i].wrapper
  BY <1>1, <1>2, <1>4, <1>5, <1>6
<1>8. \A i, j \in DOMAIN seen' : i < j =>
        \E a, b \in DOMAIN decorators :
          decorators[a] = seen'[i].wrapper /\ decorators[b] = seen'[j].wrapper /\ a > b
  <2> SUFFICES ASSUME NEW i \in DOMAIN seen', NEW j \in DOMAIN seen', i < j
               PROVE  \E a, b \in DOMAIN decorators :
                        decorators[a] = seen'[i].wrapper /\ decorators[b] = seen'[j].wrapper /\ a > b
    OBVIOUS
  <2>1. i \in DOMAIN seen /\ seen'[i] = seen[i]
    BY <1>1, <1>2, <1>3
  <2>2. CASE j \in DOMAIN seen
    <3>1. seen'[j] = seen[j]
      BY <2>2, <1>1, <1>2
    <3>2. QED
      BY <2>1, <2>2, <3>1 DEF Ran
  <2>3. CASE j = Len(seen) + 1
    BY <2>1, <2>3, <1>2, <1>5, <1>6
  <2>4. QED
    BY <2>2, <2>3, <1>4
<1>9. \A a \in n - 1 + 1..Len(decorators) :
        decorators[a] \notin changed =>
          (enabled[decorators[a]] <=> \E i \in DOMAIN seen' : seen'[i].wrapper = decorators[a])
  <2> SUFFICES ASSUME NEW a \in n - 1 + 1..Len(decorators), decorators[a] \notin changed
               PROVE  enabled[decorators[a]] <=>
                        \E i \in DOMAIN seen' : seen'[i].wrapper = decorators[a]
    OBVIOUS
  <2>1. Len(seen) + 1 \in DOMAIN seen'
    BY <1>1, <1>3
  <2>2. CASE a = n
    BY <2>1, <2>2, <1>2
  <2>3. CASE a \in n + 1..Len(decorators)
    <3>1. decorators[a] # s.wrapper
      BY <2>3, <1>1, <1>5 DEF TypeOK
    <3>2. enabled[decorators[a]] <=> \E i \in DOMAIN seen : seen[i].wrapper = decorators[a]
      BY <2>3 DEF Ran
    <3>3. (\E i \in DOMAIN seen : seen[i].wrapper = decorators[a])
            <=> \E i \in DOMAIN seen' : seen'[i].wrapper = decorators[a]
      BY <3>1, <1>1, <1>2, <1>3, <1>4
    <3>4. QED
      BY <3>2, <3>3
  <2>4. QED
    BY <2>2, <2>3, <1>5
<1>10. QED
  BY <1>7, <1>8, <1>9 DEF Ran

(* One more wrapper has been skipped. *)
LEMMA RanNone ==
  ASSUME TypeOK, UNCHANGED <<decorators, enabled, changed, seen>>, NEW n \in 1..Len(decorators),
         Ran(n), enabled[decorators[n]] = FALSE
  PROVE  Ran(n - 1)'
<1>1. Len(decorators) \in Nat /\ n \in Nat
  BY DEF TypeOK
<1>2. /\ \A a \in n + 1..Len(decorators) : a \in n - 1 + 1..Len(decorators) /\ a # n
                                           /\ a \in 1..Len(decorators)
      /\ \A a \in n - 1 + 1..Len(decorators) : a = n \/ a \in n + 1..Len(decorators)
  BY <1>1
<1>3. \A i \in DOMAIN seen : seen[i].wrapper # decorators[n]
  <2>1. \A a \in n + 1..Len(decorators) : decorators[a] # decorators[n]
    BY <1>2 DEF TypeOK
  <2>2. QED
    BY <2>1 DEF Ran
<1>4. QED
  BY <1>2, <1>3 DEF Ran

LEMMA RunsStep ==
  ASSUME TypeOK, Parents, Held, Calling, Runs, [Next]_vars
  PROVE  Runs'
<1>1. CASE UNCHANGED <<decorators, enabled, phase, at, seen, changed>>
  BY <1>1 DEF Runs, Ran
<1>2. ASSUME NEW w \in Wrappers, Decorate(w)
      PROVE  Runs'
  <2>1. phase' = "idle"
    BY <1>2 DEF Decorate, frame
  <2>2. decorators' # <<>>
    BY <1>2, AppendProperties DEF Decorate, TypeOK
  <2>3. QED
    BY <2>1, <2>2 DEF Runs
<1>3. ASSUME NEW w \in Wrappers, Toggle(w)
      PROVE  Runs'
  <2>1. /\ UNCHANGED <<decorators, phase, at, seen>> /\ changed' = changed \cup {w}
        /\ \A v \in Wrappers : v # w => enabled'[v] = enabled[v]
    BY <1>3 DEF Toggle, frame, TypeOK
  <2>2. \A n \in Nat : \A a \in n + 1..Len(decorators) : decorators[a] \in Wrappers
    BY ElementOfSeq DEF TypeOK
  <2>3. ASSUME NEW n \in Nat, Ran(n)
        PROVE  Ran(n)'
    BY <2>1, <2>2, <2>3 DEF Ran
  <2>4. phase \in {"call", "partial"} => Len(at.layers) \in Nat
    BY CallableFacts DEF Calling
  <2> PICK n : n = Len(at.layers)
    OBVIOUS
  <2>5. QED
    BY <2>1, <2>3, <2>4 DEF Runs
<1>4. CASE Access \/ Call
  <2>1. seen' = <<>> /\ phase' \in {"get", "call"} /\ at' = held /\ decorators' = decorators
    BY <1>4 DEF Access, Call, Ask
  <2>2. Len(at'.layers) = Len(decorators') /\ Len(decorators') \in Nat
    BY <2>1 DEF Held, TypeOK
  <2> PICK n : n = Len(at'.layers)
    OBVIOUS
  <2>3. DOMAIN seen' = {} /\ (n \in Nat => n + 1..n = {})
    BY <2>1
  <2>4. Ran(n)'
    BY <2>2, <2>3 DEF Ran
  <2>5. QED
    BY <2>1, <2>4 DEF Runs
<1>5. CASE Skip
  <2> PICK n : n = Len(at.layers)
    OBVIOUS
  <2>1. /\ UNCHANGED <<decorators, enabled, changed, seen>> /\ Enter(FALSE)
        /\ phase = "call" /\ phase' = "call" /\ enabled[Top(at).wrapper] = FALSE
    BY <1>5 DEF Skip, Enter
  <2>2. /\ n \in 1..Len(decorators) /\ Top(at).wrapper = decorators[n]
        /\ Len(at'.layers) = n - 1
    BY <2>1, Entered
  <2>3. Ran(n)
    BY <2>1 DEF Runs
  <2>4. Ran(n - 1)'
    BY <2>1, <2>2, <2>3, RanNone
  <2>5. QED
    BY <2>1, <2>2, <2>4 DEF Runs
<1>6. ASSUME NEW instance, NEW passed, RunWrapper(instance, passed), Enter(TRUE),
             phase' \in {"call", "partial"}, UNCHANGED <<decorators, enabled, changed>>,
             seen' \in Seq(Sights)
      PROVE  Runs'
  <2> PICK n : n = Len(at.layers)
    OBVIOUS
  <2>1. phase = "call" /\ enabled[Top(at).wrapper] = TRUE
    BY <1>6 DEF Enter
  <2>2. /\ n \in 1..Len(decorators) /\ Top(at).wrapper = decorators[n]
        /\ Len(at'.layers) = n - 1
    BY <1>6, Entered
  <2>3. Ran(n)
    BY <2>1 DEF Runs
  <2> DEFINE s == [wrapper |-> Top(at).wrapper, instance |-> instance, args |-> passed]
  <2>4. seen' = Append(seen, s) /\ s.wrapper = decorators[n]
    BY <1>6, <2>2 DEF RunWrapper
  <2>5. s \in Sights
    <3>1. seen \in Seq(Sights) /\ Len(seen) + 1 \in 1..Len(seen) + 1
      BY DEF TypeOK
    <3> HIDE DEF s
    <3>2. Len(seen') = Len(seen) + 1 /\ seen'[Len(seen) + 1] = s
      BY <3>1, <2>4
    <3>3. QED
      BY <1>6, <3>1, <3>2, ElementOfSeq
  <2>6. Ran(n - 1)'
    <3> HIDE DEF s
    <3>1. QED
      BY <1>6, <2>1, <2>2, <2>3, <2>4, <2>5, RanOne
  <2>7. decorators # <<>>
    BY <2>2
  <2>8. QED
    BY <1>6, <2>2, <2>6, <2>7 DEF Runs
<1>7. CASE CallUnbound \/ CallBound
  <2>1. Enter(TRUE) /\ UNCHANGED <<decorators, enabled, changed>>
    BY <1>7 DEF CallUnbound, CallBound, Enter
  <2>2. phase' \in {"call", "partial"}
    BY <1>7, <2>1 DEF CallUnbound, CallBound, Enter
  <2>3. \E instance, passed : RunWrapper(instance, passed)
    BY <1>7 DEF CallUnbound, CallBound
  <2>4. seen' \in Seq(Sights)
    <3>1. Top(at) \in Layers /\ SelfOf(Wrapped(at)) \in Values \cup {None}
      BY <2>1, EnterFacts
    <3>2. Top(at).wrapper \in Wrappers /\ Top(at).instance \in Values \cup {None}
      BY <3>1 DEF Layers, Values
    <3>3. PassesInstance(at) => Head(args) \in Values /\ Tail(args) \in Seq(Instances \cup {Other})
      BY PassedInstance DEF Values
    <3>4. \E instance \in Values \cup {None}, passed \in Seq(Instances \cup {Other}) :
            RunWrapper(instance, passed)
      BY <1>7, <3>1, <3>2, <3>3 DEF CallUnbound, CallBound, TypeOK
    <3>5. QED
      BY <3>2, <3>4, SightType
  <2>5. QED
    BY <1>6, <2>1, <2>2, <2>3, <2>4
<1>8. CASE CallPartial
  BY <1>8 DEF CallPartial, Runs, Ran
<1>9. CASE Bind \/ Rebind \/ Descriptor \/ MakeBound
  BY <1>9 DEF Bind, Rebind, Descend, Got, Descriptor, MakeBound, Runs
<1>10. CASE Found \/ Body
  BY <1>10 DEF Found, Body, Idle, Runs
<1>11. QED
  BY <1>1, <1>2, <1>3, <1>4, <1>5, <1>7, <1>8, <1>9, <1>10 DEF Next, vars, frame

LEMMA RunOnceStep ==
  ASSUME TypeOK, Lookup, Calling, Runs, WrappersRunOnce, [Next]_vars
  PROVE  WrappersRunOnce'
<1>1. CASE UNCHANGED <<decorators, enabled, seen, effect, changed>>
  BY <1>1 DEF WrappersRunOnce
<1>2. CASE effect' = None
  BY <1>2 DEF WrappersRunOnce
<1>3. ASSUME NEW w \in Wrappers, Decorate(w)
      PROVE  WrappersRunOnce'
  <2>1. /\ UNCHANGED <<enabled, seen, effect>> /\ changed' = changed \cup {w}
    BY <1>3 DEF Decorate
  <2>2. /\ Len(decorators) \in Nat /\ Len(decorators') = Len(decorators) + 1
        /\ decorators' \in Seq(Wrappers) /\ decorators'[Len(decorators')] = w
        /\ \A i \in 1..Len(decorators) : decorators'[i] = decorators[i]
    BY <1>3, NewDecorator DEF Decorate
  <2>3. DOMAIN decorators = 1..Len(decorators) /\ DOMAIN decorators' = 1..Len(decorators) + 1
    BY <2>2, LenProperties DEF TypeOK
  <2>4. \A a \in DOMAIN decorators : a \in DOMAIN decorators' /\ decorators'[a] = decorators[a]
    BY <2>2, <2>3
  <2>5. \A v \in Range(decorators') : v \in Range(decorators) \/ v = w
    BY <2>2, <2>3 DEF Range
  <2>6. QED
    BY <2>1, <2>4, <2>5 DEF WrappersRunOnce
<1>4. ASSUME NEW w \in Wrappers, Toggle(w)
      PROVE  WrappersRunOnce'
  <2>1. /\ UNCHANGED <<decorators, seen, effect>> /\ changed' = changed \cup {w}
        /\ \A v \in Wrappers : v # w => enabled'[v] = enabled[v]
    BY <1>4 DEF Toggle, TypeOK
  <2>2. \A v \in Range(decorators) : v \in Wrappers
    BY RangeOfSeq DEF TypeOK
  <2>3. QED
    BY <2>1, <2>2 DEF WrappersRunOnce
<1>5. CASE Body
  <2>1. /\ phase = "call" /\ ~IsWrapper(at) /\ UNCHANGED <<decorators, enabled, seen, changed>>
    BY <1>5 DEF Body
  <2>2. Len(at.layers) = 0
    BY <2>1 DEF IsWrapper
  <2>3. Ran(0)
    BY <2>1, <2>2 DEF Runs
  <2>4. DOMAIN decorators = 0 + 1..Len(decorators)
    BY LenProperties DEF TypeOK
  <2>5. \A v \in Range(decorators) : \E a \in 0 + 1..Len(decorators) : decorators[a] = v
    BY <2>4 DEF Range
  <2>6. QED
    BY <2>1, <2>3, <2>5 DEF Ran, WrappersRunOnce
<1>6. CASE phase \in {"get", "got", "call", "partial"} /\ effect' = effect
  BY <1>2, <1>6 DEF Lookup, Calling
<1>7. QED
  BY <1>1, <1>2, <1>3, <1>4, <1>5, <1>6
     DEF Next, vars, frame, Access, Ask, Bind, Rebind, Descend, Got, Descriptor, MakeBound, Found,
     Call, Skip, Enter, CallUnbound, CallBound, CallPartial

---------------------------------------------------------------------------
(* Decorated first, looked up then *)

LEMMA FirstFacts ==
  ASSUME TypeOK, Parents, NEW last, last = made[decorators[Len(decorators)]],
         decorators # <<>>
  PROVE  /\ First <=> /\ \A i \in 1..Len(decorators) : ~last.layers[i].bound
                      /\ last.core.kind \notin {"method", "callable"}
         /\ Consistent(last) /\ Len(last.layers) = Len(decorators) /\ last \in Callables
         /\ last.core \in Cores /\ Len(decorators) \in Nat \ {0}
<1>1. Len(decorators) \in Nat \ {0}
  BY EmptySeq DEF TypeOK
<1>2. Consistent(last) /\ Len(last.layers) = Len(decorators)
  BY <1>1 DEF Parents
<1>3. last \in Callables /\ last.core \in Cores /\ IsWrapper(last)
  BY <1>1, <1>2, CallableFacts DEF Consistent
<1>4. Parent(last) = last
  BY <1>2, <1>3, TopFacts
<1>5. DOMAIN last.layers = 1..Len(decorators)
  BY <1>2, <1>3, CallableFacts, LenProperties
<1>6. QED
  BY <1>1, <1>2, <1>3, <1>4, <1>5 DEF First, DecoratedFirst

(* Then all decorators have wrapped the same core. *)
LEMMA FirstParents ==
  ASSUME TypeOK, Parents, First, NEW last, last = made[decorators[Len(decorators)]],
         NEW i \in 1..Len(decorators)
  PROVE  /\ made[decorators[i]].core = last.core
         /\ \A j \in 1..i : made[decorators[i]].layers[j] = last.layers[j]
         /\ made[decorators[i]].layers[i].binding = CoreBinding(last.core)
         /\ last.core.kind \in {"function", "classmethod", "staticmethod", "descriptor", "class",
                                "builtin", "static"}
<1>1. decorators # <<>>
  BY DEF First
<1>2. /\ \A k \in 1..Len(decorators) : ~last.layers[k].bound
      /\ last.core.kind \notin {"method", "callable"}
      /\ Consistent(last) /\ Len(last.layers) = Len(decorators)
      /\ last.core \in Cores /\ Len(decorators) \in Nat \ {0}
  BY <1>1, FirstFacts
<1>3. /\ made[decorators[i]].core = last.core
      /\ \A j \in 1..i : made[decorators[i]].layers[j] = last.layers[j]
  BY <1>2 DEF Consistent
<1>4. made[decorators[1]].core = last.core
  BY <1>2 DEF Consistent
<1>5. made[decorators[i]].layers[i].binding = CoreBinding(last.core)
  BY <1>4 DEF Parents
<1>6. QED
  BY <1>2, <1>3, <1>5, CoreFacts

LEMMA HeldFirst ==
  ASSUME TypeOK, Parents, Held
  PROVE  /\ decorators # <<>> => (DecoratedFirst(held) <=> First)
         /\ IsWrapper(held) <=> decorators # <<>>
<1>1. /\ held \in Callables /\ Consistent(held) /\ Len(held.layers) = Len(decorators)
      /\ Len(decorators) \in Nat
  BY DEF Held, TypeOK
<1>2. IsWrapper(held) <=> decorators # <<>>
  <2>1. decorators # <<>> <=> Len(decorators) > 0
    BY EmptySeq DEF TypeOK
  <2>2. QED
    BY <2>1, <1>1, CallableFacts
<1>3. ASSUME decorators # <<>>
      PROVE  DecoratedFirst(held) <=> First
  <2> PICK last : last = made[decorators[Len(decorators)]]
    OBVIOUS
  <2>1. Parent(held) = last
    BY <1>1, <1>2, <1>3, TopFacts
  <2>2. /\ First <=> /\ \A i \in 1..Len(decorators) : ~last.layers[i].bound
                     /\ last.core.kind \notin {"method", "callable"}
        /\ Len(last.layers) = Len(decorators) /\ last \in Callables
    BY <1>3, FirstFacts
  <2>3. DOMAIN last.layers = 1..Len(decorators)
    BY <2>2, CallableFacts, LenProperties
  <2>4. QED
    BY <2>1, <2>2, <2>3, <1>2, <1>3 DEF DecoratedFirst
<1>4. QED
  BY <1>2, <1>3

LEMMA AlikeFrame ==
  ASSUME UNCHANGED <<made, decorators>>
  PROVE  /\ First' <=> First
         /\ \A o : Fresh(o)' <=> Fresh(o)
         /\ \A o, instance, owner : Uniform(o, instance, owner)' <=> Uniform(o, instance, owner)
<1>1. First' <=> First
  BY DEF First, DecoratedFirst, Parent, Top, IsWrapper
<1>2. QED
  BY <1>1 DEF Fresh, Uniform

(* A decorator on a callable that lookups have not bound. *)
LEMMA AlikeDecorate ==
  ASSUME TypeOK, TypeOK', Parents, Parents', Held, Alike, NEW w \in Wrappers, Decorate(w), First'
  PROVE  Fresh(held)' /\ made'[decorators'[Len(decorators')]] = held'
<1> DEFINE n == Len(decorators)
<1>1. n \in Nat /\ Len(decorators') = n + 1 /\ decorators'[Len(decorators')] = w
  BY NewDecorator DEF Decorate
<1>2. /\ made'[w] = held' /\ Len(held'.layers) = n + 1 /\ held'.core = held.core
  BY DecorateMakes
<1> PICK o : o = held'
  OBVIOUS
<1>3. /\ \A i \in 1..n + 1 : ~o.layers[i].bound
      /\ o.core.kind \notin {"method", "callable"}
  <2>1. /\ o = made'[decorators'[Len(decorators')]] /\ Len(o.layers) = n + 1
        /\ Consistent(o)'
    BY <1>1, <1>2, DecorateMakes
  <2>2. (IsWrapper(o) /\ Parent(o)' = o) \/ ~IsWrapper(o)
    <3>1. o.layers[n + 1].wrapper = decorators'[n + 1]
      BY <2>1, <1>1 DEF Consistent
    <3>2. QED
      BY <2>1, <3>1, <1>1, <1>2 DEF Parent, Top
  <2>3. DecoratedFirst(o)'
    BY <2>1 DEF First
  <2>4. DOMAIN o.layers = 1..n + 1
    BY <2>1, <1>1, CallableFacts, LenProperties DEF Consistent
  <2>5. QED
    BY <2>2, <2>3, <2>4 DEF DecoratedFirst
<1>4. held \in Callables /\ Len(held.layers) = n /\ held.core \in Cores
  BY CallableFacts DEF Held, TypeOK
<1>5. PICK layer \in Layers :
        o = Around(held, layer) /\ layer.self = SelfOf(held)
  <2>1. PICK layer \in Layers :
          FunctionWrapper(held, w) = Around(held, layer) /\ layer.self = SelfOf(held)
    BY <1>4, FunctionWrapperFacts
  <2>2. QED
    BY <2>1 DEF Decorate
<1>6. o.layers[n + 1] = layer /\ \A i \in 1..n : o.layers[i] = held.layers[i]
  BY <1>4, <1>5, AroundFacts
<1>7. SelfOf(held) = None /\ \A i \in 1..n : held.layers[i].self = None
  <2>1. CASE n = 0
    <3>1. ~IsWrapper(held)
      BY <2>1, <1>4, CallableFacts
    <3>2. SelfOf(held) = None
      BY <3>1, <1>2, <1>3, <1>4, OutsideFacts, BindingFacts
    <3>3. QED
      BY <2>1, <3>2
  <2>2. CASE n # 0
    <3> PICK last : last = made[decorators[n]]
      OBVIOUS
    <3>1. n \in 1..n /\ decorators # <<>> /\ \A i \in 1..n : i \in 1..n + 1
      BY <2>2, <1>1
    <3>2. \A i \in 1..n : ~held.layers[i].bound
      BY <3>1, <1>3, <1>6
    <3>3. last.core = held.core /\ \A i \in 1..n : last.layers[i] = held.layers[i]
      BY <3>1, <3>2, <1>4 DEF Held, Consistent
    <3>4. First
      BY <3>1, <3>2, <3>3, <1>2, <1>3, FirstFacts
    <3>5. Len(last.layers) = n
      BY <3>1 DEF Parents
    <3>6. \A i \in 1..n : last.layers[i].self = None
      BY <3>4, <3>5 DEF Alike, Fresh
    <3>7. IsWrapper(held)
      BY <2>2, <1>1, <1>4, CallableFacts
    <3>8. SelfOf(held) = held.layers[n].self
      BY <3>7, <1>4, OutsideFacts
    <3>9. QED
      BY <3>1, <3>3, <3>6, <3>8
  <2>3. QED
    BY <2>1, <2>2
<1>8. \A i \in 1..n + 1 : i \in 1..n \/ i = n + 1
  BY <1>1
<1>9. \A i \in 1..n + 1 : ~o.layers[i].bound /\ o.layers[i].self = None
  BY <1>3, <1>5, <1>6, <1>7, <1>8
<1>10. QED
  BY <1>1, <1>2, <1>9 DEF Fresh

(* A lookup of a callable that was decorated first goes down to the core, if it
   goes at all. *)
LEMMA FreshDescends ==
  ASSUME TypeOK, Parents, Held, Lookup, Alike, First, Bind
  PROVE  /\ Fresh(at)
         /\ \/ Fresh(at') /\ Descend(at')
            \/ Got /\ UNCHANGED <<at, waiting>> /\ waiting = <<>> /\ at = held
<1> DEFINE n == Len(at.layers)
<1> PICK last : last = made[decorators[Len(decorators)]]
  OBVIOUS
<1>1. phase = "get" /\ IsWrapper(at) /\ ~IsBound(at) /\ Consistent(at) /\ at \in Callables
  BY DEF Bind, Lookup, Consistent
<1>2. n \in 1..Len(decorators) /\ Top(at) = at.layers[n] /\ n \in 1..n /\ n \in Nat
  <2>1. n \in 1..Len(decorators) /\ Top(at) = at.layers[n]
    BY <1>1, TopFacts
  <2>2. QED
    BY <2>1
<1>3. ~Top(at).bound
  BY <1>1 DEF IsBound
<1>4. Fresh(at)
  <2>1. CASE Fresh(at)
    BY <2>1
  <2>2. CASE waiting = <<>> /\ at = held /\ ~Fresh(held)
    <3>1. PICK instance, owner : Uniform(held, instance, owner)
      BY <2>2 DEF Alike
    <3>2. FALSE
      BY <2>2, <3>1, <1>2, <1>3 DEF Uniform
    <3>3. QED
      BY <3>2
  <2>3. QED
    BY <1>1, <2>1, <2>2 DEF Alike
<1>5. /\ at.layers[n].binding = CoreBinding(last.core)
      /\ last.core.kind \in {"function", "classmethod", "staticmethod", "descriptor", "class",
                             "builtin", "static"}
      /\ at.core = last.core
  <2>1. at.layers[n].binding = made[decorators[n]].layers[n].binding
    BY <1>1, <1>2 DEF Consistent
  <2>2. QED
    BY <2>1, <1>2, <1>4, FirstParents DEF Fresh
<1> PICK o : o = Wrapped(at)
  OBVIOUS
<1>6. /\ o \in Callables /\ o.core = at.core /\ Len(o.layers) = n - 1
      /\ \A i \in 1..n - 1 : o.layers[i] = at.layers[i]
  BY <1>1, WrappedFacts
<1>7. Fresh(o)
  BY <1>2, <1>4, <1>6 DEF Fresh
<1>8. CASE Top(at).binding \in {"builtin", "class"} \/ ~HasGet(Wrapped(at))
  <2>1. Got /\ UNCHANGED <<at, waiting>>
    BY <1>8 DEF Bind
  <2>2. last.core.kind \in {"class", "builtin"} /\ last.core \in Cores
    <3>1. last.core \in Cores
      BY <1>1, <1>5, CallableFacts
    <3>2. CASE Top(at).binding \in {"builtin", "class"}
      BY <3>1, <3>2, <1>2, <1>5, BindingFacts
    <3>3. CASE ~HasGet(o)
      BY <3>1, <3>3, <1>5, <1>6 DEF HasGet
    <3>4. QED
      BY <1>8, <3>2, <3>3, <3>1
  <2>3. waiting = <<>>
    <3>1. SUFFICES ASSUME waiting # <<>>
                   PROVE  FALSE
      OBVIOUS
    <3> PICK m : m = Len(at.layers) + 1
      OBVIOUS
    <3>2. m \in 1..Len(decorators) /\ Bindable(m)
      BY <1>1, <3>1, WaitingFacts
    <3>3. made[decorators[m]].layers[m].binding = CoreBinding(last.core)
      BY <3>2, FirstParents
    <3>4. QED
      BY <2>2, <3>2, <3>3, BindingFacts DEF Bindable
  <2>4. at = held
    <3>1. Len(at.layers) = Len(decorators)
      <4>1. Len(waiting) = 0 /\ Len(at.layers) \in Nat
        BY <1>2, <2>3
      <4>2. Len(at.layers) + Len(waiting) = Len(decorators)
        BY <1>1 DEF Lookup
      <4>3. QED
        BY <4>1, <4>2
    <3>2. held \in Callables /\ held.core \in Cores /\ Len(held.layers) = Len(decorators)
      BY CallableFacts DEF Held, TypeOK
    <3>3. Fresh(held)
      <4>1. SUFFICES ASSUME NEW instance, NEW owner, Uniform(held, instance, owner)
                     PROVE  FALSE
        BY DEF Alike
      <4>2. n \in 1..Len(held.layers)
        BY <1>2, <3>1, <3>2
      <4>3. held.layers[n].bound
        BY <4>1, <4>2 DEF Uniform
      <4>4. Bindable(n)
        BY <4>2, <4>3 DEF Held, Consistent
      <4>5. made[decorators[n]].layers[n].binding = CoreBinding(last.core)
        BY <1>2, FirstParents
      <4>6. QED
        BY <2>2, <4>4, <4>5, BindingFacts DEF Bindable
    <3>4. \A i \in 1..n : at.layers[i] = last.layers[i] /\ held.layers[i] = last.layers[i]
      <4>1. n \in 1..Len(held.layers) /\ Len(decorators) = n
        BY <1>2, <3>1, <3>2
      <4>2. ~at.layers[n].bound /\ ~held.layers[n].bound
        BY <1>2, <1>4, <3>3, <4>1 DEF Fresh
      <4>3. QED
        BY <1>1, <1>2, <4>1, <4>2 DEF Held, Consistent
    <3>5. at.layers = held.layers
      <4>1. at.layers \in Seq(Layers) /\ held.layers \in Seq(Layers)
        BY <1>1, <3>2 DEF Callables
      <4>2. Len(at.layers) = Len(held.layers) /\ \A i \in 1..Len(at.layers) : at.layers[i] = held.layers[i]
        BY <3>1, <3>2, <3>4
      <4>3. QED
        BY <4>1, <4>2, SeqEqual
    <3>6. QED
      BY <1>1, <1>4, <3>2, <3>3, <3>5 DEF Fresh, Callables
  <2>5. QED
    BY <1>4, <2>1, <2>3, <2>4
<1>9. CASE ~(Top(at).binding \in {"builtin", "class"} \/ ~HasGet(Wrapped(at)))
  BY <1>4, <1>7, <1>9 DEF Bind, Descend
<1>10. QED
  BY <1>8, <1>9

(* What is bound around a callable that is bound alike is bound alike. *)
LEMMA AlikeBound ==
  ASSUME TypeOK, Parents, Lookup, Alike, First, MakeBound
  PROVE  Uniform(at', asked.instance, asked.owner)
<1> PICK last : last = made[decorators[Len(decorators)]]
  OBVIOUS
<1> DEFINE n == Len(at.layers) + 1
           w == decorators[n]
<1>1. /\ phase = "got" /\ waiting # <<>> /\ held' = held /\ phase' = "got" /\ asked' = asked
      /\ at' = BoundFunctionWrapper(at, waiting[Len(waiting)], asked.instance, asked.owner)
  BY DEF MakeBound
<1>2. /\ n \in 1..Len(decorators) /\ waiting[Len(waiting)] = w /\ w \in Wrappers
      /\ Consistent(made[w]) /\ Len(made[w].layers) = n
      /\ Len(at.layers) \in Nat
  BY <1>1, WaitingFacts
<1>3. Uniform(at, asked.instance, asked.owner)
  BY <1>1 DEF Alike
<1>4. /\ asked.instance \in Instances \cup {None} /\ asked.owner \in Classes
      /\ at \in Callables /\ at.core \in Cores
  <2>1. at \in Callables
    BY <1>1 DEF Lookup, Consistent
  <2>2. asked.instance \in Instances \cup {None} /\ asked.owner \in Classes
    BY <1>1, RequestFacts DEF TypeOK
  <2>3. QED
    BY <2>1, <2>2, CallableFacts
<1>5. made[w] \in Callables /\ IsWrapper(made[w])
  BY <1>2, CallableFacts DEF Consistent
<1>6. PICK layer \in Layers :
        /\ BoundFunctionWrapper(at, w, asked.instance, asked.owner) = Around(at, layer)
        /\ layer.instance = asked.instance /\ layer.bound /\ layer.owner = asked.owner
        /\ layer.self = IF SelfOf(made[w]) # None THEN SelfOf(made[w]) ELSE SelfOf(at)
  <2>1. /\ w \in Wrappers /\ made[w] \in Callables /\ IsWrapper(made[w]) /\ at \in Callables
        /\ asked.instance \in Instances \cup {None} /\ asked.owner \in Classes
    BY <1>2, <1>4, <1>5
  <2> HIDE DEF n, w
  <2>2. QED
    BY <2>1, BoundFunctionWrapperFacts
<1>7. SelfOf(made[w]) = None
  <2>1. SelfOf(made[w]) = made[w].layers[n].self
    BY <1>2, <1>5, OutsideFacts
  <2>2. n \in 1..n /\ made[w].layers[n] = last.layers[n]
    BY <1>2, FirstParents
  <2>3. Len(last.layers) = Len(decorators) /\ Fresh(last)
    BY FirstFacts DEF First, Alike
  <2>4. QED
    BY <1>2, <2>1, <2>2, <2>3 DEF Fresh
<1>8. SelfOf(at) = CoreSelf(at.core)
  <2>1. CASE IsWrapper(at)
    <3>1. Len(at.layers) \in 1..Len(at.layers)
      BY <1>4, <2>1, CallableFacts
    <3>2. QED
      BY <1>3, <1>4, <2>1, <3>1, OutsideFacts DEF Uniform
  <2>2. CASE ~IsWrapper(at)
    BY <1>4, <2>2, OutsideFacts
  <2>3. QED
    BY <2>1, <2>2
<1> PICK o : o = at'
  OBVIOUS
<1>9. o = Around(at, layer)
  BY <1>1, <1>2, <1>6
<1>10. /\ o.core = at.core /\ Len(o.layers) = Len(at.layers) + 1
       /\ \A i \in 1..Len(at.layers) : o.layers[i] = at.layers[i]
       /\ o.layers[Len(at.layers) + 1] = layer
  BY <1>4, <1>6, <1>9, AroundFacts
<1>11. \A i \in 1..Len(o.layers) : i \in 1..Len(at.layers) \/ i = Len(at.layers) + 1
  BY <1>2, <1>10
<1>12. Uniform(o, asked.instance, asked.owner)
  BY <1>3, <1>6, <1>7, <1>8, <1>10, <1>11 DEF Uniform
<1>13. QED
  BY <1>12

LEMMA AlikeStep ==
  ASSUME TypeOK, TypeOK', Parents, Parents', Held, Lookup, Alike, [Next]_vars
  PROVE  Alike'
<1>1. ASSUME NEW w \in Wrappers, Decorate(w)
      PROVE  Alike'
  <2>1. phase' = "idle"
    BY <1>1 DEF Decorate, frame
  <2> PICK o : o = held'
    OBVIOUS
  <2>2. First' => Fresh(o)' /\ made'[decorators'[Len(decorators')]] = o
    BY <1>1, AlikeDecorate
  <2>3. QED
    BY <2>1, <2>2 DEF Alike
<1>2. ASSUME UNCHANGED <<made, decorators>>, First,
             \/ held' = held
             \/ \E instance \in Instances \cup {None}, owner \in Classes :
                  Uniform(held', instance, owner),
             phase' = "get" => Fresh(at') \/ (waiting' = <<>> /\ at' = held'),
             phase' = "got" => \/ Uniform(at', asked'.instance, asked'.owner)
                               \/ waiting' = <<>> /\ at' = held'
      PROVE  Alike'
  <2> PICK last : last = made[decorators[Len(decorators)]]
    OBVIOUS
  <2> PICK h : h = held'
    OBVIOUS
  <2> PICK a : a = at'
    OBVIOUS
  <2>1. Fresh(last)' /\ made'[decorators'[Len(decorators')]] = last
    BY <1>2, AlikeFrame DEF Alike
  <2>2. Fresh(h)' \/ \E instance \in Instances \cup {None}, owner \in Classes :
                       Uniform(h, instance, owner)'
    BY <1>2, AlikeFrame DEF Alike
  <2>3. phase' = "get" => Fresh(a)' \/ (waiting' = <<>> /\ at' = held')
    BY <1>2, AlikeFrame
  <2> PICK v : v = asked'.instance
    OBVIOUS
  <2> PICK c : c = asked'.owner
    OBVIOUS
  <2>4. phase' = "got" => Uniform(a, v, c)' \/ (waiting' = <<>> /\ at' = held')
    BY <1>2, AlikeFrame
  <2>5. QED
    BY <2>1, <2>2, <2>3, <2>4 DEF Alike
<1>3. CASE UNCHANGED <<made, decorators>>
  <2> SUFFICES ASSUME First
               PROVE  Alike'
    BY <1>3, AlikeFrame DEF Alike
  <2> PICK last : last = made[decorators[Len(decorators)]]
    OBVIOUS
  <2>1. CASE UNCHANGED <<held, frame>>
    BY <1>2, <1>3, <2>1 DEF Alike, frame
  <2>2. CASE held' = held /\ phase' \notin {"get", "got"}
    BY <1>2, <1>3, <2>2
  <2>3. CASE Access
    <3>1. held' = held /\ at' = held /\ phase' = "get" /\ waiting' = waiting /\ phase = "idle"
      BY <2>3 DEF Access, Ask
    <3>2. waiting = <<>>
      BY <3>1 DEF TypeOK
    <3>3. QED
      BY <1>2, <1>3, <3>1, <3>2
  <2>4. CASE Bind
    <3>1. \/ Fresh(at') /\ Descend(at')
          \/ Got /\ UNCHANGED <<at, waiting>> /\ waiting = <<>> /\ at = held
      BY <2>4, FreshDescends
    <3>2. phase = "get"
      BY <2>4 DEF Bind
    <3>3. CASE Fresh(at') /\ Descend(at')
      BY <1>2, <1>3, <3>2, <3>3 DEF Descend
    <3>4. CASE Got /\ UNCHANGED <<at, waiting>> /\ waiting = <<>> /\ at = held
      BY <1>2, <1>3, <3>4 DEF Got
    <3>5. QED
      BY <3>1, <3>3, <3>4
  <2>5. CASE Rebind
    <3>1. phase = "get" /\ IsWrapper(at) /\ Top(at).bound /\ Consistent(at)
      BY <2>5 DEF Rebind, IsBound, Lookup
    <3>2. /\ Len(at.layers) \in 1..Len(decorators) /\ Top(at) = at.layers[Len(at.layers)]
          /\ Parent(at) = made[decorators[Len(at.layers)]]
      BY <3>1, TopFacts
    <3>3. Len(at.layers) \in 1..Len(at.layers)
      BY <3>2
    <3>4. waiting = <<>> /\ at = held
      BY <3>1, <3>2, <3>3 DEF Alike, Fresh
    <3>5. CASE FoundThroughClass(at)
      <4> PICK parent : parent = Parent(at)
        OBVIOUS
      <4> PICK n : n = Len(at.layers)
        OBVIOUS
      <4>1. n \in 1..Len(decorators) /\ parent = made[decorators[n]] /\ n \in Nat
        BY <3>2
      <4>2. Consistent(parent) /\ Len(parent.layers) = n /\ parent \in Callables
        <5>1. Consistent(parent) /\ Len(parent.layers) = n
          BY <4>1 DEF Parents
        <5>2. QED
          BY <5>1 DEF Consistent
      <4>3. IsWrapper(parent)
        BY <4>1, <4>2, CallableFacts
      <4>4. Fresh(parent)
        <5>1. parent.core = last.core /\ \A j \in 1..n : parent.layers[j] = last.layers[j]
          BY <4>1, FirstParents
        <5>2. Len(last.layers) = Len(decorators) /\ Fresh(last)
          BY FirstFacts DEF First, Alike
        <5>3. \A j \in 1..n : j \in 1..Len(decorators)
          BY <4>1
        <5>4. QED
          BY <4>2, <5>1, <5>2, <5>3 DEF Fresh
      <4> PICK o : o = Wrapped(parent)
        OBVIOUS
      <4>5. /\ o.core = parent.core /\ Len(o.layers) = n - 1
            /\ \A i \in 1..n - 1 : o.layers[i] = parent.layers[i] /\ i \in 1..n
        BY <4>1, <4>2, <4>3, WrappedFacts
      <4>6. Fresh(o)
        BY <4>2, <4>4, <4>5 DEF Fresh
      <4>7. Descend(o)
        BY <2>5, <3>5 DEF Rebind
      <4>8. at' = o /\ held' = held /\ phase' = "get"
        BY <3>1, <4>7 DEF Descend
      <4>9. QED
        BY <1>2, <1>3, <4>6, <4>8
    <3>6. CASE ~FoundThroughClass(at)
      <4>1. Got /\ UNCHANGED <<at, waiting>>
        BY <2>5, <3>6 DEF Rebind
      <4>2. QED
        BY <1>2, <1>3, <3>4, <4>1 DEF Got
    <3>7. QED
      BY <3>5, <3>6
  <2>6. CASE Descriptor
    <3>1. /\ phase = "get" /\ ~IsWrapper(at) /\ at \in Callables /\ held' = held
          /\ phase' = "got" /\ asked' = asked
      BY <2>6 DEF Descriptor, Got, Lookup, Consistent
    <3>2. decorators # <<>>
      BY DEF First
    <3>3. at # held
      BY <3>1, <3>2, HeldFirst
    <3>4. Fresh(at)
      BY <3>1, <3>3 DEF Alike
    <3>5. at.core = last.core /\ at.core.kind # "method"
      <4>1. last.core.kind \notin {"method", "callable"}
        BY <3>2, FirstFacts
      <4>2. QED
        BY <3>4, <4>1 DEF Fresh
    <3> PICK o : o = at'
      OBVIOUS
    <3>6. o.layers = <<>> /\ o.core = Py!PyBind(last.core, asked.instance, asked.owner)
      <4>1. at.layers = <<>>
        BY <3>1 DEF IsWrapper
      <4>2. at \in [layers : Seq(Layers), core : Cores]
        BY <3>1 DEF Callables
      <4>3. o = [at EXCEPT !.core = Py!PyBind(at.core, asked.instance, asked.owner)]
        BY <2>6, <3>5 DEF Descriptor
      <4>4. QED
        BY <4>1, <4>2, <4>3, <3>5
    <3>7. Uniform(o, asked.instance, asked.owner)
      <4>1. \A i : i \notin 1..Len(o.layers)
        BY <3>6
      <4>2. QED
        BY <3>6, <4>1 DEF Uniform
    <3>8. QED
      BY <1>2, <1>3, <3>1, <3>7
  <2>7. CASE MakeBound
    BY <1>2, <1>3, <2>7, AlikeBound DEF MakeBound
  <2>8. CASE Found
    <3>1. phase = "got" /\ phase' = "idle" /\ held' = at
      BY <2>8 DEF Found, Idle
    <3>2. asked.instance \in Instances \cup {None} /\ asked.owner \in Classes
      BY <3>1, RequestFacts DEF TypeOK
    <3>3. Uniform(at, asked.instance, asked.owner) \/ at = held
      BY <3>1 DEF Alike
    <3>4. QED
      BY <1>2, <1>3, <3>1, <3>2, <3>3
  <2>9. QED
    BY <1>3, <2>1, <2>2, <2>3, <2>4, <2>5, <2>6, <2>7, <2>8
       DEF Next, vars, frame, Decorate, Toggle, Call, Ask, Skip, Enter, CallUnbound, CallBound,
       CallPartial, Body, Idle
<1>4. QED
  BY <1>1, <1>3 DEF Next, vars, frame, Decorate, Toggle, Access, Ask, Bind, Rebind, Descend, Got,
     Descriptor, MakeBound, Found, Call, Skip, Enter, CallUnbound, CallBound, CallPartial, Body

---------------------------------------------------------------------------
(* What a wrapper function sees *)

LEMMA LastInside ==
  ASSUME NEW m, NEW n \in 1..m, m \in Nat, n # 1
  PROVE  n - 1 \in 1..n - 1 /\ n - 1 > 0 /\ m # 1
OBVIOUS

(* With one decorator, or all put on first, nothing but the core has a receiver. *)
LEMMA SelfInside ==
  ASSUME TypeOK, Parents, Held, Calling, Alike, NEW on, Enter(on), Len(decorators) = 1 \/ First
  PROVE  SelfOf(Wrapped(at)) = CoreSelf(held.core)
<1> DEFINE n == Len(at.layers)
<1>1. /\ at \in Callables /\ IsWrapper(at) /\ phase = "call" /\ Wrapped(at) \in Callables
  BY EnterFacts
<1>2. n \in 1..Len(decorators) /\ Len(decorators) \in Nat /\ n \in Nat
  <2>1. n \in 1..Len(decorators) /\ Len(decorators) \in Nat
    BY Entered
  <2>2. QED
    BY <2>1
<1> PICK o : o = Wrapped(at)
  OBVIOUS
<1>3. /\ o.core = held.core /\ Len(o.layers) = n - 1 /\ o \in Callables
      /\ \A i \in 1..n - 1 : o.layers[i] = at.layers[i]
  <2>1. at.core = held.core
    BY <1>1 DEF Calling
  <2>2. QED
    BY <1>1, <2>1, WrappedFacts
<1>4. \A i \in 1..n - 1 : o.layers[i] = held.layers[i] /\ i \in 1..Len(held.layers)
  <2>1. Len(at.layers) <= Len(held.layers) /\ \A i \in 1..n : at.layers[i] = held.layers[i]
    BY <1>1 DEF Calling
  <2>2. \A i \in 1..n - 1 : i \in 1..n
    BY <1>2
  <2>3. Len(held.layers) = Len(decorators)
    BY DEF Held
  <2>4. \A i \in 1..n - 1 : i \in 1..Len(decorators)
    BY <1>2
  <2>5. QED
    BY <1>3, <2>1, <2>2, <2>3, <2>4
<1>5. CASE n = 1
  <2>1. ~IsWrapper(o)
    BY <1>3, <1>5, CallableFacts
  <2>2. QED
    BY <1>3, <2>1, OutsideFacts
<1>6. CASE n # 1
  <2>0. n - 1 \in 1..n - 1 /\ n - 1 > 0 /\ Len(decorators) # 1
    BY <1>2, <1>6, LastInside
  <2>1. IsWrapper(o)
    BY <1>3, <2>0, CallableFacts
  <2>2. First
    BY <2>0
  <2>3. SelfOf(o) = held.layers[n - 1].self /\ n - 1 \in 1..Len(held.layers)
    BY <1>3, <1>4, <2>0, <2>1, OutsideFacts
  <2>4. held.layers[n - 1].self = CoreSelf(held.core)
    <3>1. CASE Fresh(held)
      <4> PICK last : last = made[decorators[Len(decorators)]]
        OBVIOUS
      <4>1. last.core.kind # "method" /\ last.core \in Cores
        BY <2>2, FirstFacts DEF First
      <4>2. QED
        BY <2>3, <3>1, <4>1, BindingFacts DEF Fresh
    <3>2. CASE \E instance, owner : Uniform(held, instance, owner)
      BY <2>3, <3>2 DEF Uniform
    <3>3. QED
      BY <2>2, <3>1, <3>2 DEF Alike
  <2>5. QED
    BY <2>3, <2>4
<1>7. QED
  BY <1>5, <1>6

(* All wrappers have the binding that the first decorator found. *)
LEMMA SameBinding ==
  ASSUME TypeOK, Parents, Held, NEW i \in 1..Len(decorators)
  PROVE  /\ held.layers[i].binding = CoreBinding(made[decorators[1]].core)
         /\ ~held.layers[i].bound => held.layers[i].instance = None
                                     /\ made[decorators[i]].core = held.core
         /\ held.layers[i].bound => Bindable(i)
<1>1. i \in 1..Len(held.layers)
  BY DEF Held
<1>2. held.layers[i].binding = made[decorators[i]].layers[i].binding
  BY <1>1 DEF Held, Consistent
<1>3. QED
  BY <1>1, <1>2 DEF Held, Consistent, Parents

(* The receiver, if any, and the arguments make the call of a core. *)
LEMMA CoreCall ==
  ASSUME NEW c \in Cores, c.kind # "classmethod", NEW passed
  PROVE  Py!PyCall(c, passed) = IF CoreSelf(c) = None THEN passed ELSE <<CoreSelf(c)>> \o passed
<1>1. CoreSelf(c) = None <=> c.kind # "method"
  BY BindingFacts, CoreFacts, ClassOfAssumption DEF Values
<1>2. QED
  BY <1>1, BindingFacts DEF Py!PyCall

LEMMA UnboundSight ==
  ASSUME TypeOK, Parents, Held, Calling, Alike, Enter(TRUE), ~IsBound(at),
         Len(decorators) = 1 \/ First, held.core.kind # "classmethod",
         NEW s, s.args = args,
         s.instance = IF /\ Top(at).instance = None
                         /\ Top(at).binding \in {"function", "instancemethod", "classmethod", "callable"}
                      THEN SelfOf(Wrapped(at)) ELSE Top(at).instance
  PROVE  Faithful(s, Py!PyCall(held.core, asked.args))
<1> DEFINE n == Len(at.layers)
           c == held.core
<1>1. c \in Cores /\ args = asked.args /\ IsWrapper(at)
  BY EnterFacts, CallableFacts DEF TypeOK
<1>2. n \in 1..Len(decorators) /\ Top(at) = held.layers[n] /\ Len(decorators) \in Nat
  BY Entered
<1>3. SelfOf(Wrapped(at)) = CoreSelf(c)
  BY SelfInside
<1>4. ~held.layers[n].bound
  BY <1>1, <1>2 DEF IsBound
<1>5. /\ held.layers[n].instance = None /\ made[decorators[n]].core = c
      /\ held.layers[n].binding = CoreBinding(made[decorators[1]].core)
  BY <1>2, <1>4, SameBinding
<1>6. made[decorators[1]].core = c
  <2>1. CASE Len(decorators) = 1
    <3>1. n = 1
      BY <1>2, <2>1
    <3>2. QED
      BY <1>5, <3>1
  <2>2. CASE First
    <3>1. 1 \in 1..Len(decorators)
      BY <1>2
    <3>2. QED
      BY <1>2, <1>5, <2>2, <3>1, FirstParents
  <2>3. QED
    BY <2>1, <2>2
<1>7. s.instance = CoreSelf(c)
  BY <1>1, <1>2, <1>3, <1>5, <1>6, BindingFacts
<1>8. ~IsBound(held)
  <2>1. held \in Callables /\ Len(held.layers) = Len(decorators)
    BY DEF Held, TypeOK
  <2>2. CASE Len(decorators) = 1
    <3>1. Top(held) = held.layers[n]
      BY <1>2, <2>1, <2>2 DEF Top
    <3>2. QED
      BY <3>1, <1>4 DEF IsBound
  <2>3. CASE First
    <3>1. Fresh(held)
      <4>1. SUFFICES ASSUME NEW instance, NEW owner, Uniform(held, instance, owner)
                     PROVE  FALSE
        BY <2>3 DEF Alike
      <4>2. QED
        BY <4>1, <2>1, <1>2, <1>4 DEF Uniform
    <3>2. Len(held.layers) \in 1..Len(held.layers)
      BY <1>2, <2>1
    <3>3. QED
      BY <3>1, <3>2 DEF Fresh, IsBound, Top
  <2>4. QED
    BY <2>2, <2>3
<1>9. QED
  BY <1>1, <1>7, <1>8, CoreCall DEF Faithful

(* What is bound to the instance it is found through had all decorators first. *)
LEMMA BoundFirst ==
  ASSUME TypeOK, Parents, Held, Len(decorators) = 1 \/ First, NEW n \in 1..Len(decorators),
         held.layers[n].bound, held.layers[n].binding \in {"function", "callable"}
  PROVE  First
<1>1. CASE Len(decorators) = 1
  <2> PICK last : last = made[decorators[1]]
    OBVIOUS
  <2>1. n = 1 /\ decorators # <<>> /\ 1 \in 1..Len(decorators)
    <3>1. n \in 1..1
      BY <1>1
    <3>2. decorators # <<>>
      <4>1. SUFFICES ASSUME decorators = <<>>
                     PROVE  FALSE
        OBVIOUS
      <4>2. Len(decorators) = 0
        BY <4>1, EmptySeq, Zenon
      <4>3. QED
        BY <1>1, <4>2
    <3>3. QED
      BY <1>1, <3>1, <3>2
  <2>2. held.layers[1].binding = CoreBinding(last.core) /\ Bindable(1)
    BY <2>1, SameBinding
  <2>3. last.core.kind \in {"function", "static", "descriptor", "classmethod", "staticmethod"}
          \/ last.core.kind = "method"
    BY <2>2 DEF Bindable, HasGet, IsWrapper
  <2>4. last.core \in Cores
    BY <1>1, <2>1, FirstFacts
  <2>5. last.core.kind \notin {"method", "callable"}
    BY <2>1, <2>2, <2>3, <2>4, BindingFacts
  <2>6. ~last.layers[1].bound
    BY <2>1 DEF Parents
  <2>7. \A i \in 1..Len(decorators) : ~last.layers[i].bound
    BY <1>1, <2>6
  <2>8. QED
    BY <1>1, <2>1, <2>5, <2>7, FirstFacts
<1>2. QED
  BY <1>1

(* Neither the function of a method nor a callable with a __get__. *)
LEMMA OtherSight ==
  ASSUME TypeOK, Parents, Held, Calling, Alike, Enter(TRUE), IsBound(at),
         Len(decorators) = 1 \/ First, held.core.kind # "classmethod",
         Top(at).binding \notin {"function", "callable"},
         NEW s, s.args = args, s.instance = SelfOf(Wrapped(at))
  PROVE  Faithful(s, Py!PyCall(held.core, asked.args))
<1>1. held.core \in Cores /\ args = asked.args
  BY EnterFacts, CallableFacts DEF TypeOK
<1>2. s.instance = CoreSelf(held.core)
  BY SelfInside
<1>3. Top(held).binding = Top(at).binding
  <2>1. /\ Len(at.layers) \in 1..Len(decorators) /\ Len(decorators) \in Nat
        /\ Top(at) = held.layers[Len(at.layers)]
    BY Entered
  <2>2. Len(held.layers) = Len(decorators)
    BY DEF Held
  <2>3. Len(decorators) \in 1..Len(decorators)
    BY <2>1
  <2>4. Top(held) = held.layers[Len(decorators)]
    BY <2>2 DEF Top
  <2>5. QED
    BY <2>1, <2>3, <2>4, SameBinding
<1>4. QED
  BY <1>1, <1>2, <1>3, CoreCall DEF Faithful

(* A wrapper that calls take the receiver of a method for is bound as all are. *)
LEMMA BoundAlike ==
  ASSUME TypeOK, Parents, Held, Alike, Len(decorators) = 1 \/ First,
         NEW n \in 1..Len(decorators), held.layers[n].bound,
         held.layers[n].binding \in {"function", "callable"}
  PROVE  \E instance \in Instances \cup {None}, owner \in Classes :
           /\ \A i \in 1..Len(decorators) :
                held.layers[i].instance = instance /\ held.layers[i].owner = owner
           /\ \A passed : Py!PyCall(held.core, passed) = IF instance = None THEN passed
                                                         ELSE <<instance>> \o passed
<1>1. First /\ decorators # <<>>
  BY BoundFirst DEF First
<1> PICK last : last = made[decorators[Len(decorators)]]
  OBVIOUS
<1>2. Len(held.layers) = Len(decorators) /\ Len(decorators) \in Nat /\ 1 \in 1..Len(decorators)
  BY <1>1, FirstFacts DEF Held
<1>3. PICK instance \in Instances \cup {None}, owner \in Classes : Uniform(held, instance, owner)
  <2>1. ~Fresh(held)
    BY <1>2 DEF Fresh
  <2>2. QED
    BY <1>1, <2>1 DEF Alike
<1>4. last.core.kind \in {"function", "static", "descriptor"} /\ last.core \in Cores
  <2>1. held.layers[n].binding = CoreBinding(made[decorators[1]].core)
    BY SameBinding
  <2>2. made[decorators[1]].core = last.core
    BY <1>1, <1>2, FirstParents
  <2>3. last.core.kind \in {"function", "classmethod", "staticmethod", "descriptor", "class",
                            "builtin", "static"}
    BY <1>1, <1>2, FirstParents
  <2>4. last.core \in Cores
    BY <1>1, FirstFacts
  <2>5. QED
    BY <2>1, <2>2, <2>3, <2>4, BindingFacts
<1>5. held.core = IF instance = None THEN last.core ELSE Py!Method(last.core, instance)
  BY <1>3, <1>4, BindFacts DEF Uniform
<1>6. ASSUME NEW passed
      PROVE  Py!PyCall(held.core, passed) = IF instance = None THEN passed
                                            ELSE <<instance>> \o passed
  <2>1. CASE instance = None
    BY <1>4, <1>5, <2>1 DEF Py!PyCall
  <2>2. CASE instance # None
    <3>1. held.core.kind = "method" /\ held.core.instance = instance
      BY <1>5, <2>2 DEF Py!Method
    <3>2. QED
      BY <2>2, <3>1 DEF Py!PyCall
  <2>3. QED
    BY <2>1, <2>2
<1>7. QED
  BY <1>2, <1>3, <1>6 DEF Uniform

LEMMA MethodSight ==
  ASSUME TypeOK, Parents, Held, Calling, Alike, Enter(TRUE), IsBound(at),
         Len(decorators) = 1 \/ First, Top(at).binding \in {"function", "callable"}, NEW s,
         IF PassesInstance(at) THEN s.args = Tail(args) /\ s.instance = Head(args)
         ELSE s.args = args /\ s.instance = Top(at).instance
  PROVE  Faithful(s, Py!PyCall(held.core, asked.args))
<1>1. PICK n : /\ n \in 1..Len(decorators) /\ Len(decorators) \in Nat
               /\ Top(at) = held.layers[n]
  BY Entered
<1>2. held.layers[n].bound /\ held.layers[n].binding \in {"function", "callable"}
  BY <1>1 DEF IsBound
<1>3. PICK instance \in Instances \cup {None}, owner \in Classes :
           /\ \A i \in 1..Len(decorators) :
                held.layers[i].instance = instance /\ held.layers[i].owner = owner
           /\ \A passed : Py!PyCall(held.core, passed) = IF instance = None THEN passed
                                                         ELSE <<instance>> \o passed
  BY <1>1, <1>2, BoundAlike
<1>4. /\ Top(at).instance = instance /\ Top(at).owner = owner /\ Top(held).owner = owner
  <2>1. Len(decorators) \in 1..Len(decorators)
    BY <1>1
  <2>2. Top(held) = held.layers[Len(decorators)]
    BY DEF Top, Held
  <2>3. QED
    BY <1>1, <1>3, <2>1, <2>2
<1>5. args = asked.args /\ args \in Seq(Instances \cup {Other})
  BY EnterFacts DEF TypeOK
<1>6. Py!PyCall(held.core, asked.args) = IF instance = None THEN args ELSE <<instance>> \o args
  BY <1>3, <1>5
<1>7. CASE PassesInstance(at)
  <2>1. s.instance = Head(args) /\ s.args = Tail(args) /\ instance = None
    BY <1>4, <1>7 DEF PassesInstance
  <2>2. Head(args) # None /\ <<Head(args)>> \o Tail(args) = args
    BY <1>7, PassedInstance, ClassOfAssumption
  <2>3. QED
    BY <1>6, <2>1, <2>2 DEF Faithful
<1>8. CASE ~PassesInstance(at)
  <2>1. s.instance = instance /\ s.args = args
    BY <1>4, <1>8
  <2>2. CASE instance = None
    <3>1. ~(args # <<>> /\ IsInstance(Head(args), owner))
      BY <1>4, <1>8, <2>2 DEF PassesInstance
    <3>2. QED
      BY <1>4, <1>6, <2>1, <2>2, <3>1 DEF Faithful
  <2>3. CASE instance # None
    <3>1. Head(<<instance>> \o args) = instance
      BY <1>5
    <3>2. QED
      BY <1>6, <2>1, <2>3, <3>1 DEF Faithful
  <2>4. QED
    BY <2>2, <2>3
<1>9. QED
  BY <1>7, <1>8

LEMMA FaithfulFrame ==
  ASSUME UNCHANGED held, NEW s, NEW passed
  PROVE  Faithful(s, passed)' <=> Faithful(s, passed)
BY DEF Faithful

LEMMA DecoratedFrame ==
  ASSUME UNCHANGED <<held, made>>
  PROVE  DecoratedFirst(held)' <=> DecoratedFirst(held)
BY DEF DecoratedFirst, Parent

LEMMA ReceivesFrame ==
  ASSUME Receives, UNCHANGED <<held, made, decorators, asked, seen>>,
         phase \in {"call", "partial"} \/ phase' \notin {"call", "partial"}
  PROVE  Receives'
<1> PICK passed : passed = Py!PyCall(held.core, asked.args)
  OBVIOUS
<1>1. Py!PyCall(held.core, asked.args)' = passed
  OBVIOUS
<1>2. \A s : Faithful(s, passed)' <=> Faithful(s, passed)
  BY FaithfulFrame
<1>3. DecoratedFirst(held)' <=> DecoratedFirst(held)
  BY DecoratedFrame
<1>4. QED
  BY <1>1, <1>2, <1>3 DEF Receives

(* A wrapper function sees the call of the body. *)
LEMMA ReceivesSight ==
  ASSUME TypeOK, Receives, UNCHANGED <<held, made, decorators, asked>>, phase = "call",
         NEW s, seen' = Append(seen, s),
         /\ Len(decorators) = 1 \/ DecoratedFirst(held)
         /\ held.core.kind # "classmethod"
         => Faithful(s, Py!PyCall(held.core, asked.args))
  PROVE  Receives'
<1> PICK passed : passed = Py!PyCall(held.core, asked.args)
  OBVIOUS
<1>1. Py!PyCall(held.core, asked.args)' = passed
  OBVIOUS
<1>2. \A r : Faithful(r, passed)' <=> Faithful(r, passed)
  BY FaithfulFrame
<1>3. DecoratedFirst(held)' <=> DecoratedFirst(held)
  BY DecoratedFrame
<1>4. \A i \in DOMAIN seen' : (i \in DOMAIN seen /\ seen'[i] = seen[i]) \/ seen'[i] = s
  <2>1. seen \in Seq(Sights)
    BY DEF TypeOK
  <2>2. QED
    BY <2>1
<1>5. ASSUME Len(decorators) = 1 \/ DecoratedFirst(held), held.core.kind # "classmethod"
      PROVE  \A i \in DOMAIN seen' : Faithful(seen'[i], passed)
  <2>1. \A i \in DOMAIN seen : Faithful(seen[i], passed)
    BY <1>5 DEF Receives
  <2>2. Faithful(s, passed)
    BY <1>5
  <2>3. QED
    BY <1>4, <2>1, <2>2
<1>6. QED
  BY <1>1, <1>2, <1>3, <1>5 DEF Receives

LEMMA ReceivesStep ==
  ASSUME TypeOK, Parents, Held, Calling, Alike, Receives, [Next]_vars
  PROVE  Receives'
<1>1. ASSUME NEW w \in Wrappers, Decorate(w)
      PROVE  Receives'
  BY <1>1 DEF Decorate, frame, Receives
<1>2. ASSUME NEW w \in Wrappers, Toggle(w)
      PROVE  Receives'
  <2>1. UNCHANGED <<held, made, decorators, asked, seen, phase>>
    BY <1>2 DEF Toggle, frame
  <2>2. QED
    BY <2>1, ReceivesFrame DEF Receives
<1>3. CASE Access \/ Bind \/ Rebind \/ Descriptor \/ MakeBound \/ Found \/ Body
  <2>1. phase' \notin {"call", "partial"}
    BY <1>3 DEF Access, Bind, Rebind, Descriptor, MakeBound, Found, Body, Descend, Got, Idle
  <2>2. QED
    BY <2>1 DEF Receives
<1>4. CASE Call
  <2>1. seen' = <<>>
    BY <1>4 DEF Call, Ask
  <2>2. QED
    BY <2>1 DEF Receives
<1>5. CASE Skip \/ CallPartial
  <2>1. UNCHANGED <<held, made, decorators, asked, seen>> /\ phase \in {"call", "partial"}
    BY <1>5 DEF Skip, CallPartial, Enter
  <2>2. QED
    BY <2>1, ReceivesFrame
<1>6. ASSUME Enter(TRUE), Len(decorators) = 1 \/ DecoratedFirst(held)
      PROVE  Len(decorators) = 1 \/ First
  <2>1. Len(at.layers) \in 1..Len(decorators)
    BY <1>6, Entered
  <2>2. decorators # <<>>
    BY <2>1, EmptySeq
  <2>3. QED
    BY <1>6, <2>2, HeldFirst
<1>7. CASE CallUnbound
  <2>1. Enter(TRUE) /\ ~IsBound(at)
    BY <1>7 DEF CallUnbound
  <2>2. UNCHANGED <<held, made, decorators, asked>> /\ phase = "call"
    BY <2>1 DEF Enter
  <2>3. PICK s : /\ seen' = Append(seen, s) /\ s.args = args
                 /\ s.instance = IF /\ Top(at).instance = None
                                    /\ Top(at).binding \in {"function", "instancemethod",
                                                            "classmethod", "callable"}
                                 THEN SelfOf(Wrapped(at)) ELSE Top(at).instance
    BY <1>7 DEF CallUnbound, RunWrapper
  <2>4. ASSUME Len(decorators) = 1 \/ DecoratedFirst(held), held.core.kind # "classmethod"
        PROVE  Faithful(s, Py!PyCall(held.core, asked.args))
    BY <1>6, <2>1, <2>3, <2>4, UnboundSight
  <2>5. QED
    BY <2>2, <2>3, <2>4, ReceivesSight
<1>8. CASE CallBound
  <2>1. Enter(TRUE) /\ IsBound(at)
    BY <1>8 DEF CallBound
  <2>2. UNCHANGED <<held, made, decorators, asked>> /\ phase = "call"
    BY <2>1 DEF Enter
  <2>3. PICK s : /\ seen' = Append(seen, s)
                 /\ IF PassesInstance(at) THEN s.args = Tail(args) /\ s.instance = Head(args)
                    ELSE /\ s.args = args
                         /\ s.instance = IF Top(at).binding \in {"function", "callable"}
                                         THEN Top(at).instance ELSE SelfOf(Wrapped(at))
    BY <1>8 DEF CallBound, RunWrapper
  <2>4. ASSUME Len(decorators) = 1 \/ DecoratedFirst(held), held.core.kind # "classmethod"
        PROVE  Faithful(s, Py!PyCall(held.core, asked.args))
    <3>1. Len(decorators) = 1 \/ First
      BY <1>6, <2>1, <2>4
    <3>2. CASE Top(at).binding \in {"function", "callable"}
      BY <2>1, <2>3, <2>4, <3>1, <3>2, MethodSight
    <3>3. CASE Top(at).binding \notin {"function", "callable"}
      <4>1. ~PassesInstance(at)
        BY <3>3 DEF PassesInstance
      <4>2. QED
        BY <2>1, <2>3, <2>4, <3>1, <3>3, <4>1, OtherSight
    <3>4. QED
      BY <3>2, <3>3
  <2>5. QED
    BY <2>2, <2>3, <2>4, ReceivesSight
<1>9. CASE UNCHANGED vars
  BY <1>9, ReceivesFrame DEF vars, frame, Receives
<1>10. QED
  BY <1>1, <1>2, <1>3, <1>4, <1>5, <1>7, <1>8, <1>9 DEF Next

(* A decorator on top of others leaves what was decorated first as it was. *)
LEMMA DecorateFirst ==
  ASSUME TypeOK, Parents, Held, NEW w \in Wrappers, Decorate(w), DecoratedFirst(held)',
         decorators # <<>>
  PROVE  DecoratedFirst(held)
<1>1. held' = FunctionWrapper(held, w) /\ made'[w] = held'
  BY DecorateMakes DEF Decorate
<1>2. held \in Callables /\ Len(held.layers) = Len(decorators)
  BY DEF TypeOK, Held
<1>3. PICK layer \in Layers : held' = Around(held, layer) /\ layer.wrapper = w
  BY <1>1, <1>2, FunctionWrapperFacts
<1> PICK n : n = Len(held.layers)
  OBVIOUS
<1> PICK h : h = held'
  OBVIOUS
<1>4. /\ h \in Callables /\ h.core = held.core /\ Len(h.layers) = n + 1 /\ n \in Nat
      /\ h.layers[n + 1] = layer
      /\ \A i \in 1..n : h.layers[i] = held.layers[i]
  BY <1>2, <1>3, AroundFacts, CallableFacts
<1>5. Parent(h)' = h /\ IsWrapper(h)
  <2>1. IsWrapper(h) /\ Top(h) = layer
    BY <1>4, CallableFacts DEF Top
  <2>2. QED
    BY <1>1, <1>3, <2>1 DEF Parent
<1>6. /\ \A i \in DOMAIN h.layers : ~h.layers[i].bound
      /\ h.core.kind \notin {"method", "callable"}
  BY <1>5 DEF DecoratedFirst
<1>7. \A i \in 1..n : ~held.layers[i].bound
  <2>1. DOMAIN h.layers = 1..n + 1
    BY <1>4, LenProperties DEF Callables
  <2>2. QED
    BY <1>4, <1>6, <2>1
<1> PICK last : last = made[decorators[Len(decorators)]]
  OBVIOUS
<1>8. Len(last.layers) = Len(decorators) /\ Len(decorators) \in Nat \ {0}
  BY FirstFacts
<1>9. last.core = held.core /\ \A i \in 1..n : last.layers[i] = held.layers[i]
  <2>1. n \in 1..n /\ n = Len(decorators)
    BY <1>2, <1>8
  <2>2. QED
    BY <1>7, <2>1 DEF Held, Consistent
<1>10. First
  <2>1. \A i \in 1..Len(decorators) : ~last.layers[i].bound
    BY <1>2, <1>7, <1>9
  <2>2. QED
    BY <1>4, <1>6, <1>9, <2>1, FirstFacts
<1>11. QED
  BY <1>10, HeldFirst

LEMMA ReceiverStep ==
  ASSUME TypeOK, Parents, Held, Lookup, Calling, Runs, Receives, InstanceIsReceiver, [Next]_vars
  PROVE  InstanceIsReceiver'
<1>1. CASE effect' = None
  BY <1>1 DEF InstanceIsReceiver
<1>2. CASE phase \in {"get", "got", "call", "partial"} /\ effect' = effect
  BY <1>1, <1>2 DEF Lookup, Calling
<1>3. CASE UNCHANGED <<held, made, decorators, seen, effect>>
  <2>1. DecoratedFirst(held)' <=> DecoratedFirst(held)
    BY <1>3, DecoratedFrame
  <2>2. QED
    BY <1>3, <2>1 DEF InstanceIsReceiver
<1>4. ASSUME NEW w \in Wrappers, Decorate(w)
      PROVE  InstanceIsReceiver'
  <2>1. UNCHANGED <<seen, effect>>
    BY <1>4 DEF Decorate
  <2>2. CASE decorators = <<>>
    BY <2>1, <2>2 DEF Runs, InstanceIsReceiver
  <2>3. CASE decorators # <<>>
    <3>1. Len(decorators) \in Nat \ {0}
      BY <2>3, EmptySeq DEF TypeOK
    <3>2. Len(decorators') = Len(decorators) + 1
      BY <1>4, NewDecorator DEF Decorate
    <3>3. Len(decorators)' # 1
      BY <3>1, <3>2
    <3>4. ~IsBound(held)'
      <4>1. /\ Len(held'.layers) = Len(decorators) + 1
            /\ ~held'.layers[Len(decorators) + 1].bound
        BY <1>4, DecorateMakes
      <4>2. QED
        BY <4>1 DEF IsBound, Top
    <3>5. SUFFICES ASSUME DecoratedFirst(held)', effect \notin {None, TypeError},
                          NEW i \in DOMAIN seen
                   PROVE  effect = IF seen[i].instance = None THEN seen[i].args
                                   ELSE <<seen[i].instance>> \o seen[i].args
      BY <2>1, <3>3, <3>4 DEF InstanceIsReceiver
    <3>6. DecoratedFirst(held)
      BY <1>4, <2>3, <3>5, DecorateFirst
    <3>7. QED
      BY <3>5, <3>6 DEF InstanceIsReceiver
  <2>4. QED
    BY <2>2, <2>3
<1>5. CASE Body
  <2>1. phase = "call" /\ UNCHANGED <<held, made, decorators, seen>>
    BY <1>5 DEF Body
  <2>2. effect' = Py!PyCall(held.core, asked.args)
    BY <1>5, <2>1 DEF Body, Calling
  <2>3. held.core.kind = "classmethod" => effect' = TypeError
    BY <2>2 DEF Py!PyCall
  <2>4. ASSUME Len(decorators) = 1 \/ DecoratedFirst(held), effect' # TypeError
        PROVE  \A i \in DOMAIN seen : Faithful(seen[i], effect')
    BY <2>1, <2>2, <2>3, <2>4 DEF Receives
  <2>5. DecoratedFirst(held)' <=> DecoratedFirst(held)
    BY <2>1, DecoratedFrame
  <2>6. QED
    BY <2>1, <2>4, <2>5 DEF InstanceIsReceiver, Faithful
<1>6. QED
  BY <1>1, <1>2, <1>3, <1>4, <1>5
     DEF Next, vars, frame, Access, Ask, Bind, Rebind, Descend, Got, Descriptor, MakeBound, Found,
     Call, Skip, Enter, CallUnbound, CallBound, CallPartial, Toggle

---------------------------------------------------------------------------
(* The theorems *)

LEMMA InitInv ==
  ASSUME Init
  PROVE  IInv
<1>1. TypeOK
  BY InitType
<1>2. decorators = <<>> /\ phase = "idle" /\ seen = <<>> /\ effect = None
  BY DEF Init
<1>3. Len(decorators) = 0 /\ 1..Len(decorators) = {}
  BY <1>2, EmptySeq
<1>4. Parents /\ Lookup /\ Calling /\ Runs /\ Receives
  BY <1>2, <1>3 DEF Parents, Lookup, Calling, Runs, Receives
<1>5. Held
  <2>1. held.layers = <<>> /\ held \in Callables
    BY <1>1 DEF Init, TypeOK
  <2>2. Len(held.layers) = 0 /\ 1..Len(held.layers) = {}
    BY <2>1, EmptySeq
  <2>3. QED
    BY <1>3, <2>1, <2>2 DEF Held, Consistent
<1>6. Alike
  BY <1>2 DEF Alike, First
<1>7. WrappersRunOnce /\ InstanceIsReceiver
  BY <1>2 DEF WrappersRunOnce, InstanceIsReceiver
<1>8. QED
  BY <1>1, <1>4, <1>5, <1>6, <1>7 DEF IInv

LEMMA NextInv ==
  ASSUME IInv, [Next]_vars
  PROVE  IInv'
<1>1. /\ TypeOK /\ Parents /\ Held /\ Lookup /\ Calling /\ Runs /\ Alike /\ Receives
      /\ WrappersRunOnce /\ InstanceIsReceiver
  BY DEF IInv
<1>2. TypeOK'
  BY <1>1, TypeStep
<1>3. Parents'
  BY <1>1, ParentsStep
<1>4. Held' /\ Lookup' /\ Calling'
  BY <1>1, HeldStep, LookupStep, CallingStep
<1>5. Runs' /\ Receives'
  BY <1>1, RunsStep, ReceivesStep
<1>6. Alike'
  BY <1>1, <1>2, <1>3, AlikeStep
<1>7. WrappersRunOnce' /\ InstanceIsReceiver'
  BY <1>1, RunOnceStep, ReceiverStep
<1>8. QED
  BY <1>2, <1>3, <1>4, <1>5, <1>6, <1>7 DEF IInv

(* wrappers.py:739-987, _wrappers.c:4110-4335.  The fields of every wrapper that      *)
(* decorators, lookups and calls make agree with what each decorator wrapped, with    *)
(* the wrappers around it and with the request that is under way.                     *)
THEOREM Invariance == Spec => []IInv
<1>1. Init => IInv
  BY InitInv
<1>2. IInv /\ [Next]_vars => IInv'
  BY NextInv
<1>3. QED
  BY <1>1, <1>2, PTL DEF Spec

(* Whatever is decorated, looked up and called, a callable is a finite stack of       *)
(* wrappers around a core of CPython's, and arguments are instances and others.       *)
THEOREM TypeCorrectness == Spec => []TypeOK
<1>1. IInv => TypeOK
  BY DEF IInv
<1>2. QED
  BY <1>1, Invariance, PTL

(* No binding loses a decorator, none runs twice, and the outermost runs first.       *)
THEOREM RunOnce == Spec => []WrappersRunOnce
<1>1. IInv => WrappersRunOnce
  BY DEF IInv
<1>2. QED
  BY <1>1, Invariance, PTL

(* docs/decorators.rst:629-760.  With one decorator, or with all of them put on       *)
(* first, instance and args in a wrapper function are the call that the body gets.    *)
THEOREM Receivers == Spec => []InstanceIsReceiver
<1>1. IInv => InstanceIsReceiver
  BY DEF IInv
<1>2. QED
  BY <1>1, Invariance, PTL

---------------------------------------------------------------------------
(* The refinement of Attribute *)

LEMMA InitRefines ==
  ASSUME Init
  PROVE  Py!Init
<1>1. PICK kind \in Py!Kinds : held = [layers |-> <<>>, core |-> Py!Raw(kind)]
  BY DEF Init
<1>2. held.core \in {Py!Raw(k) : k \in Py!Kinds} /\ asked = Py!Nothing /\ effect = None
  BY <1>1 DEF Init
<1>3. [kind |-> "function"] \in {Py!Raw(k) : k \in Py!Kinds}
  BY DEF Py!Raw, Py!Kinds
<1>4. Py!Nothing = [op |-> "none", instance |-> None, owner |-> None, args |-> <<>>]
  BY DEF Py!Nothing, Py!Request
<1>5. QED
  BY <1>2, <1>3, <1>4 DEF Py!Init, Promised

(* Every step of a lookup or a call is Attribute's request, its answer, or nothing. *)
LEMMA StepRefines ==
  ASSUME IInv, [Next]_vars
  PROVE  [Py!Next]_<<Promised(held.core, [kind |-> "function"]),
                     Promised(asked, [op |-> "none", instance |-> None, owner |-> None,
                                      args |-> <<>>]),
                     Promised(effect, None)>>
<1>0. inC' = inC
  BY DEF Next, vars, frame, Decorate, Toggle, Access, Ask, Bind, Rebind, Descend, Got, Descriptor,
         MakeBound, Found, Call, Skip, Enter, CallUnbound, CallBound, CallPartial, Body
<1>1. CASE ~inC
  BY <1>0, <1>1 DEF Promised
<1>2. CASE inC
  <2> SUFFICES \/ Py!Next
               \/ UNCHANGED <<held.core, asked, effect>>
    BY <1>0, <1>2 DEF Promised
  <2>1. TypeOK /\ Parents /\ Held /\ Lookup /\ Calling
    BY DEF IInv
  <2>2. ASSUME NEW w \in Wrappers, Decorate(w)
        PROVE  UNCHANGED <<held.core, asked, effect>>
    <3>1. held'.core = held.core
      BY <2>1, <2>2, DecorateMakes
    <3>2. QED
      BY <2>2, <3>1 DEF Decorate, frame
  <2>3. CASE Access \/ Call
    <3>1. PICK r \in Py!Lookups \cup Py!Calls : Ask(r)
      BY <2>3 DEF Access, Call
    <3>2. Py!Ask(r)
      BY <1>0, <1>2, <2>1, <3>1 DEF Ask, Py!Ask, Promised, TypeOK
    <3>3. QED
      BY <3>2 DEF Py!Next
  <2>4. CASE Found
    <3>1. /\ phase = "got" /\ held' = at /\ asked' = Py!Nothing /\ UNCHANGED effect
      BY <2>4 DEF Found, Idle
    <3>2. asked.op = "lookup"
      BY <2>1, <3>1, RequestFacts DEF TypeOK
    <3>3. \/ at.core = Py!PyBind(held.core, asked.instance, asked.owner)
          \/ held.core.kind = "static" /\ at.core = held.core
      BY <1>2, <2>1, <3>1 DEF Lookup
    <3>4. Py!Found
      BY <1>0, <1>2, <3>1, <3>2, <3>3 DEF Py!Found, Promised
    <3>5. QED
      BY <3>4 DEF Py!Next
  <2>5. CASE Body
    <3>1. /\ phase = "call" /\ asked' = Py!Nothing /\ UNCHANGED held
          /\ effect' = Py!PyCall(at.core, args)
      BY <2>5 DEF Body, Idle
    <3>2. asked.op = "call"
      BY <2>1, <3>1, RequestFacts DEF TypeOK
    <3>3. at.core = held.core /\ args = asked.args
      BY <2>1, <3>1 DEF Calling
    <3>4. Py!Called
      BY <1>0, <1>2, <3>1, <3>2, <3>3 DEF Py!Called, Promised
    <3>5. QED
      BY <3>4 DEF Py!Next
  <2>6. CASE UNCHANGED <<held, asked, effect>>
    BY <2>6
  <2>7. QED
    BY <2>2, <2>3, <2>4, <2>5, <2>6
       DEF Next, vars, frame, Toggle, Bind, Rebind, Descend, Got, Descriptor, MakeBound, Skip,
       Enter, CallUnbound, CallBound, CallPartial
<1>3. QED
  BY <1>1, <1>2 DEF TypeOK, IInv

(* With the C extension, each request to a decorated callable, however many           *)
(* decorators are around it and whenever they were put on, ends as CPython's own for  *)
(* the callable without them.                                                         *)
THEOREM Refinement == Spec => ImplementsAttribute
<1>1. Init => Py!Init
  BY InitRefines
<1>2. IInv /\ [Next]_vars
        => [Py!Next]_<<Promised(held.core, [kind |-> "function"]),
                       Promised(asked, [op |-> "none", instance |-> None, owner |-> None,
                                        args |-> <<>>]),
                       Promised(effect, None)>>
  BY StepRefines
<1>3. QED
  BY <1>1, <1>2, Invariance, PTL DEF Spec, ImplementsAttribute, Py!Spec
=============================================================================
