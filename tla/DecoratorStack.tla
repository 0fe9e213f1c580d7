--------------------------- MODULE DecoratorStack ---------------------------
(***************************************************************************)
(* What a stack of decorators says about its calling convention: the       *)
(* markers and bridges of src/src/wrapt/synchronization.py and the adapters*)
(* of src/src/wrapt/decorators.py, on the wrappers of FunctionBinding.  A  *)
(* marker changes __code__.co_flags, and in a bound wrapper those of       *)
(* __func__; inspect asks the one or the other by the class of what is     *)
(* wrapped inside; synchronized() walks down the wrappers.  An attribute   *)
(* that a wrapper has not got is looked for in what it wraps, in a bound   *)
(* wrapper first in its parent.                                            *)
(***************************************************************************)
EXTENDS FunctionBinding, SequencesExt

(* The bits of co_flags that make a convention, and the raw functions: def,  *)
(* def with yield, async def, async def with yield, and types.coroutine.     *)
Flavours == {{}, {"GENERATOR"}, {"COROUTINE"}, {"ASYNC_GENERATOR"},
             {"GENERATOR", "ITERABLE_COROUTINE"}}

Convention == UNION Flavours

(* What a decorator declares: nothing, the convention of an adapter function *)
(* (a plain def), or a mark with its generator argument.                     *)
Silent == [to |-> "none", generator |-> "auto"]
Adapter == [to |-> "adapter", generator |-> "auto"]
Marks == [to : {"sync", "async"}, generator : {"yes", "no", "auto"}] \cup {Silent, Adapter}

(* The bridges mark what they make. *)
ToSync == [to |-> "sync", generator |-> "auto"]
ToAsync == [to |-> "async", generator |-> "auto"]

---------------------------------------------------------------------------
(* co_flags *)

(* Mutant: the generator bit is copied, an async generator's is not turned. *)
SyncFlagsCopied(flags, generator) ==
  (flags \ Convention) \cup
    (IF generator = "yes" \/ (generator = "auto" /\ "GENERATOR" \in flags)
     THEN {"GENERATOR"} ELSE {})

SyncFlags(flags, generator) ==
  (flags \ Convention) \cup
    (IF \/ generator = "yes"
        \/ generator = "auto" /\ flags \cap {"GENERATOR", "ASYNC_GENERATOR"} # {}
     THEN {"GENERATOR"} ELSE {})

AsyncFlags(flags, generator) ==
  (flags \ Convention) \cup
    (IF \/ generator = "yes"
        \/ generator = "auto" /\ flags \cap {"GENERATOR", "ASYNC_GENERATOR"} # {}
     THEN {"ASYNC_GENERATOR"} ELSE {"COROUTINE"})

(* A property that asks a missing attribute is missing itself. *)
Marked(mark, flags) ==
  CASE flags = None -> None
    [] flags # None /\ mark.to = "sync" -> SyncFlags(flags, mark.generator)
    [] flags # None /\ mark.to = "async" -> AsyncFlags(flags, mark.generator)
    [] flags # None /\ mark.to = "adapter" -> {}
    [] OTHER -> flags

Or(found, otherwise) == IF found = None THEN otherwise ELSE found

---------------------------------------------------------------------------
(* Attributes of a stack, for the marks of its decorators and the raw       *)
(* function's flavour                                                       *)

KindOf(o) == IF IsWrapper(o) THEN "wrapper" ELSE o.core.kind
Function(method) == [layers |-> <<>>, core |-> method.core.wrapped]

(* isinstance goes by __class__, which is that of the object inside. *)
ClassOfStack(o) == IF o.core.kind = "static" THEN "function" ELSE o.core.kind

(* o.__code__.co_flags *)
RECURSIVE CodeFlags(_, _, _)
CodeFlags(o, marks, flavour) ==
  CASE IsBound(o) -> Or(CodeFlags(Parent(o), marks, flavour), CodeFlags(Wrapped(o), marks, flavour))
    [] IsWrapper(o) /\ ~IsBound(o) ->
         Marked(marks[Top(o).wrapper], CodeFlags(Wrapped(o), marks, flavour))
    [] KindOf(o) = "method" -> CodeFlags(Function(o), marks, flavour)
    [] KindOf(o) \in {"function", "static"} -> flavour
    [] OTHER -> None

(* Mutant: bound wrappers have no __func__ of their own. *)
RECURSIVE FuncFlagsInside(_, _, _)
FuncFlagsInside(o, marks, flavour) ==
  CASE IsWrapper(o) -> FuncFlagsInside(Wrapped(o), marks, flavour)
    [] KindOf(o) = "method" -> CodeFlags(Function(o), marks, flavour)
    [] KindOf(o) \in {"classmethod", "staticmethod"} -> flavour
    [] OTHER -> None

(* o.__func__.__code__.co_flags: the surrogate of a bound marker *)
RECURSIVE FuncFlags(_, _, _)
FuncFlags(o, marks, flavour) ==
  LET own == IF marks[Top(o).wrapper] = Silent THEN None
             ELSE Marked(marks[Top(o).wrapper], FuncFlags(Wrapped(o), marks, flavour))
  IN CASE IsBound(o) -> Or(own, Or(FuncFlags(Parent(o), marks, flavour),
                                   FuncFlags(Wrapped(o), marks, flavour)))
       [] IsWrapper(o) /\ ~IsBound(o) -> FuncFlags(Wrapped(o), marks, flavour)
       [] KindOf(o) = "method" -> CodeFlags(Function(o), marks, flavour)
       [] KindOf(o) \in {"classmethod", "staticmethod"} -> flavour
       [] OTHER -> None

(* inspect.iscoroutinefunction, isasyncgenfunction and isgeneratorfunction *)
Reported(o, marks, flavour) ==
  CASE ClassOfStack(o) = "method" -> Or(FuncFlags(o, marks, flavour), {})
    [] ClassOfStack(o) = "function" -> Or(CodeFlags(o, marks, flavour), {})
    [] OTHER -> {}

(* getattr(target, "_self_is_not_coroutine", False) *)
RECURSIVE IsNotCoroutine(_, _)
IsNotCoroutine(o, marks) ==
  /\ IsWrapper(o)
  /\ \/ marks[Top(o).wrapper].to = "sync"
     \/ IsNotCoroutine(Wrapped(o), marks)
     \/ IsBound(o) /\ IsNotCoroutine(Parent(o), marks)

(* Mutant: what a sync marker says is not asked. *)
RECURSIVE AnyLayerIsAsync(_, _, _)
AnyLayerIsAsync(o, marks, flavour) ==
  \/ "COROUTINE" \in Reported(o, marks, flavour)
  \/ IsWrapper(o) /\ AnyLayerIsAsync(Wrapped(o), marks, flavour)
  \/ KindOf(o) \in {"classmethod", "staticmethod"} /\ "COROUTINE" \in flavour

(* _synchronized_is_async_callable: what has the class of a class method or  *)
(* a static method, wrappers around one included, is passed by.              *)
RECURSIVE IsAsyncCallable(_, _, _)
IsAsyncCallable(o, marks, flavour) ==
  CASE ClassOfStack(o) \in {"classmethod", "staticmethod"} ->
         IF IsWrapper(o) THEN IsAsyncCallable(Wrapped(o), marks, flavour)
                         ELSE "COROUTINE" \in flavour
    [] OTHER ->
         /\ ~IsNotCoroutine(o, marks)
         /\ \/ "COROUTINE" \in Reported(o, marks, flavour)
            \/ IsWrapper(o) /\ IsAsyncCallable(Wrapped(o), marks, flavour)

-----------------------------------------------------------------------------
(* The four kinds of callable, as docs/bundled.rst:496-521 has them. *)
Kind(flags) ==
  CASE "COROUTINE" \in flags -> "coroutine function"
    [] "ASYNC_GENERATOR" \in flags -> "async generator"
    [] flags \cap {"COROUTINE", "ASYNC_GENERATOR"} = {} /\ "GENERATOR" \in flags -> "generator"
    [] OTHER -> "function"

Declared(mark, kind) ==
  LET yields == \/ mark.generator = "yes"
                \/ mark.generator = "auto" /\ kind \in {"generator", "async generator"}
  IN CASE mark.to = "none" -> kind
       [] mark.to = "adapter" -> "function"
       [] mark.to = "sync" -> IF yields THEN "generator" ELSE "function"
       [] mark.to = "async" -> IF yields THEN "async generator" ELSE "coroutine function"

RECURSIVE DeclaredKind(_, _, _)
DeclaredKind(ds, marks, flavour) ==
  IF ds = <<>> THEN Kind(flavour)
  ELSE Declared(marks[ds[Len(ds)]], DeclaredKind(Front(ds), marks, flavour))

(* Decorators on a function, put on before lookups bound it.  The reports do not
   depend on calls, so one state of each stack is enough. *)
Inspected(o) ==
  /\ phase = "idle" /\ effect = None
  /\ IsWrapper(o) /\ Top(o).binding = "function" /\ DecoratedFirst(o)
  /\ \A w \in Wrappers : enabled[w]

(* Markings of the decorators in use. *)
Markings(marks) ==
  {m \in [Wrappers -> marks] : \A w \in Wrappers \ Range(decorators) : m[w] = Silent}

(* docs/bundled.rst:457-459, 496-521.  What inspect says of a decorated function is
   what the outermost marker makes of what the stack below is, found through the
   class, through an instance, or moved to another class, and other decorators on it
   or below change nothing. *)
ReportsOutermost ==
  Inspected(held) =>
    \A marks \in Markings(Marks), flavour \in Flavours :
      Kind(Reported(held, marks, flavour)) = DeclaredKind(decorators, marks, flavour)

(* The outermost of the decorators that mark, Silent when none does. *)
Outermost(marks) ==
  LET marking == SelectSeq(decorators, LAMBDA w : marks[w].to \in {"sync", "async"})
  IN IF marking = <<>> THEN Silent ELSE marks[marking[Len(marking)]]

(* synchronized() takes a decorated function for synchronous when its outermost mark
   says so, whatever is below; for a coroutine function when inspect does and nothing
   below was marked synchronous; and without marks goes by the function. *)
SynchronizedSeesMarker ==
  Inspected(held) =>
    \A marks \in Markings(Marks \ {Adapter}), flavour \in Flavours :
      LET async == IsAsyncCallable(held, marks, flavour)
          below == {marks[w].to : w \in Range(decorators)}
      IN /\ Outermost(marks).to = "sync" => ~async
         /\ /\ Outermost(marks).to = "async" /\ "sync" \notin below
            /\ "COROUTINE" \in Reported(held, marks, flavour)
            => async
         /\ Outermost(marks) = Silent => (async <=> "COROUTINE" \in flavour)

(* docs/bundled.rst:581-598.  A stack that ends in async_to_sync is called without
   awaiting, one that ends in sync_to_async is awaited, and synchronized() on top
   finds out which, with no other marker, for functions, class and static methods. *)
BridgesUnderSynchronized ==
  IsWrapper(held) /\ phase = "idle" /\ held = made[Top(held).wrapper] =>
    \A marks \in Markings({Silent, ToSync, ToAsync}), flavour \in {{}, {"COROUTINE"}} :
      Outermost(marks) # Silent
        /\ ClassOfStack(held) \in {"function", "classmethod", "staticmethod"} =>
           (IsAsyncCallable(held, marks, flavour) <=> Outermost(marks) = ToAsync)
=============================================================================
