# Verification of wrapt

TLA+ models of the stateful parts of wrapt (`src/src/wrapt/`), checked with TLC
on small instances, and proofs with TLAPS of what holds for every instance.
Line numbers below are those of the commit this directory sits beside.

## The system

wrapt is a Python package with a C extension. Everything is built on the object
proxy, an object that stands for another one, and on the function wrapper, a
proxy that is called in place of a function. It exists twice: `_wrappers.c`
(used when it can be built) and `wrappers.py`; `__wrapt__.py` picks one when the
package is imported.

| part | source | state | operations |
| --- | --- | --- | --- |
| object proxy, C | `_wrappers.c` 9–3660 | `wrapped`, `init_called`, instance dict, reference counts | get and set `__wrapped__`, `__init__`, delegated, binary and in-place operators, deallocation |
| object proxy, Python | `wrappers.py` 164–680 | `__wrapped__` and copies of `__qualname__`, `__annotations__` in the instance dict | the same |
| `AutoObjectProxy` | `proxies.py` 89–237 | methods of the proxy's own class | creation, `__wrapped_setattr_fixups__` at every assignment |
| `LazyObjectProxy`, `lazy_import` | `proxies.py` 240–370 | `__wrapped__`, `__wrapped_get_called__`, the lock of its class | first use calls the factory under the lock |
| function wrappers | `wrappers.py` 680–1120, `_wrappers.c` 3660–5090 | instance, wrapper, enabled, binding, parent, owner | call, bind, rebind, `__init__` again |
| `synchronized` | `synchronization.py` 305–475 | a lock attribute per context, one meta lock, `_self_lock` on the wrapper | decorated call, `with`, `async with` |
| convention markers, bridges | `synchronization.py` 32–300 | none | `co_flags` and `_self_is_not_coroutine`, seen through chains of wrappers |
| post import hooks | `importer.py` | hook lists, `in_progress`, `sys.modules` | register, find, load and notify |
| monkey patching | `patches.py` | attributes of the patched object | wrap, wrap after import, transient wrap |
| `lru_cache` | `caching.py` | one cache per wrapper or instance | first call creates it, clear, info |
| `WeakFunctionProxy` | `weakrefs.py` | two weak references, an expired flag | call, expiry, callback |
| decorator factories | `decorators.py` | none | `decorator`, adapters |
| signatures | `signature.py`, `arguments.py` | caches of derived attributes | construction |

How they interact. A lazy proxy locks with `synchronized(type(self))`, so its
first use runs `synchronized`'s creation of a lock under the meta lock and then
holds that lock across a callback. `lru_cache` creates its caches under
`synchronized` too. The import hooks' loader is a proxy, hooks are called from
inside the import system, and the patching functions register hooks for modules
not imported yet. All of them share proxies between threads; the C extension
declares itself safe without the GIL (`docs/issues.rst`, "Multithreading and
free threaded Python").

What is hard, part by part:

* proxy (C): a field is replaced while other threads work on what it held;
  references must be released exactly once on every path, error returns included.
* lazy proxy: competing first uses, factories that raise, assign to the proxy or
  use it, and two implementations with a different lookup.
* `synchronized`: competing creation of the lock, re-entry, a lock kept on a
  shared wrapper between `__enter__` and `__exit__`, coroutines that interleave
  on one thread, cancellation.
* `AutoObjectProxy`: an assignment changes the proxy's class one method at a time,
  from a snapshot, and nothing excludes another assignment, in-place operator or use.
* function wrappers: nested decorators, looked up, stored elsewhere and called.
* markers: each reader (`inspect`, `synchronized`) takes its own path through a
  stack of wrappers.
* import hooks: three locks (importlib's import and module locks and the hooks'),
  a lookup that re-enters itself, failing imports and hooks, retries and unloads.
* patches: a read and a write of a class attribute with other patches in between,
  inheritance, and transient patches that overlap.
* `lru_cache`: competing first calls, calls between methods of one name, copies of
  instances and proxies around them.

What makes each correct is stated by the properties of its module, below.

## Modules

### ObjectProxy (with PyReferences, AtomicProxies)

`PyReferences` is reference counting: `slot` maps each place that owns a
reference to what it holds, `refs` is `ob_refcnt`; nothing ties the two together
but the code. `ObjectProxy` is the C functions, step by step, for threads of a
free-threaded interpreter. One atomic step is what the code puts in a critical
section (`wrapt_acquire_wrapped`, the pointer swap in the setter and in
`raw_init`); the NULL test at the head of each function, the work done on the
object and each decrement are steps of their own. A thread is the caller with
one reference of its own (`user`) plus the locals of the C function it runs.
`op[t].kind` selects the function's shape:

| kind | stands for | path |
| --- | --- | --- |
| delegate | `repr`, `len`, `getattr`, ... | testLeft, takeLeft, use, dropLeft |
| get | reading `__wrapped__` | testLeft, takeLeft |
| set | assigning it | takeNew, swap, dropOld, then a delegate for the fixups lookup |
| init | `__init__`, first or repeated | takeNew, swap, dropOld, mark |
| binary | `p + q`, either operand a proxy | testLeft, takeLeft, testRight, takeRight, use, dropLeft, dropRight, or abandon |
| inplace | `p += q` | testLeft, testRight, takeRight, takeLeft, use, dropLeft, dropRight, swap, dropOld |

Finalizers and other Python code that a step may run do what another thread
could do there, since no lock is held while they run.

`AtomicProxies` is the promise: a register per proxy. `ImplementsRegister` is the
refinement: an assignment takes effect once, with its own value, at the swap; a
read returns the value of one instant; delegated operations change nothing.

### FunctionBinding (with Attribute)

`Attribute` says what CPython makes of a callable that is an attribute of a class. It is
an interface: a lookup or a call is asked for (`Ask`), and answered later; `Found` binds
the callable or not, depending on its kind, and with `Called` the body gets certain
arguments.

`FunctionBinding` is `FunctionWrapper` and `BoundFunctionWrapper` between request and
answer. A callable is a core of CPython's (a function, a method, a class method, ...) and
the sequence of the wrappers around it, each the record of its fields. `made` is what each
decorator has made: the parents of the bound wrappers. A lookup runs in phase `get` from the
outermost wrapper inwards (`Bind` and `Rebind`, the two halves of `__get__`; the wrappers
it comes through are `waiting`) to the core (`Descriptor`), and in phase `got` back
outwards (`MakeBound`), once per `BoundFunctionWrapper` constructed. A call goes
inwards wrapper by wrapper (`CallUnbound`, `CallBound`, `Skip` for a disabled one,
`CallPartial` where the arguments pass through a `PartialCallableObjectProxy`) to the
`Body`. `BindingOf` is the constructor's classification. The field `self` is not one of
the code's: it records what looking up `__self__` finds when the wrapper is made, through
the parent first, in objects that never change. `inC`, which never changes, chooses the
implementation; the C and the Python version differ in one operator, `HasGet`.

The program decorates the callable in hand, stores it in a class and finds it through
the class or an instance (`Access`), calls it (`Call`) and switches decorators on and off
(also while a lookup or a call is under way), in any order. `ImplementsAttribute` is
a refinement: with the C extension, the core of the callable in hand is exactly the
undecorated callable, with the same lookups and call arguments. One liberty is granted to it in
`Attribute`: a static method that was found in one class and is stored in another stays
static when it is decorated, where CPython binds the undecorated one (confirmed by
running both; the comment at `wrappers.py:813-814`, "This mirrors what Python does", does
not hold there). The pure Python implementation does not keep this promise (see "Noted
while reading"); `WrappersRunOnce` and `InstanceIsReceiver` hold for both.

A wrapper function notes what it is given and ends in `wrapped(*args)`. With two
decorators on a callable that lookups do not bind (an object without `__get__`, a method
taken from an instance), or a decorator around what was bound through another one, the
outer wrapper function is told the instance that was used for the lookup though the body
does not get it; `InstanceIsReceiver` leaves these cases out, and `WrappersRunOnce` and
`ImplementsAttribute` do not. A decorator inside `classmethod` is not modelled (its
meaning changed twice between CPython 3.9 and 3.13, `docs/decorators.rst:717-735`).

### DecoratorStack

On top of `FunctionBinding`: what a stack of decorators reports of its calling
convention. `SyncFlags` and `AsyncFlags` are the `co_flags` that a marker makes of
those below; `CodeFlags` and `FuncFlags` are the lookups of `__code__` and of
`__func__.__code__` through unbound and bound wrappers, with their fall through to the
parent and the wrapped object; `Reported` is what `inspect` concludes, `IsAsyncCallable`
how `synchronized` decides between its two locks. The module has no variables of its
own: its properties are evaluated in the states of `FunctionBinding`, so on every stack
that a program gets by decorating, looking up and storing, for every assignment of
marks to its decorators and every kind of function. The promise is `DeclaredKind`, the
table of `docs/bundled.rst:496-521` applied from the inside to the outside.

### LazyProxy

One lazy proxy, threads with nested operations (frame `<<t, d>>`: depth d is
reached from the factory of depth d-1). `inC`, which never changes, chooses the lookup: Python's
`__getattr__` returns what `__wrapped_get__` returned; the C extension's
`raise_uninitialized_wrapper_error` assigns it to `__wrapped__` once more after
the lock has been released (`LateSet`). The lock is the RLock of
`synchronized(type(self))`; `SynchronizedLock` shows that it is one lock.

### ProxyAttributes

One `AutoObjectProxy` of the Python implementation and what it keeps besides
`__wrapped__`: `added`, the special methods put into the proxy's class, and `mirror`,
the copy of the wrapped object's `__qualname__`. `Assign` to `Assigned` are
`ObjectProxy.__setattr__` of `__wrapped__` with `__wrapped_setattr_fixups__`, one step
per access that another thread can see: `__wrapped__`, the snapshot of the class's
methods, `hasattr` per method, `setattr`, `delattr`. `Inplace`, `HasOperator` and
`Compute` are `+=` and its like: `Sum[o]` are the objects that the operator of o may
return, itself or others (`tests/stress/stress_inplace_ops.py` has one that returns a new
one each time), and it may raise. `SetName` and `DelName` with their second steps change
the name; `Use`, `Find` and `Delegate` use an optional method. The variables `alone`,
`clean` and `ever` are history: which changes have overlapped, and what has been wrapped.
So are `operand`, what an operator that is about to assign was applied to, and `outrun`,
the operators that an assignment came in between: with the test and the second read of
`__wrapped__` apart (`wrappers.py:514-515`), that assignment may be undone, or its object
replaced although it has no such operator. `InplaceKeeps` is about all others.

### SynchronizedLock

Frames of threads and tasks on contexts. `Look`, `EnterMeta`, `LookAgain`,
`Create`, `LeaveMeta` are `_synchronized_lock` and `_synchronized_async_lock`;
`Keep` is the assignment of `_self_lock` in `__enter__`; `Release` of a `with`
reads that attribute again. Tasks run only while they have the event loop and
give it up where they await. A `Frozen` context refuses the attribute: `setattr`
raises inside the meta lock.

### ImportHooks

importer.py on top of importlib. `keys` and `hooks` are `_post_import_hooks`;
`modules[n]` is n's state in `sys.modules` (absent, partial while its body runs,
executed, loaded once the import has returned). importlib's module lock
(`owner`), its import lock (`importLock`, held while it asks a finder) and its
order of steps are external and modelled from how importer.py depends on them.
A hook may start a thread that registers another hook and wait for it
(`FireAndWait`, `Join`), which is why the code calls hooks outside its lock. The
model has one search step for all other finders, and `find_module`, which the
supported Python versions no longer call, is left out.

### AttributePatches

One attribute of a class, of a class that inherits it and of an instance. `own[p]` is
what `p.__dict__` holds, as the wrappers around the original function. `Lookup` is
`resolve_path`, `Write` the `setattr` of `wrap_object`; `Restore` the `finally` clause of
`transient_function_wrapper`, and between its `Write` and it anything may happen, other
patches and transient calls (frame `<<t, d+1>>`) included. `Test` and `Register` are
the "name?" form, which waits for an import; the import is `ImportHooks` reduced to what
patches depend on. `since`, `seen`, `excused` and `lingering` are history: they mark the
patches that the code undoes (`excused`) or brings back (`lingering`) because something
looked the attribute up before and assigned it after, and the properties are about all
others: `PatchesStay` about permanent patches and about transient ones during their call,
whatever nests in it, `TransientsGo` about transient ones after it. `early` are the
deferred patches that must arrive: all but those registered while the body of the module
runs, or between a finder that saw no hook and the body, which is the gap that
import_hooks_missed shows.

### CachedMethods

`cacheAt` says which cache an instance's attribute or a wrapper holds, `made` whose
bound method each cache calls. `Look` to `Leave` are `__call__` with the check, lock
and check again of `_create_cache`; `Call` of an inner frame is a cached method that
calls another one (an override its base). `address` is the `id` of a wrapper, which names
the attribute: `Redefine` lets a wrapper go and a new one get its address. `Copy` is
`copy.copy` of an instance, `Around` a proxy around one. What a cache remembers
is `functools`: a call runs the body or returns a result of the body that the cache was
created for.

Each module's mutants are its definitions with a plausible bug put in; each
property is violated when one of them replaces the definition it varies.

## Runs

| run | what it asks | instance | result |
| --- | --- | --- | --- |
| object_proxy | counts, dangling, leaks, NULL, emptied proxies, refinement of AtomicProxies | 2 threads, 2 proxies, 3 objects, in-place results new or the left operand; 2.9 M states | holds |
| binding | the body is called as without decorators, each decorator runs once and is told the receiver; what a stack reports | 2 classes with an instance each, 7 kinds of callables, 2 decorators with all marks, up to 2 arguments; 1.9 M states | holds |
| lazy | exclusion, one object, recorded is set, reads of the Python lookup never write, every use ends | 3 threads, depth 2, both lookups, factory and fixups raise; 36 k states | holds |
| lazy_late_set | reads never write, C lookup | 2 threads | violated |
| synchronized_lock | exclusion, one lock, own release | 3 threads with nested calls, 1 task; 43 k states | holds |
| synchronized_tasks | exclusion of coroutines, every call ends | 2 tasks, 1 thread with nested calls, a frozen context; 96 k states | holds |
| import_hooks | no hook waits for a loaded module, none called twice, wrapped loads leave none, all ends | 2 threads, 2 modules, 3 hooks, 1 failure, 1 unload, registrations during an import for one module; 791 k states | holds |
| import_hooks_missed | no hook waits, registrations at any time | 2 threads, 1 module, 1 hook | violated |
| proxy_attributes | overlapping assignments are repaired, no use fails in between, an in-place operator replaces what it was applied to | 2 threads, 4 objects, two of them with in-place operators that return the same or another object or raise, 3 optional methods, one of them the class's own; 5.7 M states | holds |
| patches | permanent patches stay, transient ones last as long as their calls, deferred ones land | 2 threads, depth 2, 3 permanent and 2 transient patches on a class, a subclass, an instance; 4.0 M states | holds |
| cached_methods | a result is of the method and the receiver that were called, one cache | 2 threads, depth 2, 3 calls, 2 methods of one name and a third one later, a class method; an instance, two copies, one possibly of the other, a proxy, the class; 4.6 M states (with the copies symmetric) | holds |
| decorator_bridges | `synchronized` finds out what a bridge made | as binding | violated |

Why the bounds are enough. A race on a field needs two writers, or a writer and a user
whose object is replaced; three objects give the old value, the new value and a
bystander that reuses freed storage, and two proxies let each be the other's operand.
`ObjectProxy` lets an in-place operator return any object, and the theorems hold for
that; the run's `NewOrLeft` bounds it to a new one or the left operand, as the state
space is two thirds larger with the right one too. Competing first uses need two
threads; the third one arrives after a failure. Nesting beyond depth 2 repeats what
depth 2 does. One failing import plus one unload gives three imports of a module.
`Locks` has one more lock than the instance should create, so that creating two is
possible. An instance of an unrelated class shows a lookup or an argument that does not
fit, and the second decorator is the one that has to look through the first. Optional
methods are handled one after the other in the same way, so that two that change, one of
which the objects disagree about while another agrees, and one of the class's own show
all of it. A patch that is overwritten needs two threads, and a third permanent patch
shows what lies between two others. A call of a cached method that sees another one's
cache needs two methods of one name and a call of one from the other. Deadlock is
checked except where a program may come to its end: in `AttributePatches`, where every
patch has been used, in `CachedMethods`, where `MaxCalls` have been made, and in
`decorator_bridges`, whose property is about states.

Fairness. Liveness assumes that threads (and the event loop) are scheduled, that
callbacks end, and that a lock that is free again and again is eventually given
to a given waiter (strong fairness of the steps that acquire one): CPython's
locks wake waiters but do not queue them, and only a stream of other calls that
never pauses could starve one. In `LazyProxy` a factory ends however often it
uses the proxy first.

### What the violated runs show

* lazy_late_set: with the C extension a thread that only reads a lazy proxy can
  overwrite what another thread has assigned to `__wrapped__` since: the
  reader's late assignment (`_wrappers.c:375`) is of a stale object. The pure
  Python lookup does not write; `PythonReadsNeverWrite` shows that in the run `lazy`
  and is proved.
* import_hooks_missed: a hook registered after the finder looked for hooks and
  before the module is in `sys.modules` is recorded and never called for that
  import, which contradicts the docstring of `register_post_import_hook`. With no
  registration during an import it holds (`QuietHooksRun`).
* decorator_bridges: `docs/bundled.rst:581-583` says that a bridge can be stacked
  directly under `@synchronized` with no marker. A wrapper around a class method or static
  method reports their class, so `_synchronized_is_async_callable`
  (`synchronization.py:267`) passes the bridge by and goes by what is inside: over
  `@async_to_sync @classmethod` of an `async def` the result of a synchronous call
  is awaited, and over `@sync_to_async` the thread lock is released before the
  work begins. Both were confirmed by running them.

### Noted while reading

What the properties leave out, or what is not the subject of a run. Those marked (r)
were reproduced by running the code.

Proxies
* The second check in `__wrapped_get__` (`proxies.py:337`) is of
  `__wrapped_get_called__`, not of `__wrapped__` as its comment says, so what was
  assigned while a use waited for the lock is replaced by the factory's object.
* When the fixups of `__wrapped__` may raise, or the factory uses its own proxy, two
  factory calls can succeed: the variable `again` of `LazyProxy`.
* `AutoObjectProxy.__new__` goes by `dir(wrapped)` and the fixups by `hasattr`. Calling
  `__init__` again leaves the mirrored name, and a name that changes behind the proxy
  is not seen. An in-place operator on an immutable object gives a plain `ObjectProxy`.
* `raw_init` sets `init_called` before it copies `__module__` and `__doc__`
  (`_wrappers.c:542-581`), so that a proxy whose `__init__` raised there is set up.

Function wrappers
* A bound method that is wrapped and stored in a class is bound again by the pure Python
  implementation only: `__get__` (`wrappers.py:791`) asks for the attribute `__get__`,
  which for a method is the one of its function (r).
* With two decorators on a callable that lookups do not bind, the outer wrapper function
  takes the instance of the lookup for the receiver (`_wrappers.c:4294`).
* The docstring of `decorator` says that `enabled` is evaluated when a bound wrapper is
  bound; it is evaluated at the call. With `enabled=False`, `bind_state_to_wrapper` fails
  on `__self_setattr__` (r).
* The callback of a weak proxy of a bound method may run twice when instance and
  function expire in two threads; a weak proxy of a decorated plain function raises
  `TypeError` when called (r).

Markers
* `mark_as_async` is not transparent: its wrapper is an `async def` that returns
  `wrapped(...)` without awaiting it (`synchronization.py:212`). Over a `def` that returns
  a coroutine, `await f()` gives that coroutine (r), although `docs/bundled.rst:482-491`
  shows this use; under `synchronized` the body runs outside the lock.
* A marker over a static method, one applied to a bound method, and one with a plain
  decorator around it over a class method are not seen by `inspect` (r); this is why
  `Inspected` is about functions that are decorated before lookups bind them.
* `mark_as_async` above `mark_as_sync`: `inspect` says coroutine function, `synchronized`
  takes the thread lock (r); `SynchronizedSeesMarker` excludes it.
* `with_signature` over `with_signature` falls through to the inner one's cached values.

`synchronized`, hooks, patches, caches
* `copy.copy` of an instance that has been used copies its lock
  (`synchronization.py:388`), so that the two exclude each other.
* A hook registered while another thread executes the module is called at once, on a
  module whose body has not run (`importer.py:76`). The comment at `importer.py:14` says
  that the list of a loaded module is left in the dictionary as a flag, while
  `notify_module_loaded` pops it. A hook that raises makes its successors
  unreachable, since they have been popped already.
* A patch made while a transient patch of the same attribute is in force is gone when
  that ends, and overlapping calls that do not nest may leave one behind; on an
  inherited attribute a transient patch leaves an own copy in the subclass.
  `wrap_object_attribute` on an attribute that is wrapped already replaces the first
  wrapper (`patches.py:104-148`).
* The attribute of a cache is named after `id(wrapper)`, called a stable discriminator at
  `caching.py:159-162`: a new wrapper at the address of one that is gone finds its
  results (r). A proxy around an instance of the same class returns the instance's
  results, a copy the original's (r). On a class method there is one cache, bound to the
  class that called first (r), where `caching.py:17-19` says one per instance or
  class. These are the exceptions in `ResultIsOwn`. For copies and proxies they also
  contradict `docs/bundled.rst:74` ("each instance maintains its own independent cache")
  and 85-86 ("Each instance has its own `maxsize` budget, so caching on one instance does
  not affect another"): what is called through a copy or a proxy uses and fills the cache
  of the original.

## Proofs

All theorems hold for every value of the constants that satisfies the named
assumptions of the module.

* `ObjectProxyProofs`: first what the operations of `PyReferences` (acquiring, releasing and
  exchanging references) do to the agreement of counts and slots, by cardinality of
  finite sets. Then `IInv` is inductive. It says, for each place in a C
  function, which kind of operation can be there (`Flow`), which locals it owns
  (`Owned`) and which earlier tests still hold (`Tested`: in particular that a
  field found set is still set at the load, because a swap never stores NULL and
  a proxy in use is not deallocated). From it: `TypeCorrectness`,
  `CountsCorrect`, `MemorySafety`, `NoLeak`, `NoNullUse`, `InitComplete`. The
  counts alone are not inductive: that a release does not drop somebody else's
  reference needs `Owned`. `NeverEmptied` is about steps: a swap stores what its
  frame holds, which is not NULL. `Refinement` takes the refinement mapping
  (`AbstractStage`, `Fields`, `Hands`) through each action: a swap, a load and the
  end of a call are the steps of `AtomicProxies`, everything else a stutter; `Tested`
  is what makes the load return the value of one instant. Assumed:
  `ConstantsDistinct`, `ConstantsFinite`.
* `LazyProxyProofs`: frames inside the lock are exactly its holders, all of one
  thread, and nothing is recorded before an object is in place. From it
  `FactoryRunsAlone`, `RecordedIsThere` and `PythonReadsNeverWrite`. For
  `OneObjectIsMade` the invariant has two more parts: a frame is in use only while the
  frame below it calls the factory (`Nested`), and, while `again` is false, an object
  that has been made is recorded, or a frame is about to record it, and nobody is in
  the factory any more (`OneMade`).
* `SynchronizedLockProofs`: an attribute is assigned only by the one frame in the
  meta lock that found it missing, so a lock once seen stays the context's; with
  it `LockIsUnique`, `Exclusion` and `ReleaseIsOwn`.
* `ImportHooksProofs`: `Flow` ties each thread's place to the state of its module and
  to the locks it has (`ModuleOwned`, `PartialOwned`, `FinderLocked`); `KeysRight` says
  when a module with waiting hooks can be under way at all (`QuietImport` before the
  loader, `Notified` after it); `OnePlace` is `HookInOnePlace` without counting. From
  them `QuietHooksAreRun`, `ChainedImportsFire`, and, by the cardinality of
  singletons, `HooksInOnePlace`. That hooks cannot be added once the notification has
  taken them out needs that the module is executed then and stays the thread's own.
* `ProxyAttributesProofs`: `Kept(m)` says, for a method that everything wrapped has,
  that the proxy's class has it and that no thread's fixups are about to take it out,
  although each works from a snapshot and reads `__wrapped__` anew for every method;
  `Uncut` says that an operator no assignment has come in between would pass its test
  again, and that what it is about to replace is what it was applied to. `Flow` is what
  the steps of one assignment hand on. From it `TypeCorrectness`, `UsesAreAnswered` and
  `InplaceKeepsObject`. `AloneRepairs` rests on a second invariant, `Sync`, proved with
  the first: a change marked alone is the only one (`Sole`), the methods it has visited
  are right and the others as its snapshot has them (`Repairs`), and a proxy that is in
  order is kept so by changes that do not overlap (`Orderly`). Assumed:
  `AttributesAssumption`.
* `CachedMethodsProofs`: lookups are taken as functions of the caches and the addresses
  (`SeenIn`), about which `PlacesDiffer` and `CreationSeen` say that creating a cache
  where nothing was seen changes only what uses of the same wrapper see that saw nothing
  either. `LockHeld` leaves no other such use, so what was found missing under the lock
  is missing when the cache is stored (`StillMissing`), and `OneCacheForAll` follows.
  `ResultsAreOwn` has a second invariant, `Owns`: a cache in a place was made for the
  wrapper that has the place's address, unless one that is gone had it before, and for
  the instance that it is kept on or one that this was copied from. Its assumption that
  no proxy is around an instance that does not exist yet is in `CachedAssumption`.
* `AttributePatchesProofs`: a patch is asked for once, so that it is with one frame, or
  waits for the import, or is on its class (`Places`). What a frame has found and will
  assign is as good as what is on the class: a patch that is in force, for ever or
  during its call, is in both, once (`Landed`), one that has not been made is in neither
  (`Unseen`), and a transient one is there only during its call, or known to the frame
  that will put it back (`Passing`), unless the history variables say so. `Kept` follows
  a deferred patch from its registration through the import and the hooks to its class.
  From these `PatchesAreKept`, `TransientsAreGone` and `DeferredPatchesLand`. That a
  lookup finds the class itself before its bases is `LookupFinds`, which needs that a
  set of numbers has a least member; `MinExists` gets it from the well-foundedness of
  strict inclusion of finite sets, as induction cannot be used here. Assumed:
  `PatchesAssumption` (an order of bases begins with its class and has one that defines
  the attribute; the mark for a missing attribute is not a list of wrappers).

* `FunctionBindingProofs`, for any number of decorators, classes and instances. `Consistent`
  says of a callable that its i-th wrapper is of the i-th decorator, has the binding of the
  first one, and is either the very wrapper that the decorator made, over the very
  callable that it wrapped, or a bound one whose decorator had something to bind; with
  the C extension also that the core suits the binding (`Fits`), and that where a wrapper
  will not bind again, no lookup would change the core (`Settled`). `Held` says this of what
  the program has in hand, `Parents` of what the decorators have made, `Lookup` of what a
  lookup has come to, with the decorators that wait above it; this is why `Rebind` may start
  again from what the parent wraps. `Refinement` follows: `Found` gives the core that CPython's
  lookup gives. `Runs` says which wrapper functions have run when a call is at a given
  height; from it `RunOnce`. `Receivers` needs more: where lookups can bind what was
  decorated first, the last lookup has bound all wrappers with its own instance and owner,
  or none (`Alike`), so that what one wrapper function is told about the receiver
  (`Receives`), the partial proxy included, is what all are told and the body gets. In
  other stacks bound and unbound wrappers may alternate, and the property fails, as
  said above. The proofs
  avoid induction over the stack because a lookup and a call take one step per wrapper:
  the induction is that over the steps. Assumed: `ClassOfAssumption`.

Model-checked only: all liveness (`UseEnds`, `CallEnds`, `OperationsEnd`; fairness and
ENABLED are outside TLAPS), and the two invariants of `DecoratorStack`,
`ReportsOutermost` and `SynchronizedSeesMarker`: `inspect` and `synchronized` walk through
nested wrappers in one step of the program, so that their operators are recursive over the
stack, and neither recursive operators nor induction over such data is within the provers'
reach. All other invariants and action properties of the passing runs are theorems.

## Not modelled, and the plan

1. `FunctionWrapper` in C: the fields of `WraptFunctionWrapperObject`, set in a second
   critical section after the wrapped object, seen by calls in other threads.
2. A lazy import composed with importlib's module locks (lock order).
3. `WeakFunctionProxy`: when references expire is the garbage collector's choice; only
   the double callback would be worth a module.
4. `wrap_object_attribute`, `bind_state_to_wrapper`, and the values cached by
   `with_signature`, in stacks of three decorators.

Left out for good: formatting, `repr`, pickling and comparison slots (they follow
the delegate path above), signature and argument conversion (pure data), the
choice of implementation at import, documentation, examples, tests and build.
`ProxyAttributes` stands for the mirrored `__annotations__` too, which the same lines
handle; `ObjectProxy` and `LazyProxy` leave the mirrored entries out.
