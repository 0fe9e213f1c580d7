----------------------------- MODULE LazyProxy -----------------------------
(***************************************************************************)
(* One LazyObjectProxy (src/src/wrapt/proxies.py) shared by threads: its   *)
(* wrapped object is made by a factory the first time it is needed.        *)
(*                                                                         *)
(* An operation that finds nothing wrapped calls __wrapped_get__, which    *)
(* runs the factory under the reentrant lock of synchronized(type(self)).  *)
(* The class is the proxy's own, so is the lock.  The factory is a         *)
(* callback: it may raise, assign __wrapped__ itself, or use the proxy,    *)
(* which starts the same operation one level deeper in the same thread.    *)
(* The C extension reaches __wrapped_get__ from                            *)
(* raise_uninitialized_wrapper_error, which afterwards assigns the result  *)
(* to __wrapped__ once more, outside the lock; the Python __getattr__ only *)
(* returns it.                                                             *)
(***************************************************************************)
EXTENDS Naturals, FiniteSets

CONSTANTS
  Threads,
  Products,     \* what the factory may return
  Gifts,        \* what the program may assign to __wrapped__
  NULL,         \* __wrapped__ is not set
  FixupsRaise,  \* whether __wrapped_setattr_fixups__ may raise
  MaxDepth,     \* bound: levels of nested use from within the factory
  MaxFailures   \* bound: how often the factory or the fixups raise

ASSUME LazyAssumption ==
  /\ NULL \notin Products \cup Gifts
  /\ FixupsRaise \in BOOLEAN
  /\ MaxDepth \in Nat \ {0} /\ MaxFailures \in Nat

VARIABLES
  inC,        \* whether the C extension is in use
  wrapped,    \* __wrapped__
  getCalled,  \* __wrapped_get_called__
  lock,       \* the RLock: the frames that have acquired it and not released it
  label,      \* label[f]: where frame f is in the operation it runs
  value,      \* value[f]: what the factory, or __wrapped_get__, returned to f
  made,       \* every object that a factory call has returned
  again,      \* whether the factory is entitled to make another object
  failures

vars == <<inC, wrapped, getCalled, lock, label, value, made, again, failures>>

(* Frame <<t, d>> is thread t's operation at nesting depth d. *)
Frames == Threads \X (1 .. MaxDepth)

Locked == {"check", "factory", "store", "mark", "result", "exit", "unwind"}

Labels == Locked \cup {"idle", "test", "enter", "lateSet", "load"}

Wrappable == Products \cup Gifts

(* LazyObjectProxy.__init__: the factory is there, so nothing is wrapped. *)
Init ==
  /\ inC \in BOOLEAN
  /\ wrapped = NULL
  /\ getCalled = FALSE
  /\ lock = {}
  /\ label = [f \in Frames |-> "idle"]
  /\ value = [f \in Frames |-> NULL]
  /\ made = {} /\ again = FALSE
  /\ failures = 0

Goto(f, l) == label' = [label EXCEPT ![f] = l]

Return(f) == /\ label' = [label EXCEPT ![f] = "idle"]
             /\ value' = [value EXCEPT ![f] = NULL]

Fail == failures < MaxFailures /\ failures' = failures + 1

(* Python code is running at this depth: the program, or the factory. *)
CanCall(f) == /\ label[f] = "idle"
              /\ f[2] > 1 => label[<<f[1], f[2] - 1>>] = "factory"

InnerIdle(f) == f[2] < MaxDepth => label[<<f[1], f[2] + 1>>] = "idle"

(***************************************************************************)
(* What the program does with the proxy.                                   *)
(***************************************************************************)
Use(f) ==
  /\ CanCall(f)
  /\ Goto(f, "test")
  /\ UNCHANGED <<inC, wrapped, getCalled, lock, value, made, again, failures>>

Assign(f) ==
  /\ CanCall(f)
  /\ \E o \in Gifts : wrapped' = o
  /\ UNCHANGED <<inC, getCalled, lock, label, value, made, again, failures>>

(***************************************************************************)
(* The lookup of __wrapped__.  In Python it is one step when the attribute *)
(* is there; the C functions test the field and then load it.              *)
(***************************************************************************)
Test(f) ==
  /\ label[f] = "test"
  /\ CASE wrapped = NULL -> Goto(f, "enter")
       [] wrapped # NULL /\ inC -> Goto(f, "load")
       [] OTHER -> Goto(f, "idle")
  /\ UNCHANGED <<inC, wrapped, getCalled, lock, value, made, again, failures>>

(* Mutant: no lock. *)
EnterUnlocked(f) ==
  /\ label[f] = "enter"
  /\ lock' = lock \cup {f}
  /\ Goto(f, "check")
  /\ UNCHANGED <<inC, wrapped, getCalled, value, made, again, failures>>

(* The RLock is free or held by this thread. *)
Enter(f) ==
  /\ label[f] = "enter"
  /\ \A g \in lock : g[1] = f[1]
  /\ lock' = lock \cup {f}
  /\ Goto(f, "check")
  /\ UNCHANGED <<inC, wrapped, getCalled, value, made, again, failures>>

(* Mutant: the call is recorded as soon as the factory is called. *)
CheckMarks(f) ==
  /\ label[f] = "check"
  /\ Goto(f, IF getCalled THEN "result" ELSE "factory")
  /\ getCalled' = TRUE
  /\ UNCHANGED <<inC, wrapped, lock, value, made, again, failures>>

(* Mutant: no second check under the lock. *)
CheckSkipped(f) ==
  /\ label[f] = "check"
  /\ Goto(f, "factory")
  /\ UNCHANGED <<inC, wrapped, getCalled, lock, value, made, again, failures>>

Check(f) ==
  /\ label[f] = "check"
  /\ Goto(f, IF getCalled THEN "result" ELSE "factory")
  /\ UNCHANGED <<inC, wrapped, getCalled, lock, value, made, again, failures>>

FactoryReturns(f) ==
  /\ label[f] = "factory" /\ InnerIdle(f)
  /\ \E o \in Products : /\ value' = [value EXCEPT ![f] = o]
                         /\ made' = made \cup {o}
  /\ again' = (again \/ f[2] > 1)
  /\ Goto(f, "store")
  /\ UNCHANGED <<inC, wrapped, getCalled, lock, failures>>

FactoryRaises(f) ==
  /\ label[f] = "factory" /\ InnerIdle(f)
  /\ Fail
  /\ Goto(f, "unwind")
  /\ UNCHANGED <<inC, wrapped, getCalled, lock, value, made, again>>

(* The assignment of __wrapped__ and then its fixups, which may raise.     *)
Store(f) ==
  /\ label[f] = "store"
  /\ wrapped' = value[f]
  /\ \/ Goto(f, "mark") /\ UNCHANGED <<failures, again>>
     \/ FixupsRaise /\ Fail /\ Goto(f, "unwind") /\ again' = TRUE
  /\ UNCHANGED <<inC, getCalled, lock, value, made>>

(* Mutant: the flag and the object are one attribute. *)
MarkStoresObject(f) ==
  /\ label[f] = "mark"
  /\ getCalled' = wrapped
  /\ Goto(f, "result")
  /\ UNCHANGED <<inC, wrapped, lock, value, made, again, failures>>

Mark(f) ==
  /\ label[f] = "mark"
  /\ getCalled' = TRUE
  /\ Goto(f, "result")
  /\ UNCHANGED <<inC, wrapped, lock, value, made, again, failures>>

(* return self.__wrapped__, read while the lock is held. *)
Result(f) ==
  /\ label[f] = "result"
  /\ value' = [value EXCEPT ![f] = wrapped]
  /\ Goto(f, "exit")
  /\ UNCHANGED <<inC, wrapped, getCalled, lock, made, again, failures>>

(* Mutant: the caller assigns the result whether it is in C or not. *)
ExitLateSets(f) ==
  /\ label[f] = "exit"
  /\ lock' = lock \ {f}
  /\ Goto(f, "lateSet") /\ UNCHANGED value
  /\ UNCHANGED <<inC, wrapped, getCalled, made, again, failures>>

(* __exit__.  The Python lookup is over; the C function goes on. *)
Exit(f) ==
  /\ label[f] = "exit"
  /\ lock' = lock \ {f}
  /\ IF inC THEN Goto(f, "lateSet") /\ UNCHANGED value ELSE Return(f)
  /\ UNCHANGED <<inC, wrapped, getCalled, made, again, failures>>

(* Mutant: the exception leaves the lock held. *)
UnwindKeepsLock(f) ==
  /\ label[f] = "unwind"
  /\ Return(f)
  /\ UNCHANGED <<inC, wrapped, getCalled, lock, made, again, failures>>

(* __exit__ on the way out of an exception, which reaches the caller. *)
Unwind(f) ==
  /\ label[f] = "unwind"
  /\ lock' = lock \ {f}
  /\ Return(f)
  /\ UNCHANGED <<inC, wrapped, getCalled, made, again, failures>>

(* raise_uninitialized_wrapper_error: PyObject_SetAttr(object, __wrapped__). *)
LateSet(f) ==
  /\ label[f] = "lateSet"
  /\ wrapped' = value[f]
  /\ \/ Goto(f, "load") /\ UNCHANGED <<value, failures>>
     \/ FixupsRaise /\ Fail /\ Return(f)
  /\ UNCHANGED <<inC, getCalled, lock, made, again>>

Load(f) ==
  /\ label[f] = "load"
  /\ Return(f)
  /\ UNCHANGED <<inC, wrapped, getCalled, lock, made, again, failures>>

FactoryEnds(f) == FactoryReturns(f) \/ FactoryRaises(f)

Lookup(f) ==
  \/ Test(f) \/ Enter(f) \/ Check(f) \/ Store(f) \/ Mark(f) \/ Result(f)
  \/ Exit(f) \/ Unwind(f) \/ LateSet(f) \/ Load(f)

Step(f) == Use(f) \/ Assign(f) \/ FactoryEnds(f) \/ Lookup(f)

Next == \E f \in Frames : Step(f)

Spec == Init /\ [][Next]_vars

(* Threads are scheduled, a lock that stays free is taken, and the factory *)
(* ends however often it uses the proxy before.                            *)
Fairness == \A f \in Frames : WF_vars(Lookup(f)) /\ SF_vars(FactoryEnds(f))

FairSpec == Spec /\ Fairness

-----------------------------------------------------------------------------
TypeOK ==
  /\ inC \in BOOLEAN
  /\ wrapped \in Wrappable \cup {NULL}
  /\ getCalled \in BOOLEAN
  /\ lock \subseteq Frames
  /\ label \in [Frames -> Labels]
  /\ value \in [Frames -> Wrappable \cup {NULL}]
  /\ made \subseteq Products /\ again \in BOOLEAN
  /\ failures \in 0 .. MaxFailures

(* Two threads are never in the factory, or between it and the end of the
   lookup that called it, at the same time (__wrapped_get__). *)
FactoryExclusive ==
  \A f, g \in Frames : label[f] \in Locked /\ label[g] \in Locked => f[1] = g[1]

(* Whoever competes for the first use, whatever is assigned meanwhile and
   however often the factory raised before, one factory call succeeds; unless
   the factory itself uses the proxy, or the fixups for its object raise. *)
OneObject == ~again => Cardinality(made) <= 1

(* The early return under the lock finds __wrapped__ set: it would look it up
   through __wrapped_get__ again otherwise, without end. *)
MarkedIsSet == getCalled => wrapped # NULL

(* Once the factory's object is in place, using the proxy never changes what
   it wraps: from then on only an assignment does. *)
ReadsNeverWrite ==
  [][getCalled /\ (\A f \in Frames : label[f] \notin {"factory", "store"})
       /\ wrapped' # wrapped => \E f \in Frames : Assign(f)]_vars

(* The same with the Python implementation. *)
PythonReadsNeverWrite ==
  [][~inC /\ getCalled /\ (\A f \in Frames : label[f] \notin {"factory", "store"})
       /\ wrapped' # wrapped => \E f \in Frames : Assign(f)]_vars

(* Every use of the proxy comes to an end: no exception leaves the lock held
   and no thread waits for the factory for ever. *)
UseEnds == \A f \in Frames : label[f] # "idle" ~> label[f] = "idle"

(* The inductive invariant: the frames between __enter__ and __exit__ are those
   that hold the lock, all of one thread; nothing is recorded, or about to be,
   before an object is in place; and a factory that has returned an object is
   the last one to run, unless it is entitled not to be. *)
LockHeld ==
  /\ \A f \in Frames : label[f] \in Locked <=> f \in lock
  /\ \A f, g \in lock : f[1] = g[1]

Settled ==
  /\ \A f \in Frames : label[f] = "mark" => wrapped # NULL
  /\ \A f \in Frames : label[f] = "result" => getCalled
  /\ \A f \in Frames : label[f] \in {"store", "exit", "lateSet"} => value[f] # NULL

(* Below a frame in use, every frame of its thread is in the factory. *)
Nested ==
  \A f \in Frames : \A d \in 1 .. MaxDepth :
    label[f] # "idle" /\ d < f[2] => label[<<f[1], d>>] = "factory"

(* The only object is being stored, or is recorded, and no factory is running. *)
OneMade ==
  ~again /\ made # {} =>
    /\ \E o \in Products : made = {o}
    /\ getCalled \/ \E f \in Frames : label[f] \in {"store", "mark"}
    /\ \A f \in Frames : label[f] # "factory"

IInv == TypeOK /\ LockHeld /\ MarkedIsSet /\ Settled /\ Nested /\ OneMade
=============================================================================
