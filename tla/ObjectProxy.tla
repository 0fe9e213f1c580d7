---------------------------- MODULE ObjectProxy ----------------------------
(***************************************************************************)
(* The C implementation of the object proxy (src/src/wrapt/_wrappers.c),   *)
(* shared by threads of a free-threaded interpreter.                       *)
(*                                                                         *)
(* A proxy has one member that matters here, self->wrapped.  Its setter,   *)
(* a repeated __init__ and the in-place operators replace it; every other  *)
(* operation takes a strong reference to it, works on it and releases it.  *)
(* Only the pointer swap and the load-and-increment run in a critical      *)
(* section of the proxy, so each is one step.  Everything else (the NULL   *)
(* test, the work done on the wrapped object, each decrement) is a step of *)
(* its own with which the other threads interleave.  The work may run any  *)
(* Python code, the proxy's own operations included: no lock is held, so   *)
(* what such a nested call does is what another thread could do there.     *)
(***************************************************************************)
EXTENDS PyReferences

CONSTANTS
  Threads,
  Proxies,
  Plain     \* stands for an operand that is not a proxy

ASSUME ConstantsDistinct ==
  /\ NULL \notin Objects
  /\ Plain \notin Proxies
  /\ Threads \cap Proxies = {}

ASSUME ConstantsFinite == IsFiniteSet(Threads) /\ IsFiniteSet(Proxies)

VARIABLES
  pc,          \* pc[t]: where thread t is in the C function it is running
  op,          \* op[t]: the operation and its operands
  initCalled   \* initCalled[p]: self->init_called

vars == <<slot, refs, pc, op, initCalled>>

(***************************************************************************)
(* The slots: a thread's "user" is the reference its Python caller holds   *)
(* (an argument is borrowed from it, a result is returned to it); "left",  *)
(* "right" and "new" are the owned locals of the C function.               *)
(***************************************************************************)
Locals == {"user", "left", "right", "new"}

Slots == (Proxies \X {"wrapped"}) \cup (Threads \X Locals)

Kinds == {"delegate", "get", "set", "init", "binary", "inplace"}

Labels == {"idle", "testLeft", "takeLeft", "testRight", "takeRight", "use",
           "dropLeft", "dropRight", "abandon", "takeNew", "swap", "dropOld", "mark"}

(* outcome: what an in-place operator made of its operands. *)
Outcomes == {"none", "replace", "proxy"}

Operation == [kind : Kinds, left : Proxies \cup {Plain},
              right : Proxies \cup {Plain}, outcome : Outcomes]

NoOp == [kind |-> "delegate", left |-> Plain, right |-> Plain, outcome |-> "none"]

Wrapped(p) == slot[<<p, "wrapped">>]

Held(t, local) == slot[<<t, local>>]

(* The object an operand stands for: what a proxy wraps, or the object itself. *)
Operand(t, x) == IF x = Plain THEN Held(t, "user") ELSE Wrapped(x)

Missing(x) == x # Plain /\ Wrapped(x) = NULL

Goto(t, label) == /\ pc' = [pc EXCEPT ![t] = label]
                  /\ UNCHANGED op

Return(t) == /\ pc' = [pc EXCEPT ![t] = "idle"]
             /\ op' = [op EXCEPT ![t] = NoOp]

(* WraptObjectProxy_new: tp_alloc with a NULL wrapped and init_called 0. *)
Init ==
  /\ slot = [s \in Slots |-> NULL]
  /\ refs = [o \in Objects |-> 0]
  /\ pc = [t \in Threads |-> "idle"]
  /\ op = [t \in Threads |-> NoOp]
  /\ initCalled = [p \in Proxies |-> FALSE]

(***************************************************************************)
(* The Python code around the proxy.                                       *)
(***************************************************************************)
CreateObject(t) ==
  /\ pc[t] = "idle" /\ Held(t, "user") = NULL
  /\ \E o \in Objects : Unallocated(o) /\ Acquire(<<t, "user">>, o)
  /\ UNCHANGED <<pc, op, initCalled>>

ForgetObject(t) ==
  /\ pc[t] = "idle" /\ Held(t, "user") # NULL
  /\ Release(<<t, "user">>)
  /\ UNCHANGED <<pc, op, initCalled>>

Begin(t, kind, left, right, label) ==
  /\ pc[t] = "idle"
  /\ op' = [op EXCEPT ![t] = [kind |-> kind, left |-> left,
                              right |-> right, outcome |-> "none"]]
  /\ pc' = [pc EXCEPT ![t] = label]
  /\ UNCHANGED <<slot, refs, initCalled>>

CallDelegate(t) == \E p \in Proxies : Begin(t, "delegate", p, Plain, "testLeft")

CallGet(t) == /\ Held(t, "user") = NULL
              /\ \E p \in Proxies : Begin(t, "get", p, Plain, "testLeft")

CallSet(t) == /\ Held(t, "user") # NULL
              /\ \E p \in Proxies : Begin(t, "set", p, Plain, "takeNew")

CallInit(t) == /\ Held(t, "user") # NULL
               /\ \E p \in Proxies : Begin(t, "init", p, Plain, "takeNew")

(* An operand that is not a proxy is an object the caller holds. *)
CallBinary(t) ==
  \E x, y \in Proxies \cup {Plain} :
    /\ x # Plain \/ y # Plain
    /\ Plain \in {x, y} => Held(t, "user") # NULL
    /\ Begin(t, "binary", x, y, "testLeft")

CallInplace(t) ==
  \E p \in Proxies, y \in Proxies \cup {Plain} :
    /\ y = Plain => Held(t, "user") # NULL
    /\ Begin(t, "inplace", p, y, "testLeft")

(***************************************************************************)
(* The C functions.                                                        *)
(***************************************************************************)

(* Mutant: a function that relies on the load to find the field set. *)
TestLeftUnchecked(t) ==
  /\ pc[t] = "testLeft"
  /\ Goto(t, IF op[t].kind = "inplace" THEN "testRight" ELSE "takeLeft")
  /\ UNCHANGED <<slot, refs, initCalled>>

(* The test for NULL which every function starts with, made outside any    *)
(* critical section; in a binary operator, that of wrapt_unwrap_operand.   *)
(* A proxy with no wrapped object raises and the function returns.         *)
TestLeft(t) ==
  /\ pc[t] = "testLeft"
  /\ IF Missing(op[t].left)
     THEN Return(t)
     ELSE Goto(t, IF op[t].kind = "inplace" THEN "testRight" ELSE "takeLeft")
  /\ UNCHANGED <<slot, refs, initCalled>>

(* Mutant: the field's own reference is borrowed while the work is done. *)
TakeLeftBorrowed(t) ==
  /\ pc[t] = "takeLeft"
  /\ slot' = [slot EXCEPT ![<<t, IF op[t].kind = "get" THEN "user" ELSE "left">>]
                 = Operand(t, op[t].left)]
  /\ UNCHANGED refs
  /\ CASE op[t].kind = "get" -> Return(t)
       [] op[t].kind = "binary" -> Goto(t, "testRight")
       [] OTHER -> Goto(t, "use")
  /\ UNCHANGED initCalled

(* wrapt_acquire_wrapped: load and increment, as one step.  __wrapped__    *)
(* hands the new reference to the caller; the others keep it while they    *)
(* work.  Of these only wrapt_unwrap_operand tests what it loaded.         *)
TakeLeft(t) ==
  LET o == Operand(t, op[t].left) IN
  /\ pc[t] = "takeLeft"
  /\ Acquire(<<t, IF op[t].kind = "get" THEN "user" ELSE "left">>, o)
  /\ CASE op[t].kind = "get" -> Return(t)
       [] op[t].kind = "binary" -> IF o = NULL THEN Return(t) ELSE Goto(t, "testRight")
       [] OTHER -> Goto(t, "use")
  /\ UNCHANGED initCalled

(* Mutant: the error return of a binary operator forgets its first operand. *)
RightMissingReturns(t) == Return(t)

(* The other operand could not be unwrapped: a binary operator still has   *)
(* the first one to release.                                               *)
RightMissing(t) ==
  IF op[t].kind = "binary" THEN Goto(t, "abandon") ELSE Return(t)

TestRight(t) ==
  /\ pc[t] = "testRight"
  /\ IF Missing(op[t].right) THEN RightMissing(t) ELSE Goto(t, "takeRight")
  /\ UNCHANGED <<slot, refs, initCalled>>

TakeRight(t) ==
  LET o == Operand(t, op[t].right) IN
  /\ pc[t] = "takeRight"
  /\ Acquire(<<t, "right">>, o)
  /\ IF o = NULL
     THEN RightMissing(t)
     ELSE Goto(t, IF op[t].kind = "binary" THEN "use" ELSE "takeLeft")
  /\ UNCHANGED initCalled

(* The operation itself, on the references taken.  Its own result or       *)
(* exception goes straight back to the caller, except for an in-place      *)
(* operator: when the wrapped object defines the in-place method its       *)
(* result, the wrapped object itself, a new one or any other, replaces it; *)
(* when not, the result of the plain operator is given to a new proxy.     *)
(* Both, and the test for the method, may raise.                           *)
UseOperands(t) ==
  /\ pc[t] = "use" /\ op[t].kind # "inplace"
  /\ Goto(t, "dropLeft")
  /\ UNCHANGED <<slot, refs, initCalled>>

(* Mutant: x.__iadd__ returning x is not given a reference of its own. *)
InplaceResultBorrowed(t) ==
  /\ pc[t] = "use" /\ op[t].kind = "inplace"
  /\ op' = [op EXCEPT ![t].outcome = "replace"]
  /\ slot' = [slot EXCEPT ![<<t, "new">>] = Held(t, "left")]
  /\ pc' = [pc EXCEPT ![t] = "dropLeft"]
  /\ UNCHANGED <<refs, initCalled>>

InplaceResult(t) ==
  /\ pc[t] = "use" /\ op[t].kind = "inplace"
  /\ \E outcome \in Outcomes :
       /\ op' = [op EXCEPT ![t].outcome = outcome]
       /\ IF outcome = "none"
          THEN UNCHANGED <<slot, refs>>
          ELSE \E o \in Objects : Acquire(<<t, "new">>, o)
  /\ pc' = [pc EXCEPT ![t] = "dropLeft"]
  /\ UNCHANGED initCalled

DropLeft(t) ==
  /\ pc[t] = "dropLeft"
  /\ Release(<<t, "left">>)
  /\ IF op[t].kind \in {"binary", "inplace"} THEN Goto(t, "dropRight") ELSE Return(t)
  /\ UNCHANGED initCalled

(* Mutant: a wrapped object without the in-place method is replaced too. *)
DropRightReplaces(t) ==
  /\ pc[t] = "dropRight"
  /\ Release(<<t, "right">>)
  /\ IF op[t].outcome # "none" THEN Goto(t, "swap") ELSE Return(t)
  /\ UNCHANGED initCalled

DropRight(t) ==
  /\ pc[t] = "dropRight"
  /\ Release(<<t, "right">>)
  /\ CASE op[t].outcome = "replace" -> Goto(t, "swap")
       [] op[t].outcome = "proxy" -> Goto(t, "dropOld")
       [] OTHER -> Return(t)
  /\ UNCHANGED initCalled

AbandonLeft(t) ==
  /\ pc[t] = "abandon"
  /\ Release(<<t, "left">>)
  /\ Return(t)
  /\ UNCHANGED initCalled

(* Mutant: init_called is set before the field is. *)
TakeNewMarks(t) ==
  /\ pc[t] = "takeNew"
  /\ Acquire(<<t, "new">>, Held(t, "user"))
  /\ Goto(t, "swap")
  /\ initCalled' = IF op[t].kind = "init"
                    THEN [initCalled EXCEPT ![op[t].left] = TRUE] ELSE initCalled

(* The setter and __init__: the field's own reference to the argument.     *)
TakeNew(t) ==
  /\ pc[t] = "takeNew"
  /\ Acquire(<<t, "new">>, Held(t, "user"))
  /\ Goto(t, "swap")
  /\ UNCHANGED initCalled

(* Mutant: a plain assignment, which forgets the old value. *)
SwapForgets(t) ==
  /\ pc[t] = "swap"
  /\ slot' = [slot EXCEPT ![<<op[t].left, "wrapped">>] = Held(t, "new"),
                          ![<<t, "new">>] = NULL]
  /\ Goto(t, "dropOld")
  /\ UNCHANGED <<refs, initCalled>>

(* Mutant: Py_CLEAR of the old value, then the assignment. *)
SwapClears(t) ==
  /\ pc[t] = "swap"
  /\ IF Missing(op[t].left)
     THEN /\ Exchange(<<op[t].left, "wrapped">>, <<t, "new">>)
          /\ Goto(t, "dropOld")
     ELSE /\ Release(<<op[t].left, "wrapped">>)
          /\ UNCHANGED <<pc, op>>
  /\ UNCHANGED initCalled

(* The pointer swap of Py_XSETREF under the proxy's critical section.      *)
Swap(t) ==
  /\ pc[t] = "swap"
  /\ Exchange(<<op[t].left, "wrapped">>, <<t, "new">>)
  /\ Goto(t, "dropOld")
  /\ UNCHANGED initCalled

(* Its decrement of the value that was replaced.  It may run a finalizer,  *)
(* which suspends the critical section, but the field is already consistent. *)
(* The setter then looks up __wrapped_setattr_fixups__, a lookup that      *)
(* reaches the delegating __getattr__ of the same proxy.                   *)
DropOld(t) ==
  /\ pc[t] = "dropOld"
  /\ Release(<<t, "new">>)
  /\ CASE op[t].kind = "set" -> Goto(t, "testLeft")
       [] op[t].kind = "init" -> Goto(t, "mark")
       [] OTHER -> Return(t)
  /\ UNCHANGED initCalled

MarkInitCalled(t) ==
  /\ pc[t] = "mark"
  /\ initCalled' = [initCalled EXCEPT ![op[t].left] = TRUE]
  /\ Return(t)
  /\ UNCHANGED <<slot, refs>>

(* tp_clear and tp_dealloc, once no call on the proxy is running.  What    *)
(* follows with the same p is another proxy, allocated anew.               *)
Busy(p) == \E t \in Threads : pc[t] # "idle" /\ p \in {op[t].left, op[t].right}

Dealloc(p) ==
  /\ ~Busy(p)
  /\ Wrapped(p) # NULL
  /\ Release(<<p, "wrapped">>)
  /\ initCalled' = [initCalled EXCEPT ![p] = FALSE]
  /\ UNCHANGED <<pc, op>>

Caller(t) ==
  \/ CreateObject(t) \/ ForgetObject(t)
  \/ CallDelegate(t) \/ CallGet(t) \/ CallSet(t)
  \/ CallInit(t) \/ CallBinary(t) \/ CallInplace(t)

Function(t) ==
  \/ TestLeft(t) \/ TakeLeft(t) \/ TestRight(t) \/ TakeRight(t)
  \/ UseOperands(t) \/ InplaceResult(t)
  \/ DropLeft(t) \/ DropRight(t) \/ AbandonLeft(t)
  \/ TakeNew(t) \/ Swap(t) \/ DropOld(t) \/ MarkInitCalled(t)

Next ==
  \/ \E t \in Threads : Caller(t) \/ Function(t)
  \/ \E p \in Proxies : Dealloc(p)

Spec == Init /\ [][Next]_vars

-----------------------------------------------------------------------------
TypeOK ==
  /\ slot \in [Slots -> Objects \cup {NULL}]
  /\ refs \in [Objects -> Nat]
  /\ pc \in [Threads -> Labels]
  /\ op \in [Threads -> Operation]
  /\ initCalled \in [Proxies -> BOOLEAN]

(* Nothing a proxy or a running C function points to has been freed, however
   the threads interleave: a swap never releases the old object twice and no
   borrowed pointer outlives the reference it was borrowed from. *)
NeverDangling == \A s \in Slots : slot[s] # NULL => ~Unallocated(slot[s])

(* The count of every object is exactly the number of references that the
   proxies and the running C functions own: no path releases too often. *)
ReferencesExact == CountsExact

(* Every path out of a C function, the error returns included, has released
   what it took: a thread that runs no operation owns no local reference. *)
NothingLeaked ==
  \A t \in Threads : pc[t] = "idle" =>
     \A l \in {"left", "right", "new"} : Held(t, l) = NULL

(* The functions which do not test what wrapt_acquire_wrapped returned never
   work on NULL: between the test and the load the field cannot be emptied. *)
NullNeverUsed ==
  \A t \in Threads : pc[t] = "use" =>
     /\ Held(t, "left") # NULL
     /\ op[t].kind \in {"binary", "inplace"} => Held(t, "right") # NULL

(* The "inconsistent state" error, for a proxy whose __init__ ran and which
   wraps nothing, is never raised for a proxy without a factory. *)
InitLeavesWrapped == \A p \in Proxies : initCalled[p] => Wrapped(p) # NULL

(* A proxy that wraps something wraps something until it is deallocated: no
   operation, failing or not, leaves it empty. *)
StaysWrapped ==
  [][\A p \in Proxies : Wrapped(p) # NULL /\ Busy(p)
                          => Wrapped(p)' # NULL]_vars

-----------------------------------------------------------------------------
(***************************************************************************)
(* The inductive invariant: which operation can be where, what its frame   *)
(* owns there, and which tests made earlier still hold.                    *)
(***************************************************************************)
Operator(t) == op[t].kind \in {"binary", "inplace"}

Flow(t) ==
  /\ op[t].kind \in {"delegate", "get", "set", "init"} => op[t].right = Plain
  /\ pc[t] # "idle" /\ op[t].kind # "binary" => op[t].left \in Proxies
  /\ op[t].kind = "init" => pc[t] \in {"takeNew", "swap", "dropOld", "mark"}
  /\ op[t].kind = "get" => pc[t] \in {"testLeft", "takeLeft"}
  /\ pc[t] \in {"testRight", "takeRight", "dropRight"} => Operator(t)
  /\ pc[t] = "abandon" => op[t].kind = "binary"
  /\ pc[t] = "takeNew" => op[t].kind \in {"set", "init"}
  /\ pc[t] = "mark" => op[t].kind = "init"
  /\ pc[t] = "swap" => op[t].kind \in {"set", "init"} \/ op[t].outcome = "replace"
  /\ pc[t] = "dropOld" => op[t].kind \in {"set", "init", "inplace"}
  /\ op[t].outcome # "none" => /\ op[t].kind = "inplace"
                               /\ pc[t] \in {"dropLeft", "dropRight", "swap", "dropOld"}

Owned(t) ==
  /\ Held(t, "left") # NULL =>
       \/ pc[t] \in {"use", "dropLeft", "abandon"}
       \/ pc[t] \in {"testRight", "takeRight"} /\ op[t].kind = "binary"
  /\ Held(t, "right") # NULL =>
       \/ pc[t] \in {"use", "dropLeft", "dropRight"} /\ Operator(t)
       \/ pc[t] = "takeLeft" /\ op[t].kind = "inplace"
  /\ Held(t, "new") # NULL =>
       \/ pc[t] \in {"swap", "dropOld"}
       \/ pc[t] \in {"dropLeft", "dropRight"} /\ op[t].outcome # "none"
  /\ pc[t] = "use" => Held(t, "left") # NULL /\ (Operator(t) => Held(t, "right") # NULL)
  /\ pc[t] \in {"testRight", "takeRight"} /\ op[t].kind = "binary" => Held(t, "left") # NULL
  /\ pc[t] = "takeLeft" /\ op[t].kind = "inplace" => Held(t, "right") # NULL
  /\ pc[t] = "swap" => Held(t, "new") # NULL
  /\ pc[t] \in {"dropLeft", "dropRight"} /\ op[t].outcome # "none" => Held(t, "new") # NULL

Tested(t) ==
  /\ pc[t] = "takeLeft" /\ op[t].kind # "binary" => ~Missing(op[t].left)
  /\ pc[t] \in {"testRight", "takeRight"} /\ op[t].kind = "inplace" => ~Missing(op[t].left)
  /\ pc[t] \in {"dropOld", "mark"} /\ op[t].kind = "init" => ~Missing(op[t].left)
  /\ pc[t] # "idle" /\ Operator(t) /\ Plain \in {op[t].left, op[t].right}
       => Held(t, "user") # NULL
  /\ pc[t] = "takeNew" => Held(t, "user") # NULL
  /\ pc[t] # "idle" /\ op[t].kind = "get" => Held(t, "user") = NULL
  /\ pc[t] = "swap" /\ op[t].kind \in {"set", "init"} => Held(t, "new") = Held(t, "user")

IInv ==
  /\ TypeOK
  /\ CountsExact
  /\ \A t \in Threads : Flow(t) /\ Owned(t) /\ Tested(t)
  /\ InitLeavesWrapped

-----------------------------------------------------------------------------
(***************************************************************************)
(* The proxy implements the register.  An assignment has had its effect    *)
(* from the pointer swap on; so has an in-place operator that replaces.    *)
(***************************************************************************)
AbstractKind == [delegate |-> "use", binary |-> "use", get |-> "get",
                 set |-> "set", init |-> "set", inplace |-> "inplace"]

AbstractCall(t) == [kind |-> AbstractKind[op[t].kind],
                    target |-> op[t].left, other |-> op[t].right]

Effective(t) ==
  CASE op[t].kind \in {"set", "init"} -> pc[t] \notin {"takeNew", "swap"}
    [] op[t].kind = "inplace" -> pc[t] = "dropOld" /\ op[t].outcome = "replace"
    [] OTHER -> FALSE

AbstractStage(t) ==
  IF pc[t] = "idle" THEN "idle" ELSE IF Effective(t) THEN "done" ELSE "called"

Fields == [p \in Proxies |-> Wrapped(p)]
Hands == [t \in Threads |-> Held(t, "user")]
Calls == [t \in Threads |-> AbstractCall(t)]
Stages == [t \in Threads |-> AbstractStage(t)]

Atomic == INSTANCE AtomicProxies WITH
  Values <- Objects, Empty <- NULL, NoTarget <- Plain,
  value <- Fields, hand <- Hands, call <- Calls, stage <- Stages

(* The proxy behaves as the register of AtomicProxies: every assignment takes
   effect exactly once and with its own value, a read returns the value of one
   instant, and no delegated or binary operation ever changes the field. *)
ImplementsRegister == Atomic!RegisterSpec
=============================================================================
