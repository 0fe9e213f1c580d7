-------------------------- MODULE SynchronizedLock --------------------------
(***************************************************************************)
(* synchronized() with a lock of its own (src/src/wrapt/synchronization.py).*)
(*                                                                         *)
(* A context (an instance, a class, a function, any object) carries one    *)
(* RLock for synchronous code and one asyncio.Lock for coroutines, each    *)
(* kept in an attribute of the context and created on first use: looked    *)
(* up, and when missing looked up again and created under a meta lock that *)
(* all contexts share.  Threads run synchronous functions; tasks run       *)
(* coroutines, on one event loop, and give the loop up only where they     *)
(* await.  A decorated function releases the lock it looked up; a wrapper  *)
(* used in a with statement keeps the lock in an attribute of the wrapper, *)
(* which all users of that wrapper share, and releases what it finds there.*)
(***************************************************************************)
EXTENDS Naturals

CONSTANTS
  Threads,
  Tasks,      \* coroutines, all on the same event loop
  Contexts,
  Frozen,     \* the contexts that do not accept attribute assignment
  Locks,      \* bound: the locks there are to create
  NoLock,
  NoOne,
  MaxDepth    \* bound: levels of calls nested in a synchronised body

ASSUME SynchronizedAssumption ==
  /\ Threads \cap Tasks = {}
  /\ NoOne \notin Threads \cup Tasks
  /\ NoLock \notin Locks
  /\ Frozen \subseteq Contexts
  /\ MaxDepth \in Nat \ {0}

VARIABLES
  lockOf,   \* lockOf[<<c, kind>>]: the context's _synchronized_lock or _async_lock
  made,     \* the locks created so far
  holders,  \* holders[l]: the frames that have acquired l and not released it
  meta,     \* who holds _synchronized_meta_lock
  loop,     \* the task that the event loop is running
  label,    \* label[f]: where frame f is
  use,      \* use[f]: the context frame f synchronises on, and in which form
  mine,     \* mine[f]: the lock that frame f found or created
  kept      \* kept[<<c, kind>>]: _self_lock of the wrapper of c

vars == <<lockOf, made, holders, meta, loop, label, use, mine, kept>>

Agents == Threads \cup Tasks

Frames == Agents \X (1 .. MaxDepth)

Attributes == Contexts \X {"sync", "async"}

Labels == {"idle", "look", "enterMeta", "lookAgain", "create", "leaveMeta",
           "abandon", "keep", "acquire", "body"}

Uses == [context : Contexts, form : {"call", "with"}]

NotUsing == [context |-> NoOne, form |-> "call"]

Attribute(f) == <<use[f].context, IF f[1] \in Tasks THEN "async" ELSE "sync">>

Init ==
  /\ lockOf = [a \in Attributes |-> NoLock]
  /\ made = {}
  /\ holders = [l \in Locks |-> {}]
  /\ meta = NoOne
  /\ loop = NoOne
  /\ label = [f \in Frames |-> "idle"]
  /\ use = [f \in Frames |-> NotUsing]
  /\ mine = [f \in Frames |-> NoLock]
  /\ kept = [a \in Attributes |-> NoLock]

Goto(f, l) == label' = [label EXCEPT ![f] = l]

End(f) == /\ label' = [label EXCEPT ![f] = "idle"]
          /\ use' = [use EXCEPT ![f] = NotUsing]
          /\ mine' = [mine EXCEPT ![f] = NoLock]

InnerIdle(f) == f[2] < MaxDepth => label[<<f[1], f[2] + 1>>] = "idle"

LoopFree(f) == f[1] \in Tasks => loop = NoOne

TakeLoop(f) == loop' = IF f[1] \in Tasks THEN f[1] ELSE loop

LeaveLoop(f) == loop' = IF f[1] \in Tasks THEN NoOne ELSE loop

(***************************************************************************)
(* A call of a decorated function, or a with statement.  From inside a     *)
(* synchronised body only the same context is synchronised on again: the   *)
(* order in which a program takes several locks is its own affair.  An     *)
(* asyncio.Lock is not reentrant, so a task does not do that.              *)
(***************************************************************************)
Call(f) ==
  /\ label[f] = "idle" /\ LoopFree(f)
  /\ \E u \in Uses :
       /\ f[2] > 1 => /\ f[1] \in Threads
                      /\ label[<<f[1], f[2] - 1>>] = "body"
                      /\ u.context = use[<<f[1], f[2] - 1>>].context
       /\ use' = [use EXCEPT ![f] = u]
  /\ Goto(f, "look")
  /\ TakeLoop(f)
  /\ UNCHANGED <<lockOf, made, holders, meta, mine, kept>>

(* The lock is known: store it on the wrapper, or go straight to acquiring. *)
Found(f) == IF use[f].form = "with" THEN "keep" ELSE "acquire"

Look(f) ==
  LET lock == lockOf[Attribute(f)] IN
  /\ label[f] = "look"
  /\ mine' = [mine EXCEPT ![f] = lock]
  /\ Goto(f, IF lock = NoLock THEN "enterMeta" ELSE Found(f))
  /\ UNCHANGED <<lockOf, made, holders, meta, loop, use, kept>>

(* Mutant: the meta lock does not exclude. *)
EnterMetaAnyway(f) ==
  /\ label[f] = "enterMeta"
  /\ meta' = f[1]
  /\ Goto(f, "lookAgain")
  /\ UNCHANGED <<lockOf, made, holders, loop, use, mine, kept>>

EnterMeta(f) ==
  /\ label[f] = "enterMeta" /\ meta = NoOne
  /\ meta' = f[1]
  /\ Goto(f, "lookAgain")
  /\ UNCHANGED <<lockOf, made, holders, loop, use, mine, kept>>

(* Mutant: the first look was enough. *)
LookOnce(f) ==
  /\ label[f] = "lookAgain"
  /\ Goto(f, "create")
  /\ UNCHANGED <<lockOf, made, holders, meta, loop, use, mine, kept>>

LookAgain(f) ==
  LET lock == lockOf[Attribute(f)] IN
  /\ label[f] = "lookAgain"
  /\ mine' = [mine EXCEPT ![f] = lock]
  /\ Goto(f, IF lock = NoLock THEN "create" ELSE "leaveMeta")
  /\ UNCHANGED <<lockOf, made, holders, meta, loop, use, kept>>

(* Mutant: the context is stored where the lock belongs. *)
CreateStoresContext(f) ==
  /\ label[f] = "create"
  /\ \E lock \in Locks \ made :
       /\ made' = made \cup {lock}
       /\ lockOf' = [lockOf EXCEPT ![Attribute(f)] = use[f].context]
       /\ mine' = [mine EXCEPT ![f] = lock]
  /\ Goto(f, "leaveMeta")
  /\ UNCHANGED <<holders, meta, loop, use, kept>>

(* setattr(context, ...) raises for a context without assignable attributes. *)
Create(f) ==
  /\ label[f] = "create"
  /\ IF use[f].context \in Frozen
     THEN Goto(f, "abandon") /\ UNCHANGED <<lockOf, made, mine>>
     ELSE \E lock \in Locks \ made :
            /\ made' = made \cup {lock}
            /\ lockOf' = [lockOf EXCEPT ![Attribute(f)] = lock]
            /\ mine' = [mine EXCEPT ![f] = lock]
            /\ Goto(f, "leaveMeta")
  /\ UNCHANGED <<holders, meta, loop, use, kept>>

LeaveMeta(f) ==
  /\ label[f] = "leaveMeta"
  /\ meta' = NoOne
  /\ Goto(f, Found(f))
  /\ UNCHANGED <<lockOf, made, holders, loop, use, mine, kept>>

(* The exception leaves the meta lock and reaches the caller. *)
Abandon(f) ==
  /\ label[f] = "abandon"
  /\ meta' = NoOne
  /\ End(f)
  /\ LeaveLoop(f)
  /\ UNCHANGED <<lockOf, made, holders, kept>>

(* __enter__, __aenter__: self._self_lock is shared by all users. *)
Keep(f) ==
  /\ label[f] = "keep"
  /\ kept' = [kept EXCEPT ![Attribute(f)] = mine[f]]
  /\ Goto(f, "acquire")
  /\ UNCHANGED <<lockOf, made, holders, meta, loop, use, mine>>

(* Mutant: a plain Lock, which its own thread waits for as well. *)
AcquirePlain(f) ==
  /\ label[f] = "acquire"
  /\ holders[mine[f]] = {}
  /\ holders' = [holders EXCEPT ![mine[f]] = @ \cup {f}]
  /\ Goto(f, "body")
  /\ LeaveLoop(f)
  /\ UNCHANGED <<lockOf, made, meta, use, mine, kept>>

(* Mutant: an RLock for coroutines as well: the tasks share one thread. *)
AcquireRLock(f) ==
  /\ label[f] = "acquire" /\ (f[1] \in Tasks => loop \in {NoOne, f[1]})
  /\ \A g \in holders[mine[f]] : g[1] = f[1] \/ {f[1], g[1]} \subseteq Tasks
  /\ holders' = [holders EXCEPT ![mine[f]] = @ \cup {f}]
  /\ Goto(f, "body")
  /\ LeaveLoop(f)
  /\ UNCHANGED <<lockOf, made, meta, use, mine, kept>>

(* A task that has to wait for its lock lets the event loop run others. *)
Await(f) ==
  /\ label[f] = "acquire" /\ f[1] \in Tasks /\ loop = f[1]
  /\ holders[mine[f]] # {}
  /\ loop' = NoOne
  /\ UNCHANGED <<lockOf, made, holders, meta, label, use, mine, kept>>

(* A task that is cancelled while it waits never enters the body. *)
Cancel(f) ==
  /\ label[f] = "acquire" /\ f[1] \in Tasks /\ loop = NoOne
  /\ End(f)
  /\ UNCHANGED <<lockOf, made, holders, meta, loop, kept>>

(* lock.acquire(): the RLock is free or this thread's; the asyncio.Lock is  *)
(* free.  The body may await: the loop is anyone's.                         *)
Acquire(f) ==
  /\ label[f] = "acquire"
  /\ IF f[1] \in Threads THEN \A g \in holders[mine[f]] : g[1] = f[1]
                         ELSE holders[mine[f]] = {} /\ loop \in {NoOne, f[1]}
  /\ holders' = [holders EXCEPT ![mine[f]] = @ \cup {f}]
  /\ Goto(f, "body")
  /\ LeaveLoop(f)
  /\ UNCHANGED <<lockOf, made, meta, use, mine, kept>>

(* The body returned or raised: a call releases the lock it looked up, a     *)
(* with statement the one that its wrapper keeps.                           *)
Release(f) ==
  LET lock == IF use[f].form = "with" THEN kept[Attribute(f)] ELSE mine[f] IN
  /\ label[f] = "body" /\ InnerIdle(f) /\ LoopFree(f)
  /\ holders' = [holders EXCEPT ![lock] = @ \ {f}]
  /\ End(f)
  /\ UNCHANGED <<lockOf, made, meta, loop, kept>>

Lookup(f) == \/ Look(f) \/ LookAgain(f) \/ Create(f) \/ LeaveMeta(f)
             \/ Abandon(f) \/ Keep(f) \/ Await(f)

Step(f) == Lookup(f) \/ EnterMeta(f) \/ Acquire(f) \/ Release(f)

Next == \E f \in Frames : Call(f) \/ Cancel(f) \/ Step(f)

Spec == Init /\ [][Next]_vars

(* Threads and the loop are scheduled, a body ends however often it calls   *)
(* nested ones, and a lock that is free again and again is not withheld     *)
(* from one waiter for ever.                                                *)
Fairness ==
  /\ \A f \in Frames : WF_vars(Step(f))
  /\ \A a \in Agents : SF_vars(Step(<<a, 1>>))

FairSpec == Spec /\ Fairness

-----------------------------------------------------------------------------
TypeOK ==
  /\ lockOf \in [Attributes -> Locks \cup {NoLock}]
  /\ made \subseteq Locks
  /\ holders \in [Locks -> SUBSET Frames]
  /\ meta \in Agents \cup {NoOne}
  /\ loop \in Tasks \cup {NoOne}
  /\ label \in [Frames -> Labels]
  /\ use \in [Frames -> Uses \cup {NotUsing}]
  /\ mine \in [Frames -> Locks \cup {NoLock}]
  /\ kept \in [Attributes -> Locks \cup {NoLock}]

(* Two threads, or two tasks, are never inside bodies synchronised on the same
   context, whether they call a decorated function or use a with statement. *)
MutualExclusion ==
  \A f, g \in Frames :
    label[f] = "body" /\ label[g] = "body" /\ Attribute(f) = Attribute(g)
      => f[1] = g[1]

(* A context carries one lock of a kind from the first use on: nobody waits
   for, holds or stores another one, however many raced to create it. *)
OneLock ==
  \A f \in Frames :
    label[f] \in {"leaveMeta", "keep", "acquire", "body"} =>
      mine[f] # NoLock /\ mine[f] = lockOf[Attribute(f)]

(* A with statement finds on the wrapper the lock that it acquired, although
   others enter and leave through the same wrapper meanwhile. *)
ExitReleasesOwn ==
  \A f \in Frames :
    label[f] = "body" /\ use[f].form = "with" => f \in holders[kept[Attribute(f)]]

(* Every synchronised call comes to an end: the meta lock is never held while
   waiting for another lock nor left held by an exception, and a thread that
   calls into a context it already holds does not wait for itself. *)
CallEnds == \A f \in Frames : label[f] # "idle" ~> label[f] = "idle"

-----------------------------------------------------------------------------
(***************************************************************************)
(* The inductive invariant.  An attribute is assigned only by the one      *)
(* frame inside the meta lock that found it missing, so it never changes   *)
(* afterwards; the frames inside a body are exactly the holders of the     *)
(* context's lock.                                                         *)
(***************************************************************************)
InMeta == {"lookAgain", "create", "leaveMeta", "abandon"}

Nesting ==
  \A f \in Frames : label[f] # "idle" =>
    /\ use[f] \in Uses
    /\ f[1] \in Tasks => f[2] = 1
    /\ \A d \in 1 .. MaxDepth : d < f[2] => label[<<f[1], d>>] = "body"

MetaHeld ==
  \A f \in Frames : label[f] \in InMeta =>
    /\ meta = f[1]
    /\ label[f] = "create" => lockOf[Attribute(f)] = NoLock

LocksHeld ==
  \A l \in Locks : \A f, g \in holders[l] :
    label[f] = "body" /\ mine[f] = l /\ f[1] = g[1]

BodiesHold == \A f \in Frames : label[f] = "body" => f \in holders[mine[f]]

KeptIsOwn ==
  /\ \A a \in Attributes : kept[a] # NoLock => kept[a] = lockOf[a]
  /\ \A f \in Frames : label[f] \in {"acquire", "body"} /\ use[f].form = "with"
       => kept[Attribute(f)] # NoLock

IInv == /\ TypeOK /\ Nesting /\ MetaHeld /\ OneLock
        /\ LocksHeld /\ BodiesHold /\ KeptIsOwn
=============================================================================
