---------------------------- MODULE ImportHooks ----------------------------
(***************************************************************************)
(* Post import hooks (src/src/wrapt/importer.py) and the part of Python's   *)
(* import system that they hang on to.                                     *)
(*                                                                         *)
(* register_post_import_hook records a hook for a module, or calls it at   *)
(* once when the module is in sys.modules.  The finder that the first      *)
(* registration puts in front of sys.meta_path wraps the loader of a       *)
(* module that has hooks; the wrapped loader calls notify_module_loaded    *)
(* after executing the module, which takes the hooks out and calls them.   *)
(* The dictionary is only used under a lock, which is not held while a     *)
(* hook runs: a hook may start a thread that registers and wait for it.    *)
(*                                                                         *)
(* importlib holds a lock per module from before the search until the      *)
(* import has ended, and one import lock while it asks a finder; a module  *)
(* enters sys.modules before it is executed, and leaves it when executing  *)
(* it raises.                                                              *)
(***************************************************************************)
EXTENDS Naturals, Sequences, FiniteSets

CONSTANTS
  Threads,
  Names,
  Hooks,        \* each registered at most once
  NoOne,
  Racing,       \* the modules hooks are registered for while they are imported
  MaxFailures,  \* bound: imports, searches and hooks that raise
  MaxUnloads    \* bound: how often a module is removed from sys.modules

ASSUME ImportAssumption ==
  /\ NoOne \notin Threads \cup Names
  /\ Racing \subseteq Names
  /\ MaxFailures \in Nat /\ MaxUnloads \in Nat

VARIABLES
  keys,        \* the keys of _post_import_hooks
  hooks,       \* hooks[n]: the list under key n
  installed,   \* _post_import_hooks_init: the finder is in sys.meta_path
  hooksLock,   \* who holds _post_import_hooks_lock
  inProgress,  \* the finder's in_progress
  modules,     \* modules[n]: the state of n in sys.modules
  owner,       \* owner[n]: who holds n's module lock
  importLock,  \* who holds the global import lock
  label,       \* label[t]: where thread t is
  job,         \* job[t]: what t does, and for which module
  inner,       \* inner[t]: whether the finder is asked from within itself
  chained,     \* chained[t]: whether t loads with the wrapped loader
  pending,     \* pending[t]: the hook t registers, or those it has still to call
  helper,      \* helper[t]: the thread that a hook called by t waits for
  called,      \* the hooks that have been called
  lost,        \* the hooks that were taken out and then not called
  failures, unloads

dictVars == <<keys, hooks, installed>>
moduleVars == <<modules, owner>>
finderVars == <<inProgress, importLock, inner, chained>>
history == <<called, lost>>
bounds == <<failures, unloads>>
vars == <<dictVars, hooksLock, finderVars, moduleVars, label, job, pending, helper,
          history, bounds>>

Labels == {"idle", "register", "registering", "lockModule", "ask", "enterFind",
           "checkFind", "search", "load", "exec", "notify", "notifying", "fire", "join",
           "finish", "fail"}

Jobs == [op : {"register", "import", "query"}, name : Names]

NoJob == [op |-> "none", name |-> NoOne]

Init ==
  /\ keys = {} /\ hooks = [n \in Names |-> <<>>] /\ installed = FALSE
  /\ hooksLock = NoOne
  /\ inProgress = {} /\ importLock = NoOne
  /\ inner = [t \in Threads |-> FALSE]
  /\ chained = [t \in Threads |-> FALSE]
  /\ modules = [n \in Names |-> "absent"]
  /\ owner = [n \in Names |-> NoOne]
  /\ label = [t \in Threads |-> "idle"]
  /\ job = [t \in Threads |-> NoJob]
  /\ pending = [t \in Threads |-> <<>>]
  /\ helper = [t \in Threads |-> NoOne]
  /\ called = {} /\ lost = {}
  /\ failures = 0 /\ unloads = 0

Goto(t, l) == label' = [label EXCEPT ![t] = l]

(* At rest, and not a thread that a hook started and waits for. *)
Free(t) == label[t] = "idle" /\ \A u \in Threads : helper[u] # t

Elements(seq) == {seq[i] : i \in DOMAIN seq}

Fail == failures < MaxFailures /\ failures' = failures + 1 /\ UNCHANGED unloads

Busy(op, n) == \E t \in Threads : job[t] = [op |-> op, name |-> n]

Start(t, op, n, l) == /\ job' = [job EXCEPT ![t] = [op |-> op, name |-> n]]
                      /\ Goto(t, l)

Return(t) == /\ job' = [job EXCEPT ![t] = NoJob]
             /\ pending' = [pending EXCEPT ![t] = <<>>]
             /\ Goto(t, "idle")

(* Registered, being registered, or done with. *)
Known(h) ==
  \/ h \in called \cup lost
  \/ \E n \in Names : h \in Elements(hooks[n])
  \/ \E t \in Threads : h \in Elements(pending[t])

(***************************************************************************)
(* register_post_import_hook                                               *)
(***************************************************************************)
StartRegister(t) ==
  \E n \in Names, h \in Hooks :
    /\ ~Known(h)
    /\ n \in Racing \/ ~Busy("import", n)
    /\ Start(t, "register", n, "register")
    /\ pending' = [pending EXCEPT ![t] = <<h>>]

Register(t) ==
  /\ Free(t)
  /\ StartRegister(t)
  /\ UNCHANGED <<dictVars, hooksLock, finderVars, moduleVars, helper, history, bounds>>

(* with _post_import_hooks_lock, in each of the functions that take it. *)
EnterLock(t) ==
  /\ label[t] \in {"register", "enterFind", "notify"} /\ hooksLock = NoOne
  /\ hooksLock' = t
  /\ Goto(t, CASE label[t] = "register" -> "registering"
               [] label[t] = "enterFind" -> "checkFind"
               [] label[t] = "notify" -> "notifying")
  /\ UNCHANGED <<dictVars, finderVars, moduleVars, job, pending, helper, history, bounds>>

(* Mutant: the test asks whether the module's import has ended. *)
RegisterUntilLoaded(t) ==
  LET n == job[t].name IN
  /\ label[t] = "registering"
  /\ hooksLock' = NoOne
  /\ installed' = TRUE
  /\ IF modules[n] # "loaded"
     THEN /\ keys' = keys \cup {n}
          /\ hooks' = [hooks EXCEPT ![n] = @ \o pending[t]]
          /\ Return(t)
     ELSE Goto(t, "fire") /\ UNCHANGED <<keys, hooks, job, pending>>
  /\ UNCHANGED <<finderVars, moduleVars, helper, history, bounds>>

(* The hook waits for the import of a module that is not in sys.modules; for
   one that is, in whatever state, it is called once the lock is released. *)
RegisterHook(t) ==
  LET n == job[t].name IN
  /\ label[t] = "registering"
  /\ hooksLock' = NoOne
  /\ installed' = TRUE
  /\ IF modules[n] = "absent"
     THEN /\ keys' = keys \cup {n}
          /\ hooks' = [hooks EXCEPT ![n] = @ \o pending[t]]
          /\ Return(t)
     ELSE Goto(t, "fire") /\ UNCHANGED <<keys, hooks, job, pending>>
  /\ UNCHANGED <<finderVars, moduleVars, helper, history, bounds>>

(***************************************************************************)
(* importlib: an import, which does nothing for a module that is loaded,    *)
(* and find_spec for one that is not in sys.modules.                       *)
(***************************************************************************)
Import(t) ==
  /\ Free(t)
  /\ \E n \in Names : /\ n \in Racing \/ ~Busy("register", n)
                      /\ Start(t, "import", n, "lockModule")
  /\ UNCHANGED <<dictVars, hooksLock, finderVars, moduleVars, pending, helper, history, bounds>>

Query(t) ==
  /\ Free(t)
  /\ \E n \in Names : modules[n] = "absent" /\ Start(t, "query", n, "ask")
  /\ UNCHANGED <<dictVars, hooksLock, finderVars, moduleVars, pending, helper, history, bounds>>

LockModule(t) ==
  LET n == job[t].name IN
  /\ label[t] = "lockModule" /\ owner[n] = NoOne
  /\ IF modules[n] = "absent"
     THEN /\ owner' = [owner EXCEPT ![n] = t]
          /\ Goto(t, "ask") /\ UNCHANGED <<job, pending>>
     ELSE Return(t) /\ UNCHANGED owner
  /\ UNCHANGED <<dictVars, hooksLock, finderVars, modules, helper, history, bounds>>

(* The finder is asked, if it is there, under the import lock. *)
Ask(t) ==
  /\ label[t] = "ask" /\ importLock = NoOne
  /\ importLock' = t
  /\ Goto(t, IF installed THEN "enterFind" ELSE "search")
  /\ UNCHANGED <<dictVars, hooksLock, inProgress, inner, chained, moduleVars, job, pending,
                 helper, history, bounds>>

(***************************************************************************)
(* ImportHookFinder.find_spec.  For a module with hooks it asks all the    *)
(* finders, itself included, once more; then it steps aside.               *)
(***************************************************************************)
(* Mutant: in_progress is not consulted. *)
CheckFindAgain(t) ==
  LET n == job[t].name IN
  /\ label[t] = "checkFind"
  /\ hooksLock' = NoOne
  /\ IF n \in keys
     THEN /\ inProgress' = inProgress \cup {n}
          /\ inner' = [inner EXCEPT ![t] = TRUE]
          /\ Goto(t, "enterFind")
     ELSE Goto(t, "search") /\ UNCHANGED <<inProgress, inner>>
  /\ UNCHANGED <<dictVars, importLock, chained, moduleVars, job, pending, helper, history,
                 bounds>>

CheckFind(t) ==
  LET n == job[t].name IN
  /\ label[t] = "checkFind"
  /\ hooksLock' = NoOne
  /\ IF n \in keys \ inProgress
     THEN /\ inProgress' = inProgress \cup {n}
          /\ inner' = [inner EXCEPT ![t] = TRUE]
          /\ Goto(t, "enterFind")
     ELSE Goto(t, "search") /\ UNCHANGED <<inProgress, inner>>
  /\ UNCHANGED <<dictVars, importLock, chained, moduleVars, job, pending, helper, history,
                 bounds>>

(* The finally clause, however the search went. *)
LeaveFind(t) ==
  /\ inProgress' = IF inner[t] THEN inProgress \ {job[t].name} ELSE inProgress
  /\ inner' = [inner EXCEPT ![t] = FALSE]
  /\ importLock' = NoOne

(* Another finder finds the module: inside our own find_spec its loader is
   wrapped.  For a query that is the loader of a thread that has put the module
   in sys.modules meanwhile, which may or may not have read it already. *)
SearchFinds(t) ==
  LET n == job[t].name IN
  /\ label[t] = "search"
  /\ LeaveFind(t)
  /\ IF job[t].op = "query"
     THEN /\ \/ UNCHANGED chained
             \/ /\ inner[t] /\ modules[n] = "partial"
                /\ chained' = [chained EXCEPT ![owner[n]] = TRUE]
          /\ Return(t)
     ELSE /\ chained' = [chained EXCEPT ![t] = inner[t]]
          /\ Goto(t, "load") /\ UNCHANGED <<job, pending>>
  /\ UNCHANGED <<dictVars, hooksLock, moduleVars, helper, history, bounds>>

(* Mutant: in_progress is cleared without a finally clause. *)
SearchFailsMarked(t) ==
  /\ label[t] = "search"
  /\ Fail
  /\ inner' = [inner EXCEPT ![t] = FALSE]
  /\ importLock' = NoOne
  /\ IF job[t].op = "query" THEN Return(t) ELSE Goto(t, "fail") /\ UNCHANGED <<job, pending>>
  /\ UNCHANGED <<dictVars, hooksLock, inProgress, chained, moduleVars, helper, history>>

SearchFails(t) ==
  /\ label[t] = "search"
  /\ Fail
  /\ LeaveFind(t)
  /\ IF job[t].op = "query" THEN Return(t) ELSE Goto(t, "fail") /\ UNCHANGED <<job, pending>>
  /\ UNCHANGED <<dictVars, hooksLock, chained, moduleVars, helper, history>>

(* create_module, and the entry in sys.modules. *)
Load(t) ==
  /\ label[t] = "load"
  /\ modules' = [modules EXCEPT ![job[t].name] = "partial"]
  /\ Goto(t, "exec")
  /\ UNCHANGED <<dictVars, hooksLock, finderVars, owner, job, pending, helper, history, bounds>>

(***************************************************************************)
(* exec_module, of the wrapped loader when the import is chained, and      *)
(* notify_module_loaded.                                                   *)
(***************************************************************************)
Exec(t) ==
  /\ label[t] = "exec"
  /\ modules' = [modules EXCEPT ![job[t].name] = "executed"]
  /\ Goto(t, IF chained[t] THEN "notify" ELSE "finish")
  /\ UNCHANGED <<dictVars, hooksLock, finderVars, owner, job, pending, helper, history, bounds>>

ExecRaises(t) ==
  /\ label[t] = "exec"
  /\ Fail
  /\ Goto(t, "fail")
  /\ UNCHANGED <<dictVars, hooksLock, finderVars, moduleVars, job, pending, helper, history>>

(* Mutants: the list is kept, with and without its key. *)
NotifyReads(t) ==
  /\ label[t] = "notifying"
  /\ hooksLock' = NoOne
  /\ pending' = [pending EXCEPT ![t] = hooks[job[t].name]]
  /\ Goto(t, "fire")
  /\ UNCHANGED <<dictVars, finderVars, moduleVars, job, helper, history, bounds>>

NotifyKeepsList(t) ==
  LET n == job[t].name IN
  /\ label[t] = "notifying"
  /\ hooksLock' = NoOne
  /\ pending' = [pending EXCEPT ![t] = hooks[n]]
  /\ keys' = keys \ {n}
  /\ Goto(t, "fire")
  /\ UNCHANGED <<hooks, installed, finderVars, moduleVars, job, helper, history, bounds>>

Notify(t) ==
  LET n == job[t].name IN
  /\ label[t] = "notifying"
  /\ hooksLock' = NoOne
  /\ pending' = [pending EXCEPT ![t] = hooks[n]]
  /\ keys' = keys \ {n}
  /\ hooks' = [hooks EXCEPT ![n] = <<>>]
  /\ Goto(t, "fire")
  /\ UNCHANGED <<installed, finderVars, moduleVars, job, helper, history, bounds>>

FireNext(t) ==
  /\ called' = called \cup {Head(pending[t])}
  /\ pending' = [pending EXCEPT ![t] = Tail(@)]

Fire(t) ==
  /\ label[t] = "fire" /\ pending[t] # <<>>
  /\ FireNext(t)
  /\ UNCHANGED <<dictVars, hooksLock, finderVars, moduleVars, label, job, helper, lost, bounds>>

(* The hook starts a thread that registers another hook, and waits for it. *)
FireAndWait(t) ==
  /\ label[t] = "fire" /\ pending[t] # <<>>
  /\ called' = called \cup {Head(pending[t])}
  /\ \E u \in Threads \ {t}, n \in Names, h \in Hooks :
       /\ Free(u)
       /\ ~Known(h)
       /\ n \in Racing \/ ~Busy("import", n)
       /\ label' = [label EXCEPT ![u] = "register", ![t] = "join"]
       /\ job' = [job EXCEPT ![u] = [op |-> "register", name |-> n]]
       /\ pending' = [pending EXCEPT ![u] = <<h>>, ![t] = Tail(@)]
       /\ helper' = [helper EXCEPT ![t] = u]
  /\ UNCHANGED <<dictVars, hooksLock, finderVars, moduleVars, lost, bounds>>

Join(t) ==
  /\ label[t] = "join" /\ label[helper[t]] = "idle"
  /\ helper' = [helper EXCEPT ![t] = NoOne]
  /\ Goto(t, "fire")
  /\ UNCHANGED <<dictVars, hooksLock, finderVars, moduleVars, job, pending, history, bounds>>

(* A hook that raises ends the loop: those after it have been taken out of
   the dictionary and are never called. *)
FireRaises(t) ==
  /\ label[t] = "fire" /\ pending[t] # <<>>
  /\ Fail
  /\ called' = called \cup {Head(pending[t])}
  /\ lost' = lost \cup Elements(Tail(pending[t]))
  /\ IF job[t].op = "register"
     THEN Return(t)
     ELSE /\ pending' = [pending EXCEPT ![t] = <<>>]
          /\ Goto(t, "fail") /\ UNCHANGED job
  /\ UNCHANGED <<dictVars, hooksLock, finderVars, moduleVars, helper>>

AllFired(t) ==
  /\ label[t] = "fire" /\ pending[t] = <<>>
  /\ IF job[t].op = "register" THEN Return(t) ELSE Goto(t, "finish") /\ UNCHANGED <<job, pending>>
  /\ UNCHANGED <<dictVars, hooksLock, finderVars, moduleVars, helper, history, bounds>>

(* importlib: the import has ended one way or the other. *)
EndImport(t, state) ==
  /\ modules' = [modules EXCEPT ![job[t].name] = state]
  /\ owner' = [owner EXCEPT ![job[t].name] = NoOne]
  /\ chained' = [chained EXCEPT ![t] = FALSE]
  /\ Return(t)
  /\ UNCHANGED <<dictVars, hooksLock, inProgress, importLock, inner, helper, history, bounds>>

Finish(t) == label[t] = "finish" /\ EndImport(t, "loaded")

Abort(t) == label[t] = "fail" /\ EndImport(t, "absent")

(* del sys.modules[n] *)
Unload(n) ==
  /\ modules[n] = "loaded" /\ unloads < MaxUnloads
  /\ modules' = [modules EXCEPT ![n] = "absent"]
  /\ unloads' = unloads + 1
  /\ UNCHANGED <<dictVars, hooksLock, finderVars, owner, label, job, pending, helper, history,
                 failures>>

Step(t) ==
  \/ EnterLock(t) \/ RegisterHook(t)
  \/ LockModule(t) \/ Ask(t) \/ CheckFind(t) \/ SearchFinds(t) \/ SearchFails(t)
  \/ Load(t) \/ Exec(t) \/ ExecRaises(t)
  \/ Notify(t) \/ Fire(t) \/ FireAndWait(t) \/ Join(t) \/ FireRaises(t) \/ AllFired(t)
  \/ Finish(t) \/ Abort(t)

Next ==
  \/ \E t \in Threads : Register(t) \/ Import(t) \/ Query(t) \/ Step(t)
  \/ \E n \in Names : Unload(n)

Spec == Init /\ [][Next]_vars

(* Threads are scheduled; modules, hooks and finders end. *)
FairSpec == Spec /\ \A t \in Threads : SF_vars(Step(t))

-----------------------------------------------------------------------------
(* The state is well typed, and a list of hooks is only ever under a key. *)
TypeOK ==
  /\ keys \subseteq Names
  /\ hooks \in [Names -> Seq(Hooks)] /\ \A n \in Names \ keys : hooks[n] = <<>>
  /\ installed \in BOOLEAN
  /\ hooksLock \in Threads \cup {NoOne}
  /\ inProgress \subseteq Names
  /\ modules \in [Names -> {"absent", "partial", "executed", "loaded"}]
  /\ owner \in [Names -> Threads \cup {NoOne}]
  /\ importLock \in Threads \cup {NoOne}
  /\ label \in [Threads -> Labels]
  /\ job \in [Threads -> Jobs \cup {NoJob}]
  /\ inner \in [Threads -> BOOLEAN] /\ chained \in [Threads -> BOOLEAN]
  /\ pending \in [Threads -> Seq(Hooks)]
  /\ helper \in [Threads -> Threads \cup {NoOne}]
  /\ called \subseteq Hooks /\ lost \subseteq Hooks

(* The docstring of register_post_import_hook: the hook is called once the
   module is imported, or at once when it already is.  No hook is left waiting
   for a module that is there. *)
NoHookWaits ==
  \A n \in Names : modules[n] = "loaded" => n \notin keys /\ hooks[n] = <<>>

(* The same where every hook is registered before or after the import, and not
   while it is under way: no failed search, retry, unloading or hook that
   registers hooks leaves one behind. *)
QuietHooksRun ==
  \A n \in Names \ Racing : modules[n] = "loaded" => n \notin keys /\ hooks[n] = <<>>

(* A registered hook is waiting, about to be called, called, or lost to an
   earlier hook's exception, and only one of these, once: no interleaving of
   registrations, failing imports, retries and unloads calls a hook twice. *)
HookInOnePlace ==
  \A h \in Hooks :
    LET Waiting(n) == {i \in DOMAIN hooks[n] : hooks[n][i] = h}
        Held(t) == {i \in DOMAIN pending[t] : pending[t][i] = h} IN
    Cardinality(UNION {{n} \X Waiting(n) : n \in Names})
      + Cardinality(UNION {{t} \X Held(t) : t \in Threads})
      + Cardinality({done \in {<<"called", called>>, <<"lost", lost>>} : h \in done[2]}) <= 1

(* An import through the wrapped loader that succeeds leaves no hook behind,
   those registered while it was under way included. *)
ChainedFiresAll ==
  \A t \in Threads : label[t] = "finish" /\ chained[t] => job[t].name \notin keys

(* Every registration, import and query ends, although hooks wait for threads
   that register hooks of their own, and the finder asks itself. *)
OperationsEnd == \A t \in Threads : label[t] # "idle" ~> label[t] = "idle"
=============================================================================
