------------------------- MODULE ImportHooksProofs -------------------------
(***************************************************************************)
(* ImportHooks for any number of threads, modules and hooks, and any       *)
(* bounds: no hook is called twice, the import of a module nobody hooks on *)
(* to while it is imported calls all its hooks, and so does every import   *)
(* that goes through the wrapped loader.                                   *)
(***************************************************************************)
EXTENDS ImportHooks, FiniteSetTheorems, TLAPS

(* Which job a thread can be doing where. *)
JobFits(t) ==
  /\ label[t] # "idle" => job[t] \in Jobs
  /\ label[t] \in {"register", "registering"} => job[t].op = "register"
  /\ label[t] \in {"lockModule", "load", "exec", "notify", "notifying", "finish", "fail"}
       => job[t].op = "import"
  /\ label[t] \in {"ask", "enterFind", "checkFind", "search"}
       => job[t].op \in {"import", "query"}
  /\ label[t] \in {"fire", "join"} => job[t].op \in {"register", "import"}

(* A thread past the lock of its module: the module is its own, and in the
   state that the steps of the thread have brought it to. *)
Importing(t) == label[t] \notin {"idle", "lockModule"} /\ job[t].op = "import"

ModuleOwned(t) ==
  Importing(t) =>
    /\ owner[job[t].name] = t
    /\ label[t] \in {"ask", "enterFind", "checkFind", "search", "load"}
         => modules[job[t].name] = "absent"
    /\ label[t] = "exec" => modules[job[t].name] = "partial"
    /\ label[t] \in {"notify", "notifying", "fire", "join", "finish"}
         => modules[job[t].name] = "executed"

PartialOwned(n) ==
  modules[n] = "partial" =>
    \E t \in Threads : /\ owner[n] = t /\ job[t] = [op |-> "import", name |-> n]
                       /\ label[t] \in {"exec", "fail"}

(* One thread at a time is in the finder; in_progress is the module for which
   it asks the finders again. *)
InFinder == {"enterFind", "checkFind", "search"}

FinderLocked(t) ==
  /\ label[t] \in InFinder => importLock = t
  /\ inner[t] => label[t] \in InFinder

InProgressHeld(n) == n \in inProgress => \E t \in Threads : inner[t] /\ job[t].name = n

(* The import of a module nobody registers for meanwhile has either taken the
   wrapped loader or found no hooks. *)
Exclusive(n) == n \in Racing \/ ~(Busy("import", n) /\ Busy("register", n))

QuietImport(t) ==
  (/\ Importing(t) /\ job[t].name \notin Racing
   /\ \/ label[t] = "search" /\ ~inner[t]
      \/ label[t] \in {"load", "exec"} /\ ~chained[t]
      \/ label[t] = "finish")
  => job[t].name \notin keys

(* Past notify_module_loaded no hook can be added until the import has ended. *)
Notified(t) ==
  (/\ Importing(t)
   /\ label[t] \in {"fire", "join"} \/ (label[t] = "finish" /\ chained[t]))
  => job[t].name \notin keys

QuietLoaded(n) == n \notin Racing /\ modules[n] = "loaded" => n \notin keys

(* HookInOnePlace without counting. *)
Waits(h, n, i) == i \in DOMAIN hooks[n] /\ hooks[n][i] = h

Holds(h, t, i) == i \in DOMAIN pending[t] /\ pending[t][i] = h

OnePlace(h) ==
  /\ \A m, n \in Names : \A i, j \in Nat :
        Waits(h, m, i) /\ Waits(h, n, j) => m = n /\ i = j
  /\ \A t, u \in Threads : \A i, j \in Nat :
        Holds(h, t, i) /\ Holds(h, u, j) => t = u /\ i = j
  /\ \A n \in Names, t \in Threads : \A i, j \in Nat : ~(Waits(h, n, i) /\ Holds(h, t, j))
  /\ h \in called \cup lost =>
       /\ \A n \in Names, i \in Nat : ~Waits(h, n, i)
       /\ \A t \in Threads, i \in Nat : ~Holds(h, t, i)
  /\ ~(h \in called /\ h \in lost)

Flow == /\ \A t \in Threads : JobFits(t) /\ ModuleOwned(t) /\ FinderLocked(t)
        /\ \A n \in Names : PartialOwned(n) /\ InProgressHeld(n)

KeysRight == /\ keys # {} => installed
             /\ \A n \in Names : Exclusive(n) /\ QuietLoaded(n)
             /\ \A t \in Threads : QuietImport(t) /\ Notified(t)

IInv == TypeOK /\ Flow /\ KeysRight /\ \A h \in Hooks : OnePlace(h)

LEMMA JobTyped ==
  ASSUME IInv, NEW t \in Threads, label[t] # "idle"
  PROVE  job[t].name \in Names /\ job[t].op \in {"register", "import", "query"}
BY DEF IInv, Flow, JobFits, Jobs

(* The bookkeeping of the control of one thread. *)
LEMMA GotoTyped ==
  ASSUME IInv, NEW t \in Threads, NEW l \in Labels, Goto(t, l)
  PROVE  /\ label' \in [Threads -> Labels] /\ label'[t] = l
         /\ \A u \in Threads \ {t} : label'[u] = label[u]
BY DEF IInv, TypeOK, Goto

LEMMA StartTyped ==
  ASSUME IInv, NEW t \in Threads, NEW op \in {"register", "import", "query"},
         NEW n \in Names, NEW l \in Labels, Start(t, op, n, l)
  PROVE  /\ label' \in [Threads -> Labels] /\ job' \in [Threads -> Jobs \cup {NoJob}]
         /\ label'[t] = l /\ job'[t] = [op |-> op, name |-> n]
         /\ \A u \in Threads \ {t} : label'[u] = label[u] /\ job'[u] = job[u]
BY DEF IInv, TypeOK, Start, Goto, Jobs

LEMMA ReturnTyped ==
  ASSUME IInv, NEW t \in Threads, Return(t)
  PROVE  /\ label' \in [Threads -> Labels] /\ job' \in [Threads -> Jobs \cup {NoJob}]
         /\ pending' \in [Threads -> Seq(Hooks)]
         /\ label'[t] = "idle" /\ job'[t] = NoJob /\ pending'[t] = <<>>
         /\ \A u \in Threads \ {t} : /\ label'[u] = label[u] /\ job'[u] = job[u]
                                     /\ pending'[u] = pending[u]
BY DEF IInv, TypeOK, Return, Goto, Labels

(***************************************************************************)
(* Types.                                                                  *)
(***************************************************************************)
LEMMA FiredTyped ==
  ASSUME NEW s \in Seq(Hooks), s # <<>>
  PROVE  Head(s) \in Hooks /\ Tail(s) \in Seq(Hooks) /\ Elements(Tail(s)) \subseteq Hooks
BY DEF Elements

LEMMA TypesKept ==
  ASSUME IInv, NEW t \in Threads, Register(t) \/ Import(t) \/ Query(t) \/ Step(t)
  PROVE  TypeOK'
<1>1. CASE Register(t)
  <2>1. PICK n \in Names, h \in Hooks : /\ Start(t, "register", n, "register")
                                        /\ pending' = [pending EXCEPT ![t] = <<h>>]
    BY <1>1 DEF Register, StartRegister
  <2>2. label' \in [Threads -> Labels] /\ job' \in [Threads -> Jobs \cup {NoJob}]
    BY <2>1, StartTyped DEF Labels
  <2>3. pending' \in [Threads -> Seq(Hooks)]
    BY <2>1 DEF IInv, TypeOK
  <2>4. QED
    BY <1>1, <2>2, <2>3 DEF Register, IInv, TypeOK, dictVars, finderVars, moduleVars, history
<1>2. CASE Import(t) \/ Query(t)
  <2>1. PICK n \in Names, op \in {"import", "query"}, l \in Labels : Start(t, op, n, l)
    BY <1>2 DEF Import, Query, Labels
  <2>2. label' \in [Threads -> Labels] /\ job' \in [Threads -> Jobs \cup {NoJob}]
    BY <2>1, StartTyped
  <2>3. QED
    BY <1>2, <2>2 DEF Import, Query, IInv, TypeOK, dictVars, finderVars, moduleVars, history
<1>3. CASE EnterLock(t)
  <2>1. label' \in [Threads -> Labels] /\ hooksLock' \in Threads \cup {NoOne}
    BY <1>3 DEF EnterLock, Goto, IInv, TypeOK, Labels
  <2>2. QED
    BY <1>3, <2>1 DEF EnterLock, IInv, TypeOK, dictVars, finderVars, moduleVars, history
<1>4. CASE RegisterHook(t)
  <2>1. job[t].name \in Names
    BY <1>4, JobTyped DEF RegisterHook
  <2>2. CASE Return(t)
    <3>1. /\ keys' \subseteq Names /\ hooks' \in [Names -> Seq(Hooks)]
          /\ \A n \in Names \ keys' : hooks'[n] = <<>>
      <4>1. /\ keys' \in {keys, keys \cup {job[t].name}}
            /\ hooks' = hooks \/ /\ keys' = keys \cup {job[t].name}
                                 /\ hooks' = [hooks EXCEPT ![job[t].name] = @ \o pending[t]]
        BY <1>4 DEF RegisterHook
      <4>2. hooks[job[t].name] \o pending[t] \in Seq(Hooks)
        BY <2>1 DEF IInv, TypeOK
      <4>3. QED
        BY <2>1, <4>1, <4>2 DEF IInv, TypeOK
    <3>2. QED
      BY <1>4, <2>2, <3>1, ReturnTyped DEF RegisterHook, IInv, TypeOK, finderVars,
         moduleVars, history
  <2>3. CASE ~Return(t)
    <3>1. Goto(t, "fire") /\ UNCHANGED <<keys, hooks, job, pending>>
      BY <1>4, <2>3 DEF RegisterHook
    <3>2. label' \in [Threads -> Labels]
      BY <3>1, GotoTyped DEF Labels
    <3>3. QED
      BY <1>4, <3>1, <3>2 DEF RegisterHook, IInv, TypeOK, finderVars, moduleVars, history
  <2>4. QED
    BY <2>2, <2>3
<1>5. CASE LockModule(t)
  <2>1. CASE Return(t) /\ UNCHANGED owner
    BY <1>5, <2>1, ReturnTyped DEF LockModule, IInv, TypeOK, dictVars, finderVars, history
  <2>2. CASE Goto(t, "ask") /\ owner' = [owner EXCEPT ![job[t].name] = t]
                            /\ UNCHANGED <<job, pending>>
    <3>1. label' \in [Threads -> Labels]
      BY <2>2, GotoTyped DEF Labels
    <3>2. QED
      BY <1>5, <2>2, <3>1 DEF LockModule, IInv, TypeOK, dictVars, finderVars, history
  <2>3. QED
    BY <1>5, <2>1, <2>2 DEF LockModule
<1>6. CASE Ask(t) \/ CheckFind(t)
  <2>1. PICK l \in {"enterFind", "search"} : Goto(t, l)
    BY <1>6 DEF Ask, CheckFind
  <2>2. label' \in [Threads -> Labels]
    BY <2>1, GotoTyped DEF Labels
  <2>3. CASE Ask(t)
    BY <2>2, <2>3 DEF Ask, IInv, TypeOK, dictVars, moduleVars, history
  <2>4. CASE CheckFind(t)
    <3>1. job[t].name \in Names
      BY <2>4, JobTyped DEF CheckFind
    <3>2. QED
      BY <2>2, <2>4, <3>1 DEF CheckFind, IInv, TypeOK, dictVars, moduleVars, history
  <2>5. QED
    BY <1>6, <2>3, <2>4
<1>7. CASE SearchFinds(t) \/ SearchFails(t)
  <2>1. LeaveFind(t) /\ chained' \in [Threads -> BOOLEAN]
    BY <1>7 DEF SearchFinds, SearchFails, IInv, TypeOK
  <2>2. /\ inProgress' \subseteq Names /\ inner' \in [Threads -> BOOLEAN]
        /\ importLock' \in Threads \cup {NoOne}
    BY <2>1 DEF LeaveFind, IInv, TypeOK
  <2>3. CASE Return(t)
    BY <1>7, <2>1, <2>2, <2>3, ReturnTyped DEF SearchFinds, SearchFails, IInv, TypeOK,
       dictVars, moduleVars, history
  <2>4. CASE ~Return(t)
    <3>1. PICK l \in {"load", "fail"} : Goto(t, l) /\ UNCHANGED <<job, pending>>
      BY <1>7, <2>4 DEF SearchFinds, SearchFails
    <3>2. label' \in [Threads -> Labels]
      BY <3>1, GotoTyped DEF Labels
    <3>3. QED
      BY <1>7, <2>1, <2>2, <3>1, <3>2 DEF SearchFinds, SearchFails, IInv, TypeOK,
         dictVars, moduleVars, history
  <2>5. QED
    BY <2>3, <2>4
<1>8. CASE Load(t) \/ Exec(t) \/ ExecRaises(t)
  <2>1. PICK l \in {"exec", "notify", "finish", "fail"} : Goto(t, l)
    BY <1>8 DEF Load, Exec, ExecRaises
  <2>2. label' \in [Threads -> Labels]
    BY <2>1, GotoTyped DEF Labels
  <2>3. modules' \in [Names -> {"absent", "partial", "executed", "loaded"}]
    BY <1>8 DEF Load, Exec, ExecRaises, IInv, TypeOK, moduleVars
  <2>4. QED
    BY <1>8, <2>2, <2>3 DEF Load, Exec, ExecRaises, IInv, TypeOK, dictVars, finderVars,
       moduleVars, history
<1>9. CASE Notify(t)
  <2>1. job[t].name \in Names
    BY <1>9, JobTyped DEF Notify
  <2>2. label' \in [Threads -> Labels]
    BY <1>9, GotoTyped DEF Notify, Labels
  <2>3. /\ pending' \in [Threads -> Seq(Hooks)] /\ hooks' \in [Names -> Seq(Hooks)]
        /\ keys' \subseteq Names /\ \A n \in Names \ keys' : hooks'[n] = <<>>
    BY <1>9, <2>1 DEF Notify, IInv, TypeOK
  <2>4. QED
    BY <1>9, <2>2, <2>3 DEF Notify, IInv, TypeOK, finderVars, moduleVars, history
<1>10. CASE Fire(t)
  <2>1. /\ pending' = [pending EXCEPT ![t] = Tail(@)]
        /\ called' = called \cup {Head(pending[t])} /\ pending[t] # <<>>
    BY <1>10 DEF Fire, FireNext
  <2>2. pending' \in [Threads -> Seq(Hooks)] /\ called' \subseteq Hooks
    BY <2>1, FiredTyped DEF IInv, TypeOK
  <2>3. QED
    BY <1>10, <2>2 DEF Fire, IInv, TypeOK, dictVars, finderVars, moduleVars
<1>11. CASE FireAndWait(t)
  <2>1. PICK u \in Threads \ {t}, n \in Names, h \in Hooks :
          /\ label' = [label EXCEPT ![u] = "register", ![t] = "join"]
          /\ job' = [job EXCEPT ![u] = [op |-> "register", name |-> n]]
          /\ pending' = [pending EXCEPT ![u] = <<h>>, ![t] = Tail(@)]
          /\ helper' = [helper EXCEPT ![t] = u]
    BY <1>11 DEF FireAndWait
  <2>2. called' = called \cup {Head(pending[t])} /\ pending[t] # <<>>
    BY <1>11 DEF FireAndWait
  <2>3. /\ pending[t] \in Seq(Hooks) /\ Head(pending[t]) \in Hooks
        /\ Tail(pending[t]) \in Seq(Hooks)
    BY <2>2, FiredTyped DEF IInv, TypeOK
  <2>4. pending' \in [Threads -> Seq(Hooks)] /\ called' \subseteq Hooks
    <3>1. PICK q \in Seq(Hooks) : q = Tail(pending[t])
      BY <2>3
    <3>2. pending' = [pending EXCEPT ![u] = <<h>>, ![t] = q] /\ <<h>> \in Seq(Hooks)
      BY <2>1, <3>1
    <3>3. QED
      BY <2>2, <2>3, <3>2 DEF IInv, TypeOK
  <2>5. /\ label' \in [Threads -> Labels] /\ job' \in [Threads -> Jobs \cup {NoJob}]
        /\ helper' \in [Threads -> Threads \cup {NoOne}]
    BY <2>1 DEF IInv, TypeOK, Labels, Jobs
  <2>6. QED
    BY <1>11, <2>4, <2>5 DEF FireAndWait, IInv, TypeOK, dictVars, finderVars, moduleVars
<1>12. CASE Join(t)
  <2>1. label' \in [Threads -> Labels]
    BY <1>12, GotoTyped DEF Join, Labels
  <2>2. QED
    BY <1>12, <2>1 DEF Join, IInv, TypeOK, dictVars, finderVars, moduleVars, history
<1>13. CASE FireRaises(t)
  <2>1. /\ called' = called \cup {Head(pending[t])} /\ pending[t] # <<>>
        /\ lost' = lost \cup Elements(Tail(pending[t]))
    BY <1>13 DEF FireRaises
  <2>2. called' \subseteq Hooks /\ lost' \subseteq Hooks
    BY <2>1, FiredTyped DEF IInv, TypeOK
  <2>3. CASE Return(t)
    BY <1>13, <2>2, <2>3, ReturnTyped DEF FireRaises, IInv, TypeOK, dictVars, finderVars,
       moduleVars
  <2>4. CASE ~Return(t)
    <3>1. /\ Goto(t, "fail") /\ UNCHANGED job
          /\ pending' = [pending EXCEPT ![t] = <<>>]
      BY <1>13, <2>4 DEF FireRaises
    <3>2. label' \in [Threads -> Labels] /\ pending' \in [Threads -> Seq(Hooks)]
      BY <3>1, GotoTyped DEF Labels, IInv, TypeOK
    <3>3. QED
      BY <1>13, <2>2, <3>1, <3>2 DEF FireRaises, IInv, TypeOK, dictVars, finderVars,
         moduleVars
  <2>5. QED
    BY <2>3, <2>4
<1>14. CASE AllFired(t)
  <2>1. CASE Return(t)
    BY <1>14, <2>1, ReturnTyped DEF AllFired, IInv, TypeOK, dictVars, finderVars,
       moduleVars, history
  <2>2. CASE ~Return(t)
    <3>1. Goto(t, "finish") /\ UNCHANGED <<job, pending>>
      BY <1>14, <2>2 DEF AllFired
    <3>2. label' \in [Threads -> Labels]
      BY <3>1, GotoTyped DEF Labels
    <3>3. QED
      BY <1>14, <3>1, <3>2 DEF AllFired, IInv, TypeOK, dictVars, finderVars, moduleVars,
         history
  <2>3. QED
    BY <2>1, <2>2
<1>15. CASE Finish(t) \/ Abort(t)
  <2>1. PICK state \in {"loaded", "absent"} : EndImport(t, state)
    BY <1>15 DEF Finish, Abort
  <2>2. /\ modules' \in [Names -> {"absent", "partial", "executed", "loaded"}]
        /\ owner' \in [Names -> Threads \cup {NoOne}] /\ chained' \in [Threads -> BOOLEAN]
    BY <2>1 DEF EndImport, IInv, TypeOK
  <2>3. QED
    BY <2>1, <2>2, ReturnTyped DEF EndImport, IInv, TypeOK, dictVars, history
<1>16. QED
  BY <1>1, <1>2, <1>3, <1>4, <1>5, <1>6, <1>7, <1>8, <1>9, <1>10, <1>11, <1>12, <1>13,
     <1>14, <1>15 DEF Step

(***************************************************************************)
(* Control, module locks and the finder.                                   *)
(***************************************************************************)
Settled(t) == JobFits(t) /\ ModuleOwned(t) /\ FinderLocked(t)

(* A step of another thread leaves v where it is, or starts it with a hook to
   register; the module v imports and the finder it is in are its own. *)
Unmoved(v) == label'[v] = label[v] /\ job'[v] = job[v] /\ inner'[v] = inner[v]

Started(v) ==
  /\ label[v] = "idle" /\ label'[v] = "register" /\ inner'[v] = inner[v]
  /\ job'[v] \in Jobs /\ job'[v].op = "register"

Apart(t) ==
  \A v \in Threads \ {t} :
    /\ Unmoved(v) \/ Started(v)
    /\ Importing(v) => /\ owner'[job[v].name] = owner[job[v].name]
                       /\ modules'[job[v].name] = modules[job[v].name]
    /\ label[v] \in InFinder => importLock' = importLock

LEMMA OthersSettled ==
  ASSUME IInv, NEW t \in Threads, Apart(t), NEW v \in Threads \ {t}
  PROVE  Settled(v)'
<1>1. Settled(v)
  BY DEF IInv, Flow, Settled
<1>2. CASE Unmoved(v)
  <2>1. /\ Importing(v) => /\ owner'[job[v].name] = owner[job[v].name]
                           /\ modules'[job[v].name] = modules[job[v].name]
        /\ label[v] \in InFinder => importLock' = importLock
    BY DEF Apart
  <2>2. JobFits(v)'
    BY <1>1, <1>2 DEF Settled, Unmoved, JobFits
  <2>3. ModuleOwned(v)'
    BY <1>1, <1>2, <2>1 DEF Settled, Unmoved, ModuleOwned, Importing
  <2>4. FinderLocked(v)'
    BY <1>1, <1>2, <2>1 DEF Settled, Unmoved, FinderLocked, InFinder
  <2>5. QED
    BY <2>2, <2>3, <2>4 DEF Settled
<1>3. CASE Started(v)
  BY <1>1, <1>3 DEF Settled, Started, JobFits, ModuleOwned, Importing, FinderLocked, InFinder
<1>4. QED
  BY <1>2, <1>3 DEF Apart

(* What a step that neither locks, loads nor searches leaves alone. *)
ModulesKept == UNCHANGED <<modules, owner>>

FinderKept == UNCHANGED <<inProgress, inner, importLock>>

LEMMA PartialKept ==
  ASSUME IInv, NEW t \in Threads, Apart(t), ModulesKept,
         label[t] \in {"exec", "fail"} => label'[t] \in {"exec", "fail"} /\ job'[t] = job[t],
         NEW n \in Names
  PROVE  PartialOwned(n)'
<1> SUFFICES ASSUME modules[n] = "partial" PROVE PartialOwned(n)'
  BY DEF PartialOwned, ModulesKept
<1>1. PICK v \in Threads : /\ owner[n] = v /\ job[v] = [op |-> "import", name |-> n]
                           /\ label[v] \in {"exec", "fail"}
  BY DEF IInv, Flow, PartialOwned
<1>2. label'[v] \in {"exec", "fail"} /\ job'[v] = job[v]
  BY <1>1 DEF Apart, Unmoved, Started
<1>3. QED
  BY <1>1, <1>2 DEF PartialOwned, ModulesKept

LEMMA InProgressKept ==
  ASSUME IInv, NEW t \in Threads, Apart(t), inProgress' = inProgress,
         inner[t] => inner'[t] /\ job'[t] = job[t], NEW n \in Names
  PROVE  InProgressHeld(n)'
<1> SUFFICES ASSUME n \in inProgress PROVE InProgressHeld(n)'
  BY DEF InProgressHeld
<1>1. PICK v \in Threads : inner[v] /\ job[v].name = n
  BY DEF IInv, Flow, InProgressHeld
<1>2. label[v] # "idle"
  BY <1>1 DEF IInv, Flow, FinderLocked, InFinder
<1>3. inner'[v] /\ job'[v] = job[v]
  BY <1>1, <1>2 DEF Apart, Unmoved, Started
<1>4. QED
  BY <1>1, <1>3 DEF InProgressHeld

(* A step that leaves the modules and the finder alone. *)
LEMMA PlainStep ==
  ASSUME IInv, NEW t \in Threads, ModulesKept, FinderKept, Settled(t)',
         \A v \in Threads \ {t} : Unmoved(v) \/ Started(v),
         label[t] \in {"exec", "fail"} => label'[t] \in {"exec", "fail"},
         label[t] \in InFinder \cup {"exec", "fail"} => job'[t] = job[t]
  PROVE  Flow'
<1>1. Apart(t)
  BY DEF Apart, ModulesKept, FinderKept
<1>2. \A n \in Names : PartialOwned(n)'
  BY <1>1, PartialKept
<1>3. inner[t] => inner'[t] /\ job'[t] = job[t]
  BY DEF IInv, Flow, FinderLocked, FinderKept
<1>4. \A n \in Names : InProgressHeld(n)'
  BY <1>1, <1>3, InProgressKept DEF FinderKept
<1>5. \A v \in Threads : Settled(v)'
  BY <1>1, OthersSettled
<1>6. QED
  BY <1>2, <1>4, <1>5 DEF Flow, Settled

(* A thread that starts, comes to rest or goes on outside the finder. *)
LEMMA StartStep ==
  ASSUME IInv, NEW t \in Threads, label[t] = "idle",
         NEW op \in {"register", "import", "query"}, NEW n \in Names, NEW l \in Labels,
         Start(t, op, n, l), ModulesKept, FinderKept,
         op = "query" => modules[n] = "absent",
         l = CASE op = "register" -> "register" [] op = "import" -> "lockModule"
               [] op = "query" -> "ask"
  PROVE  Flow'
<1>1. /\ label'[t] = l /\ job'[t] = [op |-> op, name |-> n]
      /\ \A v \in Threads \ {t} : Unmoved(v)
  BY StartTyped DEF Unmoved, FinderKept
<1>2. ~inner[t]
  BY DEF IInv, Flow, FinderLocked, InFinder
<1>3. Settled(t)'
  BY <1>1, <1>2 DEF Settled, JobFits, ModuleOwned, Importing, FinderLocked, InFinder,
     FinderKept, Jobs
<1>4. QED
  BY <1>1, <1>3, PlainStep DEF InFinder

LEMMA ReturnStep ==
  ASSUME IInv, NEW t \in Threads, Return(t), ModulesKept, FinderKept,
         label[t] \notin InFinder \cup {"exec", "fail"}
  PROVE  Flow'
<1>1. /\ label'[t] = "idle" /\ job'[t] = NoJob /\ \A v \in Threads \ {t} : Unmoved(v)
  BY ReturnTyped DEF Unmoved, FinderKept
<1>2. ~inner[t]
  BY DEF IInv, Flow, FinderLocked
<1>3. Settled(t)'
  BY <1>1, <1>2 DEF Settled, JobFits, ModuleOwned, Importing, FinderLocked, InFinder,
     FinderKept
<1>4. QED
  BY <1>1, <1>3, PlainStep

LEMMA GotoStep ==
  ASSUME IInv, NEW t \in Threads, NEW l \in Labels, Goto(t, l), UNCHANGED job,
         ModulesKept, FinderKept,
         label[t] \in {"exec", "fail"} => l \in {"exec", "fail"},
         inner[t] => l \in InFinder, l \in InFinder => importLock = t,
         JobFits(t)', ModuleOwned(t)'
  PROVE  Flow'
<1>1. label'[t] = l /\ \A v \in Threads \ {t} : Unmoved(v)
  BY GotoTyped DEF Unmoved, FinderKept
<1>2. FinderLocked(t)'
  BY <1>1 DEF FinderLocked, FinderKept
<1>3. QED
  BY <1>1, <1>2, PlainStep DEF Settled

LEMMA FlowKept ==
  ASSUME IInv, NEW t \in Threads, Register(t) \/ Import(t) \/ Query(t) \/ Step(t)
  PROVE  Flow'
<1>1. Settled(t)
  BY DEF IInv, Flow, Settled
<1>2. CASE Register(t)
  <2>1. \E n \in Names : Start(t, "register", n, "register")
    BY <1>2 DEF Register, StartRegister
  <2>2. QED
    BY <1>2, <2>1, StartStep DEF Register, Free, ModulesKept, FinderKept, moduleVars,
       finderVars, Labels
<1>3. CASE Import(t)
  <2>1. \E n \in Names : Start(t, "import", n, "lockModule")
    BY <1>3 DEF Import
  <2>2. QED
    BY <1>3, <2>1, StartStep DEF Import, Free, ModulesKept, FinderKept, moduleVars,
       finderVars, Labels
<1>4. CASE Query(t)
  <2>1. \E n \in Names : modules[n] = "absent" /\ Start(t, "query", n, "ask")
    BY <1>4 DEF Query
  <2>2. QED
    BY <1>4, <2>1, StartStep DEF Query, Free, ModulesKept, FinderKept, moduleVars,
       finderVars, Labels
<1>5. CASE EnterLock(t)
  <2>1. PICK l \in Labels : Goto(t, l) /\ l = CASE label[t] = "register" -> "registering"
                                               [] label[t] = "enterFind" -> "checkFind"
                                               [] label[t] = "notify" -> "notifying"
    BY <1>5 DEF EnterLock, Labels
  <2>2. ModulesKept /\ FinderKept /\ UNCHANGED job
    BY <1>5 DEF EnterLock, ModulesKept, FinderKept, moduleVars, finderVars
  <2>3. label'[t] = l
    BY <2>1, GotoTyped
  <2>4. JobFits(t)' /\ ModuleOwned(t)'
    BY <1>1, <1>5, <2>1, <2>2, <2>3 DEF EnterLock, Settled, JobFits, ModuleOwned, Importing,
       ModulesKept
  <2>5. QED
    BY <1>1, <1>5, <2>1, <2>2, <2>4, GotoStep DEF EnterLock, Settled, FinderLocked, InFinder
<1>6. CASE RegisterHook(t)
  <2>1. ModulesKept /\ FinderKept
    BY <1>6 DEF RegisterHook, ModulesKept, FinderKept, moduleVars, finderVars
  <2>2. CASE Return(t)
    BY <1>6, <2>1, <2>2, ReturnStep DEF RegisterHook, InFinder
  <2>3. CASE ~Return(t)
    <3>1. Goto(t, "fire") /\ UNCHANGED job
      BY <1>6, <2>3 DEF RegisterHook
    <3>2. label'[t] = "fire"
      BY <3>1, GotoTyped DEF Labels
    <3>3. JobFits(t)' /\ ModuleOwned(t)'
      BY <1>1, <1>6, <3>1, <3>2 DEF RegisterHook, Settled, JobFits, ModuleOwned, Importing
    <3>4. QED
      BY <1>1, <1>6, <2>1, <3>1, <3>3, GotoStep DEF RegisterHook, Settled, FinderLocked,
         InFinder, Labels
  <2>4. QED
    BY <2>2, <2>3
<1>7. CASE LockModule(t)
  <2>1. FinderKept /\ label[t] = "lockModule" /\ ~inner[t] /\ job[t] \in Jobs
    BY <1>1, <1>7 DEF LockModule, FinderKept, finderVars, Settled, FinderLocked, InFinder,
       JobFits
  <2>2. CASE Return(t) /\ UNCHANGED owner
    BY <1>7, <2>1, <2>2, ReturnStep DEF LockModule, ModulesKept, InFinder
  <2>3. CASE ~(Return(t) /\ UNCHANGED owner)
    <3>1. /\ modules[job[t].name] = "absent" /\ owner[job[t].name] = NoOne
          /\ modules' = modules /\ owner' = [owner EXCEPT ![job[t].name] = t]
          /\ Goto(t, "ask") /\ UNCHANGED job
      BY <1>7, <2>3 DEF LockModule
    <3>2. label'[t] = "ask" /\ \A v \in Threads \ {t} : Unmoved(v)
      BY <2>1, <3>1, GotoTyped DEF Labels, Unmoved, FinderKept
    <3>3. owner'[job[t].name] = t
          /\ \A n \in Names \ {job[t].name} : owner'[n] = owner[n]
      BY <2>1, <3>1, JobTyped DEF IInv, TypeOK
    <3>4. Settled(t)'
      BY <1>1, <2>1, <3>1, <3>2, <3>3 DEF Settled, JobFits, ModuleOwned, Importing,
         FinderLocked, InFinder, FinderKept
    <3>5. ASSUME NEW v \in Threads \ {t}, Importing(v)
          PROVE  owner'[job[v].name] = owner[job[v].name]
      BY <3>1, <3>3, <3>5, JobTyped, ImportAssumption DEF IInv, Flow, ModuleOwned, Importing
    <3>6. Apart(t)
      BY <2>1, <3>1, <3>2, <3>5 DEF Apart, FinderKept
    <3>7. ASSUME NEW n \in Names PROVE PartialOwned(n)' /\ InProgressHeld(n)'
      <4>1. InProgressHeld(n)'
        BY <2>1, <3>1, <3>6, InProgressKept DEF FinderKept
      <4>2. ASSUME modules[n] = "partial" PROVE PartialOwned(n)'
        <5>1. PICK v \in Threads : /\ owner[n] = v /\ label[v] \in {"exec", "fail"}
                                   /\ job[v] = [op |-> "import", name |-> n]
          BY <4>2 DEF IInv, Flow, PartialOwned
        <5>2. label'[v] = label[v] /\ job'[v] = job[v] /\ owner'[n] = v
          BY <2>1, <3>1, <3>2, <3>3, <4>2, <5>1 DEF Unmoved
        <5>3. QED
          BY <5>1, <5>2 DEF PartialOwned
      <4>3. QED
        BY <3>1, <4>1, <4>2 DEF PartialOwned
    <3>8. QED
      BY <3>4, <3>6, <3>7, OthersSettled DEF Flow, Settled
  <2>4. QED
    BY <2>2, <2>3
<1>8. CASE Ask(t)
  <2>1. PICK l \in {"enterFind", "search"} : Goto(t, l)
    BY <1>8 DEF Ask
  <2>2. /\ label[t] = "ask" /\ importLock = NoOne /\ importLock' = t /\ ModulesKept
        /\ UNCHANGED <<job, inner, inProgress>> /\ ~inner[t]
    BY <1>1, <1>8 DEF Ask, ModulesKept, moduleVars, Settled, FinderLocked, InFinder
  <2>3. label'[t] = l /\ \A v \in Threads \ {t} : Unmoved(v)
    BY <2>1, <2>2, GotoTyped DEF Unmoved, Labels
  <2>4. \A v \in Threads : label[v] \notin InFinder
    BY <2>2, ImportAssumption DEF IInv, Flow, FinderLocked
  <2>5. Apart(t)
    BY <2>2, <2>3, <2>4 DEF Apart, ModulesKept
  <2>6. Settled(t)'
    BY <1>1, <2>2, <2>3 DEF Settled, JobFits, ModuleOwned, Importing, FinderLocked,
       InFinder, ModulesKept
  <2>7. \A n \in Names : PartialOwned(n)' /\ InProgressHeld(n)'
    BY <2>2, <2>5, PartialKept, InProgressKept
  <2>8. QED
    BY <2>5, <2>6, <2>7, OthersSettled DEF Flow, Settled
<1>9. CASE CheckFind(t)
  <2>1. PICK l \in {"enterFind", "search"} : Goto(t, l)
    BY <1>9 DEF CheckFind
  <2>2. label[t] = "checkFind" /\ ModulesKept /\ UNCHANGED <<job, importLock>>
    BY <1>9 DEF CheckFind, ModulesKept, moduleVars
  <2>3. /\ inner' \in {inner, [inner EXCEPT ![t] = TRUE]}
        /\ inProgress' \subseteq inProgress \cup {job[t].name}
        /\ inProgress' # inProgress => inner' = [inner EXCEPT ![t] = TRUE]
    BY <1>9 DEF CheckFind
  <2>4. \A v \in Threads \ {t} : inner'[v] = inner[v]
    BY <2>3 DEF IInv, TypeOK
  <2>5. label'[t] = l /\ \A v \in Threads \ {t} : Unmoved(v)
    BY <2>1, <2>2, <2>4, GotoTyped DEF Unmoved, Labels
  <2>6. Apart(t)
    BY <2>2, <2>5 DEF Apart, ModulesKept
  <2>7. Settled(t)'
    BY <1>1, <2>2, <2>5 DEF Settled, JobFits, ModuleOwned, Importing, FinderLocked,
       InFinder, ModulesKept
  <2>8. \A n \in Names : PartialOwned(n)'
    BY <2>2, <2>6, PartialKept
  <2>9. ASSUME NEW n \in Names PROVE InProgressHeld(n)'
    <3>1. inner[t] => inner'[t]
      BY <2>3 DEF IInv, TypeOK
    <3>2. CASE inProgress' = inProgress
      BY <2>2, <2>6, <3>1, <3>2, InProgressKept
    <3>3. CASE inProgress' # inProgress
      <4>1. inner'[t] /\ job'[t].name = job[t].name
        BY <2>2, <2>3, <3>3 DEF IInv, TypeOK
      <4>2. CASE n = job[t].name
        BY <4>1, <4>2 DEF InProgressHeld
      <4>3. CASE n # job[t].name /\ n \in inProgress
        <5>1. PICK v \in Threads : inner[v] /\ job[v].name = n
          BY <4>3 DEF IInv, Flow, InProgressHeld
        <5>2. inner'[v] /\ job'[v] = job[v]
          BY <2>2, <2>4, <3>1, <5>1
        <5>3. QED
          BY <5>1, <5>2 DEF InProgressHeld
      <4>4. QED
        BY <2>3, <4>2, <4>3 DEF InProgressHeld
    <3>4. QED
      BY <3>2, <3>3
  <2>10. QED
    BY <2>6, <2>7, <2>8, <2>9, OthersSettled DEF Flow, Settled
<1>10. CASE SearchFinds(t) \/ SearchFails(t)
  <2>1. label[t] = "search" /\ LeaveFind(t) /\ ModulesKept /\ importLock = t
    BY <1>1, <1>10 DEF SearchFinds, SearchFails, ModulesKept, moduleVars, Settled,
       FinderLocked, InFinder
  <2>2. inner'[t] = FALSE /\ \A v \in Threads \ {t} : inner'[v] = inner[v]
    BY <2>1 DEF LeaveFind, IInv, TypeOK
  <2>3. /\ \A v \in Threads \ {t} : Unmoved(v)
        /\ \/ label'[t] = "idle" /\ job'[t] = NoJob
           \/ label'[t] \in {"load", "fail"} /\ job'[t] = job[t] /\ job[t].op = "import"
    <3>1. CASE Return(t)
      BY <2>2, <3>1, ReturnTyped DEF Unmoved
    <3>2. CASE ~Return(t)
      <4>1. PICK l \in {"load", "fail"} : Goto(t, l) /\ UNCHANGED job
        BY <1>10, <3>2 DEF SearchFinds, SearchFails
      <4>2. job[t].op = "import"
        BY <1>1, <1>10, <2>1, <3>2 DEF SearchFinds, SearchFails, Settled, JobFits
      <4>3. QED
        BY <2>2, <4>1, <4>2, GotoTyped DEF Unmoved, Labels
    <3>3. QED
      BY <3>1, <3>2
  <2>4. \A v \in Threads \ {t} : label[v] \notin InFinder
    BY <2>1 DEF IInv, Flow, FinderLocked
  <2>5. Apart(t)
    BY <2>1, <2>3, <2>4 DEF Apart, ModulesKept
  <2>6. Settled(t)'
    BY <1>1, <2>1, <2>2, <2>3 DEF Settled, JobFits, ModuleOwned, Importing, FinderLocked,
       InFinder, ModulesKept
  <2>7. \A n \in Names : PartialOwned(n)'
    BY <2>1, <2>5, PartialKept
  <2>8. \A n \in Names : InProgressHeld(n)'
    BY <2>1, <2>4 DEF LeaveFind, InProgressHeld, IInv, Flow, FinderLocked
  <2>9. QED
    BY <2>5, <2>6, <2>7, <2>8, OthersSettled DEF Flow, Settled
<1>11. CASE Load(t) \/ Exec(t)
  <2>1. /\ label[t] \in {"load", "exec"} /\ FinderKept /\ UNCHANGED <<owner, job>>
        /\ modules' = [modules EXCEPT ![job[t].name] =
                          IF label[t] = "load" THEN "partial" ELSE "executed"]
    BY <1>11 DEF Load, Exec, FinderKept, finderVars
  <2>2. PICK l \in Labels : /\ Goto(t, l)
                            /\ label[t] = "load" => l = "exec"
                            /\ label[t] = "exec" => l \in {"notify", "finish"}
    BY <1>11 DEF Load, Exec, Labels
  <2>3. label'[t] = l /\ \A v \in Threads \ {t} : Unmoved(v)
    BY <2>1, <2>2, GotoTyped DEF Unmoved, FinderKept
  <2>4. job[t] \in Jobs /\ job[t].op = "import" /\ owner[job[t].name] = t
    BY <1>1, <2>1 DEF Settled, JobFits, ModuleOwned, Importing
  <2>5. PICK n \in Names : n = job[t].name /\ job[t] = [op |-> "import", name |-> n]
    BY <2>4 DEF Jobs
  <2>6. /\ modules'[n] = IF label[t] = "load" THEN "partial" ELSE "executed"
        /\ \A m \in Names \ {n} : modules'[m] = modules[m]
    BY <2>1, <2>5 DEF IInv, TypeOK
  <2>7. \A v \in Threads \ {t} : Importing(v) => job[v].name \in Names \ {n}
    BY <2>4, <2>5, JobTyped DEF IInv, Flow, ModuleOwned, Importing
  <2>8. Apart(t)
    BY <2>1, <2>3, <2>6, <2>7 DEF Apart, FinderKept
  <2>9. Settled(t)'
    BY <1>1, <2>1, <2>2, <2>3, <2>5, <2>6 DEF Settled, JobFits, ModuleOwned, Importing,
       FinderLocked, InFinder, FinderKept
  <2>10. ASSUME NEW m \in Names PROVE PartialOwned(m)'
    <3>1. CASE m = n
      <4>1. CASE label[t] = "load"
        <5>1. owner'[n] = t /\ job'[t] = job[t] /\ label'[t] = "exec"
          BY <2>1, <2>2, <2>3, <2>4, <2>5, <4>1
        <5>2. QED
          BY <2>5, <3>1, <5>1 DEF PartialOwned
      <4>2. CASE label[t] # "load"
        BY <2>6, <3>1, <4>2 DEF PartialOwned
      <4>3. QED
        BY <4>1, <4>2
    <3>2. CASE m # n /\ modules[m] = "partial"
      <4>1. PICK v \in Threads : /\ owner[m] = v /\ label[v] \in {"exec", "fail"}
                                 /\ job[v] = [op |-> "import", name |-> m]
        BY <3>2 DEF IInv, Flow, PartialOwned
      <4>2. v # t
        BY <2>5, <3>2, <4>1
      <4>3. label'[v] = label[v] /\ job'[v] = job[v] /\ owner'[m] = v
        BY <2>1, <2>3, <4>1, <4>2 DEF Unmoved
      <4>4. QED
        BY <4>1, <4>3 DEF PartialOwned
    <3>3. QED
      BY <2>6, <3>1, <3>2 DEF PartialOwned
  <2>11. \A m \in Names : InProgressHeld(m)'
    BY <2>1, <2>8, InProgressKept DEF FinderKept
  <2>12. QED
    BY <2>8, <2>9, <2>10, <2>11, OthersSettled DEF Flow, Settled
<1>12. CASE ExecRaises(t) \/ Notify(t)
  <2>1. PICK l \in {"fail", "fire"} : Goto(t, l) /\ (label[t] = "exec" <=> l = "fail")
    BY <1>12 DEF ExecRaises, Notify
  <2>2. ModulesKept /\ FinderKept /\ UNCHANGED job /\ label[t] \in {"exec", "notifying"}
    BY <1>12 DEF ExecRaises, Notify, ModulesKept, FinderKept, moduleVars, finderVars
  <2>3. label'[t] = l
    BY <2>1, GotoTyped DEF Labels
  <2>4. JobFits(t)' /\ ModuleOwned(t)'
    BY <1>1, <2>1, <2>2, <2>3 DEF Settled, JobFits, ModuleOwned, Importing, ModulesKept
  <2>5. QED
    BY <1>1, <2>1, <2>2, <2>4, GotoStep DEF Settled, FinderLocked, InFinder, Labels
<1>13. CASE Fire(t)
  <2>1. ModulesKept /\ FinderKept /\ UNCHANGED <<label, job>> /\ label[t] = "fire"
    BY <1>13 DEF Fire, ModulesKept, FinderKept, moduleVars, finderVars
  <2>2. Settled(t)'
    BY <1>1, <2>1 DEF Settled, JobFits, ModuleOwned, Importing, FinderLocked, InFinder,
       FinderKept, ModulesKept
  <2>3. QED
    BY <2>1, <2>2, PlainStep DEF Unmoved, FinderKept
<1>14. CASE FireAndWait(t)
  <2>1. PICK u \in Threads \ {t}, n \in Names :
          /\ Free(u)
          /\ label' = [label EXCEPT ![u] = "register", ![t] = "join"]
          /\ job' = [job EXCEPT ![u] = [op |-> "register", name |-> n]]
    BY <1>14 DEF FireAndWait
  <2>2. ModulesKept /\ FinderKept /\ label[t] = "fire"
    BY <1>14 DEF FireAndWait, ModulesKept, FinderKept, moduleVars, finderVars
  <2>3. /\ label'[t] = "join" /\ job'[t] = job[t] /\ Started(u)
        /\ \A v \in Threads \ {t, u} : Unmoved(v)
    BY <2>1, <2>2 DEF IInv, TypeOK, Free, FinderKept, Started, Unmoved, Jobs
  <2>4. Settled(t)'
    BY <1>1, <2>2, <2>3 DEF Settled, JobFits, ModuleOwned, Importing, FinderLocked, InFinder,
       FinderKept, ModulesKept
  <2>5. QED
    BY <2>2, <2>3, <2>4, PlainStep
<1>15. CASE Join(t)
  <2>1. Goto(t, "fire") /\ ModulesKept /\ FinderKept /\ UNCHANGED job /\ label[t] = "join"
    BY <1>15 DEF Join, ModulesKept, FinderKept, moduleVars, finderVars
  <2>2. label'[t] = "fire"
    BY <2>1, GotoTyped DEF Labels
  <2>3. JobFits(t)' /\ ModuleOwned(t)'
    BY <1>1, <2>1, <2>2 DEF Settled, JobFits, ModuleOwned, Importing, ModulesKept
  <2>4. QED
    BY <1>1, <2>1, <2>3, GotoStep DEF Settled, FinderLocked, InFinder, Labels
<1>16. CASE FireRaises(t) \/ AllFired(t)
  <2>1. ModulesKept /\ FinderKept /\ label[t] = "fire"
    BY <1>16 DEF FireRaises, AllFired, ModulesKept, FinderKept, moduleVars, finderVars
  <2>2. CASE Return(t)
    BY <2>1, <2>2, ReturnStep DEF InFinder
  <2>3. CASE ~Return(t)
    <3>1. /\ job[t].op # "register" /\ UNCHANGED job
          /\ \E l \in {"fail", "finish"} : Goto(t, l)
      BY <1>16, <2>3 DEF FireRaises, AllFired
    <3>2. PICK l \in {"fail", "finish"} : Goto(t, l)
      BY <3>1
    <3>3. label'[t] = l
      BY <3>2, GotoTyped DEF Labels
    <3>4. JobFits(t)' /\ ModuleOwned(t)'
      BY <1>1, <2>1, <3>1, <3>3 DEF Settled, JobFits, ModuleOwned, Importing, ModulesKept
    <3>5. QED
      BY <1>1, <2>1, <3>1, <3>2, <3>4, GotoStep DEF Settled, FinderLocked, InFinder, Labels
  <2>4. QED
    BY <2>2, <2>3
<1>17. CASE Finish(t) \/ Abort(t)
  <2>1. PICK state \in {"loaded", "absent"} : EndImport(t, state)
    BY <1>17 DEF Finish, Abort
  <2>2. label[t] \in {"finish", "fail"} /\ FinderKept
    BY <1>17, <2>1 DEF Finish, Abort, EndImport, FinderKept
  <2>3. job[t] \in Jobs /\ job[t].op = "import" /\ owner[job[t].name] = t /\ ~inner[t]
    BY <1>1, <2>2 DEF Settled, JobFits, ModuleOwned, Importing, FinderLocked, InFinder
  <2>4. PICK n \in Names : n = job[t].name /\ job[t] = [op |-> "import", name |-> n]
    BY <2>3 DEF Jobs
  <2>5. /\ label'[t] = "idle" /\ job'[t] = NoJob /\ \A v \in Threads \ {t} : Unmoved(v)
    BY <2>1, <2>2, ReturnTyped DEF EndImport, Unmoved, FinderKept
  <2>6. /\ modules'[n] = state
        /\ \A m \in Names \ {n} : modules'[m] = modules[m] /\ owner'[m] = owner[m]
    BY <2>1, <2>4 DEF EndImport, IInv, TypeOK
  <2>7. \A v \in Threads \ {t} : Importing(v) => job[v].name \in Names \ {n}
    BY <2>3, <2>4, JobTyped DEF IInv, Flow, ModuleOwned, Importing
  <2>8. Apart(t)
    BY <2>2, <2>5, <2>6, <2>7 DEF Apart, FinderKept
  <2>9. Settled(t)'
    BY <2>2, <2>3, <2>5 DEF Settled, JobFits, ModuleOwned, Importing, FinderLocked, InFinder,
       FinderKept
  <2>10. ASSUME NEW m \in Names PROVE PartialOwned(m)'
    <3>1. CASE m = n
      BY <2>6, <3>1 DEF PartialOwned
    <3>2. CASE m # n /\ modules[m] = "partial"
      <4>1. PICK v \in Threads : /\ owner[m] = v /\ label[v] \in {"exec", "fail"}
                                 /\ job[v] = [op |-> "import", name |-> m]
        BY <3>2 DEF IInv, Flow, PartialOwned
      <4>2. v # t
        BY <2>4, <3>2, <4>1
      <4>3. label'[v] = label[v] /\ job'[v] = job[v] /\ owner'[m] = v
        BY <2>5, <2>6, <3>2, <4>1, <4>2 DEF Unmoved
      <4>4. QED
        BY <4>1, <4>3 DEF PartialOwned
    <3>3. QED
      BY <2>6, <3>1, <3>2 DEF PartialOwned
  <2>11. \A m \in Names : InProgressHeld(m)'
    BY <2>2, <2>3, <2>8, InProgressKept DEF FinderKept
  <2>12. QED
    BY <2>8, <2>9, <2>10, <2>11, OthersSettled DEF Flow, Settled
<1>18. QED
  BY <1>2, <1>3, <1>4, <1>5, <1>6, <1>7, <1>8, <1>9, <1>10, <1>11, <1>12, <1>13, <1>14,
     <1>15, <1>16, <1>17 DEF Step

(***************************************************************************)
(* The keys.  Only RegisterHook adds one, for a module that is not in      *)
(* sys.modules, and not for one that is being imported unless it is Racing. *)
(***************************************************************************)
LEMMA Elsewhere ==
  ASSUME IInv, NEW t \in Threads, Register(t) \/ Import(t) \/ Query(t) \/ Step(t)
  PROVE  \A v \in Threads \ {t} : Unmoved(v) \/ Started(v)
<1>1. CASE FireAndWait(t)
  <2>1. PICK u \in Threads \ {t}, n \in Names :
          /\ Free(u)
          /\ label' = [label EXCEPT ![u] = "register", ![t] = "join"]
          /\ job' = [job EXCEPT ![u] = [op |-> "register", name |-> n]]
    BY <1>1 DEF FireAndWait
  <2>2. UNCHANGED inner
    BY <1>1 DEF FireAndWait, finderVars
  <2>3. Started(u) /\ \A v \in Threads \ {t, u} : Unmoved(v)
    BY <2>1, <2>2 DEF IInv, TypeOK, Free, Started, Unmoved, Jobs
  <2>4. QED
    BY <2>3
<1>2. CASE ~FireAndWait(t)
  <2>1. \A v \in Threads \ {t} : inner'[v] = inner[v]
    BY <1>2 DEF Register, Import, Query, Step, EnterLock, RegisterHook, LockModule, Ask,
       CheckFind, SearchFinds, SearchFails, LeaveFind, Load, Exec, ExecRaises, Notify, Fire,
       Join, FireRaises, AllFired, Finish, Abort, EndImport, finderVars, IInv, TypeOK
  <2>2. \A v \in Threads \ {t} : label'[v] = label[v]
    BY <1>2 DEF Register, StartRegister, Import, Query, Step, EnterLock, RegisterHook,
       LockModule, Ask, CheckFind, SearchFinds, SearchFails, Load, Exec, ExecRaises, Notify,
       Fire, Join, FireRaises, AllFired, Finish, Abort, EndImport, Start, Goto, Return,
       IInv, TypeOK
  <2>3. \A v \in Threads \ {t} : job'[v] = job[v]
    BY <1>2 DEF Register, StartRegister, Import, Query, Step, EnterLock, RegisterHook,
       LockModule, Ask, CheckFind, SearchFinds, SearchFails, Load, Exec, ExecRaises, Notify,
       Fire, Join, FireRaises, AllFired, Finish, Abort, EndImport, Start, Return,
       IInv, TypeOK
  <2>4. QED
    BY <2>1, <2>2, <2>3 DEF Unmoved
<1>3. QED
  BY <1>1, <1>2

(* No importer sees a key it is not prepared for, or loses its loader. *)
KeyApart(v) ==
  /\ chained[v] => chained'[v]
  /\ label[v] = "finish" => chained'[v] = chained[v]
  /\ Importing(v) /\ job[v].name \in keys' \ keys
       => job[v].name \in Racing /\ modules[job[v].name] = "absent"

LEMMA OthersKeys ==
  ASSUME IInv, NEW v \in Threads, Unmoved(v) \/ Started(v), KeyApart(v)
  PROVE  QuietImport(v)' /\ Notified(v)'
<1>1. QuietImport(v) /\ Notified(v) /\ ModuleOwned(v)
  BY DEF IInv, KeysRight, Flow
<1>2. CASE Unmoved(v)
  <2>1. QuietImport(v)'
    BY <1>1, <1>2 DEF Unmoved, KeyApart, QuietImport, Importing
  <2>2. Notified(v)'
    BY <1>1, <1>2 DEF Unmoved, KeyApart, Notified, Importing, ModuleOwned
  <2>3. QED
    BY <2>1, <2>2
<1>3. CASE Started(v)
  BY <1>3 DEF Started, QuietImport, Notified, Importing
<1>4. QED
  BY <1>2, <1>3

(* A step that adds no key, starts no job and loads no module. *)
LEMMA KeysStep ==
  ASSUME IInv, NEW t \in Threads, \A v \in Threads \ {t} : Unmoved(v) \/ Started(v),
         \A v \in Threads \ {t} : KeyApart(v),
         QuietImport(t)', Notified(t)', \A n \in Names : Exclusive(n)',
         keys' \subseteq keys, installed' = installed,
         \A n \in Names : modules'[n] = "loaded" =>
            modules[n] = "loaded" \/ n \in Racing \/ n \notin keys'
  PROVE  KeysRight'
<1>1. \A v \in Threads : QuietImport(v)' /\ Notified(v)'
  BY OthersKeys
<1>2. \A n \in Names : QuietLoaded(n)'
  BY DEF IInv, KeysRight, QuietLoaded
<1>3. QED
  BY <1>1, <1>2 DEF KeysRight, IInv

LEMMA NoNewJob ==
  ASSUME IInv, \A v \in Threads : job'[v] \in {job[v], NoJob}
  PROVE  \A n \in Names : Exclusive(n)'
<1>1. ASSUME NEW op \in {"import", "register"}, NEW n \in Names, Busy(op, n)'
      PROVE  Busy(op, n)
  <2>1. PICK v \in Threads : job'[v] = [op |-> op, name |-> n]
    BY <1>1 DEF Busy
  <2>2. job'[v] # NoJob
    BY <2>1 DEF NoJob
  <2>3. QED
    BY <2>1, <2>2 DEF Busy
<1>2. QED
  BY <1>1 DEF Exclusive, IInv, KeysRight

(* A thread takes a job that no other has the opposite of. *)
LEMMA NewJob ==
  ASSUME IInv, NEW t \in Threads, NEW n \in Names, NEW op \in {"import", "register"},
         job' = [job EXCEPT ![t] = [op |-> op, name |-> n]],
         \/ n \in Racing
         \/ ~Busy(IF op = "import" THEN "register" ELSE "import", n)
  PROVE  \A m \in Names : Exclusive(m)'
<1> SUFFICES ASSUME NEW m \in Names \ Racing, Busy("import", m)', Busy("register", m)'
             PROVE  FALSE
  BY DEF Exclusive
<1>1. PICK v \in Threads : job'[v] = [op |-> "import", name |-> m]
  BY DEF Busy
<1>2. PICK u \in Threads : job'[u] = [op |-> "register", name |-> m]
  BY DEF Busy
<1>3. /\ job'[t] = [op |-> op, name |-> n] /\ \A w \in Threads \ {t} : job'[w] = job[w]
  BY DEF IInv, TypeOK
<1>4. Exclusive(m)
  BY DEF IInv, KeysRight
<1>5. CASE v = t
  <2>1. op = "import" /\ m = n /\ u # t
    BY <1>1, <1>2, <1>3, <1>5
  <2>2. QED
    BY <1>2, <1>3, <2>1 DEF Busy
<1>6. CASE u = t
  <2>1. op = "register" /\ m = n /\ v # t
    BY <1>1, <1>2, <1>3, <1>6
  <2>2. QED
    BY <1>1, <1>3, <2>1 DEF Busy
<1>7. CASE v # t /\ u # t
  BY <1>1, <1>2, <1>3, <1>4, <1>7 DEF Busy, Exclusive
<1>8. QED
  BY <1>5, <1>6, <1>7

LEMMA KeysKept ==
  ASSUME IInv, NEW t \in Threads, Register(t) \/ Import(t) \/ Query(t) \/ Step(t)
  PROVE  KeysRight'
<1>1. \A v \in Threads \ {t} : Unmoved(v) \/ Started(v)
  BY Elsewhere
<1>2. Settled(t) /\ QuietImport(t) /\ Notified(t)
  BY DEF IInv, Flow, Settled, KeysRight
<1>3. CASE Register(t) \/ Import(t) \/ Query(t)
  <2>1. PICK op \in {"register", "import", "query"}, n \in Names, l \in Labels :
          /\ Start(t, op, n, l) /\ l \in {"register", "lockModule", "ask"}
          /\ l = "ask" => op = "query"
          /\ op = "register" => n \in Racing \/ ~Busy("import", n)
          /\ op = "import" => n \in Racing \/ ~Busy("register", n)
    BY <1>3 DEF Register, StartRegister, Import, Query, Labels
  <2>2. UNCHANGED <<keys, installed, chained, modules>>
    BY <1>3 DEF Register, Import, Query, dictVars, finderVars, moduleVars
  <2>3. label'[t] = l /\ job'[t] = [op |-> op, name |-> n]
    BY <2>1, StartTyped
  <2>4. QuietImport(t)' /\ Notified(t)'
    BY <2>1, <2>3 DEF QuietImport, Notified, Importing
  <2>5. \A m \in Names : Exclusive(m)'
    <3>1. CASE op = "query"
      <4>1. \A v \in Threads \ {t} : job'[v] = job[v]
        BY <2>1, StartTyped
      <4>2. \A v \in Threads : job'[v] = job[v] \/ job'[v].op = "query"
        BY <2>3, <3>1, <4>1
      <4>3. ASSUME NEW k \in {"import", "register"}, NEW m \in Names, Busy(k, m)'
            PROVE  Busy(k, m)
        BY <4>2, <4>3 DEF Busy
      <4>4. QED
        BY <4>3 DEF Exclusive, IInv, KeysRight
    <3>2. CASE op # "query"
      BY <2>1, <3>2, NewJob DEF Start
    <3>3. QED
      BY <3>1, <3>2
  <2>6. QED
    BY <1>1, <2>2, <2>4, <2>5, KeysStep DEF KeyApart
<1>4. CASE EnterLock(t) \/ LockModule(t) \/ ExecRaises(t)
  <2>1. UNCHANGED <<keys, installed, chained, modules>>
    BY <1>4 DEF EnterLock, LockModule, ExecRaises, dictVars, finderVars, moduleVars
  <2>2. /\ label'[t] \in {"registering", "checkFind", "notifying", "ask", "fail", "idle"}
        /\ \A v \in Threads : job'[v] \in {job[v], NoJob}
    BY <1>4 DEF EnterLock, LockModule, ExecRaises, Goto, Return, IInv, TypeOK
  <2>3. QuietImport(t)' /\ Notified(t)'
    BY <2>2 DEF QuietImport, Notified, Importing
  <2>4. QED
    BY <1>1, <2>1, <2>2, <2>3, NoNewJob, KeysStep DEF KeyApart
<1>5. CASE RegisterHook(t)
  <2>1. PICK n \in Names : n = job[t].name
    BY <1>5, JobTyped DEF RegisterHook
  <2>2. /\ job[t] = [op |-> "register", name |-> n] /\ installed' = TRUE
        /\ keys' = keys \/ (keys' = keys \cup {n} /\ modules[n] = "absent")
        /\ UNCHANGED <<chained, modules>>
    BY <1>2, <1>5, <2>1 DEF RegisterHook, Settled, JobFits, Jobs, finderVars, moduleVars
  <2>3. /\ label'[t] \in {"idle", "fire"} /\ job'[t] \in {job[t], NoJob}
        /\ \A v \in Threads : job'[v] \in {job[v], NoJob}
    BY <1>5 DEF RegisterHook, Goto, Return, IInv, TypeOK
  <2>4. QuietImport(t)' /\ Notified(t)'
    BY <2>2, <2>3 DEF QuietImport, Notified, Importing, NoJob
  <2>5. ASSUME NEW v \in Threads \ {t} PROVE KeyApart(v)
    <3>1. ASSUME Importing(v), job[v].name \in keys' \ keys
          PROVE  job[v].name \in Racing /\ modules[job[v].name] = "absent"
      <4>1. job[v].name = n /\ modules[n] = "absent"
        BY <2>2, <3>1
      <4>2. job[v] = [op |-> "import", name |-> n]
        BY <3>1, <4>1 DEF Importing, IInv, Flow, JobFits, Jobs
      <4>3. Busy("import", n) /\ Busy("register", n)
        BY <2>2, <4>2 DEF Busy
      <4>4. QED
        BY <4>1, <4>3 DEF IInv, KeysRight, Exclusive
    <3>2. QED
      BY <2>2, <3>1 DEF KeyApart
  <2>6. \A v \in Threads : QuietImport(v)' /\ Notified(v)'
    BY <1>1, <2>4, <2>5, OthersKeys
  <2>7. \A m \in Names : Exclusive(m)' /\ QuietLoaded(m)'
    BY <2>2, <2>3, NoNewJob DEF IInv, KeysRight, QuietLoaded
  <2>8. QED
    BY <2>2, <2>6, <2>7 DEF KeysRight
<1>6. CASE Ask(t)
  <2>1. UNCHANGED <<keys, installed, chained, modules, job>> /\ inner' = inner
    BY <1>6 DEF Ask, dictVars, moduleVars
  <2>2. label'[t] = IF installed THEN "enterFind" ELSE "search"
    BY <1>6 DEF Ask, Goto, IInv, TypeOK
  <2>3. QuietImport(t)' /\ Notified(t)'
    BY <2>1, <2>2 DEF QuietImport, Notified, Importing, IInv, KeysRight
  <2>4. QED
    BY <1>1, <2>1, <2>3, NoNewJob, KeysStep DEF KeyApart
<1>7. CASE CheckFind(t)
  <2>1. UNCHANGED <<keys, installed, chained, modules, job>>
    BY <1>7 DEF CheckFind, dictVars, moduleVars
  <2>2. job[t].name \in Names /\ importLock = t
    BY <1>2, <1>7, JobTyped DEF CheckFind, Settled, FinderLocked, InFinder
  <2>3. ASSUME label'[t] = "search", ~inner'[t] PROVE job[t].name \notin keys
    <3>1. job[t].name \notin keys \ inProgress /\ inner' = inner
      BY <1>7, <2>3 DEF CheckFind, Goto, IInv, TypeOK
    <3>2. job[t].name \notin inProgress
      <4>1. ASSUME job[t].name \in inProgress PROVE FALSE
        <5>1. PICK v \in Threads : inner[v]
          BY <2>2, <4>1 DEF IInv, Flow, InProgressHeld
        <5>2. v = t
          BY <2>2, <5>1 DEF IInv, Flow, FinderLocked
        <5>3. QED
          BY <2>3, <3>1, <5>1, <5>2
      <4>2. QED
        BY <4>1
    <3>3. QED
      BY <3>1, <3>2
  <2>4. label'[t] \in {"enterFind", "search"}
    BY <1>7 DEF CheckFind, Goto, IInv, TypeOK
  <2>5. QuietImport(t)' /\ Notified(t)'
    BY <2>1, <2>3, <2>4 DEF QuietImport, Notified, Importing
  <2>6. QED
    BY <1>1, <2>1, <2>5, NoNewJob, KeysStep DEF KeyApart
<1>8. CASE SearchFinds(t)
  <2>1. UNCHANGED <<keys, installed, modules>> /\ label[t] = "search"
    BY <1>8 DEF SearchFinds, dictVars, moduleVars
  <2>2. \A v \in Threads : job'[v] \in {job[v], NoJob}
    BY <1>8 DEF SearchFinds, Return, IInv, TypeOK
  <2>3. CASE job[t].op = "query"
    <3>1. label'[t] = "idle"
      BY <1>8, <2>3, ReturnTyped DEF SearchFinds
    <3>2. QuietImport(t)' /\ Notified(t)'
      BY <3>1 DEF QuietImport, Notified, Importing
    <3>3. ASSUME NEW v \in Threads \ {t} PROVE KeyApart(v)
      <4>1. CASE UNCHANGED chained
        BY <2>1, <4>1 DEF KeyApart
      <4>2. CASE /\ modules[job[t].name] = "partial"
                 /\ chained' = [chained EXCEPT ![owner[job[t].name]] = TRUE]
        <5>1. job[t].name \in Names
          BY <2>1, JobTyped
        <5>2. PICK u \in Threads : owner[job[t].name] = u /\ label[u] \in {"exec", "fail"}
          BY <4>2, <5>1 DEF IInv, Flow, PartialOwned
        <5>3. chained'[v] = chained[v] \/ (v = u /\ chained'[v])
          BY <4>2, <5>2 DEF IInv, TypeOK
        <5>4. QED
          BY <2>1, <5>2, <5>3 DEF KeyApart
      <4>3. QED
        BY <1>8, <2>3, <4>1, <4>2 DEF SearchFinds
    <3>4. QED
      BY <1>1, <2>1, <2>2, <3>2, <3>3, NoNewJob, KeysStep
  <2>4. CASE job[t].op # "query"
    <3>1. /\ chained' = [chained EXCEPT ![t] = inner[t]] /\ UNCHANGED job
          /\ Goto(t, "load")
      BY <1>8, <2>4 DEF SearchFinds
    <3>2. label'[t] = "load" /\ chained'[t] = inner[t]
          /\ \A v \in Threads \ {t} : chained'[v] = chained[v]
      BY <3>1, GotoTyped DEF Labels, IInv, TypeOK
    <3>3. QuietImport(t)' /\ Notified(t)'
      BY <1>2, <2>1, <3>1, <3>2 DEF QuietImport, Notified, Importing
    <3>4. QED
      BY <1>1, <2>1, <2>2, <3>2, <3>3, NoNewJob, KeysStep DEF KeyApart
  <2>5. QED
    BY <2>3, <2>4
<1>9. CASE SearchFails(t)
  <2>1. UNCHANGED <<keys, installed, chained, modules>>
    BY <1>9 DEF SearchFails, dictVars, moduleVars
  <2>2. /\ label'[t] \in {"fail", "idle"}
        /\ \A v \in Threads : job'[v] \in {job[v], NoJob}
    BY <1>9 DEF SearchFails, Goto, Return, IInv, TypeOK
  <2>3. QuietImport(t)' /\ Notified(t)'
    BY <2>2 DEF QuietImport, Notified, Importing
  <2>4. QED
    BY <1>1, <2>1, <2>2, <2>3, NoNewJob, KeysStep DEF KeyApart
<1>10. CASE Load(t) \/ Exec(t)
  <2>1. /\ UNCHANGED <<keys, installed, chained, job>> /\ label[t] \in {"load", "exec"}
        /\ modules' = [modules EXCEPT ![job[t].name] =
                          IF label[t] = "load" THEN "partial" ELSE "executed"]
    BY <1>10 DEF Load, Exec, dictVars, finderVars
  <2>2. /\ label[t] = "load" => label'[t] = "exec"
        /\ label[t] = "exec" => label'[t] = IF chained[t] THEN "notify" ELSE "finish"
    BY <1>10 DEF Load, Exec, Goto, IInv, TypeOK
  <2>3. QuietImport(t)' /\ Notified(t)'
    BY <1>2, <2>1, <2>2 DEF QuietImport, Notified, Importing
  <2>4. \A n \in Names : modules'[n] = "loaded" => modules[n] = "loaded"
    BY <2>1 DEF IInv, TypeOK
  <2>5. QED
    BY <1>1, <2>1, <2>3, <2>4, NoNewJob, KeysStep DEF KeyApart
<1>11. CASE Notify(t)
  <2>1. /\ UNCHANGED <<installed, chained, modules, job>> /\ keys' = keys \ {job[t].name}
    BY <1>11 DEF Notify, finderVars, moduleVars
  <2>2. label'[t] = "fire"
    BY <1>11, GotoTyped DEF Notify, Labels
  <2>3. QuietImport(t)' /\ Notified(t)'
    BY <2>1, <2>2 DEF QuietImport, Notified, Importing
  <2>4. QED
    BY <1>1, <2>1, <2>3, NoNewJob, KeysStep DEF KeyApart
<1>12. CASE Fire(t) \/ Join(t)
  <2>1. /\ UNCHANGED <<keys, installed, chained, modules, job>>
        /\ label[t] \in {"fire", "join"} /\ label'[t] = "fire"
    BY <1>12 DEF Fire, Join, Goto, IInv, TypeOK, dictVars, finderVars, moduleVars
  <2>2. QuietImport(t)' /\ Notified(t)'
    BY <1>2, <2>1 DEF QuietImport, Notified, Importing
  <2>3. QED
    BY <1>1, <2>1, <2>2, NoNewJob, KeysStep DEF KeyApart
<1>13. CASE FireAndWait(t)
  <2>1. PICK u \in Threads \ {t}, n \in Names :
          /\ n \in Racing \/ ~Busy("import", n)
          /\ label' = [label EXCEPT ![u] = "register", ![t] = "join"]
          /\ job' = [job EXCEPT ![u] = [op |-> "register", name |-> n]]
    BY <1>13 DEF FireAndWait
  <2>2. UNCHANGED <<keys, installed, chained, modules>> /\ label[t] = "fire"
    BY <1>13 DEF FireAndWait, dictVars, finderVars, moduleVars
  <2>3. label'[t] = "join" /\ job'[t] = job[t]
    BY <2>1 DEF IInv, TypeOK
  <2>4. QuietImport(t)' /\ Notified(t)'
    BY <1>2, <2>2, <2>3 DEF QuietImport, Notified, Importing
  <2>5. \A m \in Names : Exclusive(m)'
    BY <2>1, NewJob
  <2>6. QED
    BY <1>1, <2>2, <2>4, <2>5, KeysStep DEF KeyApart
<1>14. CASE FireRaises(t) \/ AllFired(t)
  <2>1. UNCHANGED <<keys, installed, chained, modules>> /\ label[t] = "fire"
    BY <1>14 DEF FireRaises, AllFired, dictVars, finderVars, moduleVars
  <2>2. /\ label'[t] \in {"idle", "fail", "finish"}
        /\ label'[t] # "idle" => job'[t] = job[t]
        /\ \A v \in Threads : job'[v] \in {job[v], NoJob}
    BY <1>14 DEF FireRaises, AllFired, Goto, Return, IInv, TypeOK
  <2>3. QuietImport(t)' /\ Notified(t)'
    BY <1>2, <2>1, <2>2 DEF QuietImport, Notified, Importing
  <2>4. QED
    BY <1>1, <2>1, <2>2, <2>3, NoNewJob, KeysStep DEF KeyApart
<1>15. CASE Finish(t) \/ Abort(t)
  <2>1. PICK state \in {"loaded", "absent"} :
          EndImport(t, state) /\ (state = "loaded" => label[t] = "finish")
    BY <1>15 DEF Finish, Abort
  <2>2. UNCHANGED <<keys, installed>> /\ label[t] \in {"finish", "fail"}
    BY <1>15, <2>1 DEF Finish, Abort, EndImport, dictVars
  <2>3. job[t].name \in Names /\ job[t].op = "import"
    BY <1>2, <2>2, JobTyped DEF Settled, JobFits
  <2>4. /\ label'[t] = "idle" /\ \A v \in Threads : job'[v] \in {job[v], NoJob}
        /\ \A v \in Threads \ {t} : chained'[v] = chained[v]
    BY <2>1 DEF EndImport, Return, Goto, IInv, TypeOK
  <2>5. QuietImport(t)' /\ Notified(t)'
    BY <2>4 DEF QuietImport, Notified, Importing
  <2>6. ASSUME NEW n \in Names, modules'[n] = "loaded"
        PROVE  modules[n] = "loaded" \/ n \in Racing \/ n \notin keys'
    <3>1. CASE n = job[t].name
      <4>1. label[t] = "finish"
        BY <2>1, <2>3, <2>6, <3>1 DEF EndImport, IInv, TypeOK
      <4>2. QED
        BY <1>2, <2>2, <2>3, <3>1, <4>1 DEF QuietImport, Importing
    <3>2. CASE n # job[t].name
      BY <2>1, <2>6, <3>2 DEF EndImport, IInv, TypeOK
    <3>3. QED
      BY <3>1, <3>2
  <2>7. QED
    BY <1>1, <2>2, <2>4, <2>5, <2>6, NoNewJob, KeysStep DEF KeyApart
<1>16. QED
  BY <1>3, <1>4, <1>5, <1>6, <1>7, <1>8, <1>9, <1>10, <1>11, <1>12, <1>13, <1>14, <1>15
     DEF Step

(***************************************************************************)
(* Where a hook is.                                                        *)
(***************************************************************************)
LEMMA ListTyped ==
  ASSUME IInv
  PROVE  /\ \A n \in Names : hooks[n] \in Seq(Hooks) /\ DOMAIN hooks[n] = 1..Len(hooks[n])
         /\ \A t \in Threads : /\ pending[t] \in Seq(Hooks)
                               /\ DOMAIN pending[t] = 1..Len(pending[t])
BY DEF IInv, TypeOK

LEMMA HeadTail ==
  ASSUME NEW s \in Seq(Hooks), s # <<>>
  PROVE  /\ 1 \in DOMAIN s /\ s[1] = Head(s)
         /\ \A i \in DOMAIN Tail(s) : i \in Nat /\ i + 1 \in DOMAIN s /\ Tail(s)[i] = s[i + 1]
OBVIOUS

(* A hook that is in none of its places. *)
Unhooked(h) ==
  /\ \A n \in Names, i \in Nat : ~Waits(h, n, i)
  /\ \A t \in Threads, i \in Nat : ~Holds(h, t, i)
  /\ h \notin called \cup lost

LEMMA UnknownUnhooked ==
  ASSUME NEW h \in Hooks, ~Known(h)
  PROVE  Unhooked(h)
BY DEF Known, Unhooked, Waits, Holds, Elements

(* A step after which h is, at most, where it was; the list that thread t works
   on may have lost its first k elements. *)
LEMMA PlacesKept ==
  ASSUME IInv, NEW h \in Hooks, NEW t \in Threads, NEW k \in Nat,
         \A n \in Names, i \in Nat : Waits(h, n, i)' => Waits(h, n, i),
         \A v \in Threads, i \in Nat :
            Holds(h, v, i)' => Holds(h, v, IF v = t THEN i + k ELSE i),
         h \in called' \cup lost' =>
            \/ h \in called \cup lost
            \/ /\ \A n \in Names, i \in Nat : ~Waits(h, n, i)'
               /\ \A v \in Threads, i \in Nat : ~Holds(h, v, i)',
         ~(h \in called' /\ h \in lost')
  PROVE  OnePlace(h)'
<1>1. OnePlace(h)
  BY DEF IInv
<1>2. \A m, n \in Names : \A i, j \in Nat :
        Waits(h, m, i)' /\ Waits(h, n, j)' => m = n /\ i = j
  BY <1>1 DEF OnePlace
<1>3. \A u, v \in Threads : \A i, j \in Nat :
        Holds(h, u, i)' /\ Holds(h, v, j)' => u = v /\ i = j
  <2>1. ASSUME NEW u \in Threads, NEW v \in Threads, NEW i \in Nat, NEW j \in Nat,
               Holds(h, u, i)', Holds(h, v, j)'
        PROVE  u = v /\ i = j
    <3>1. /\ Holds(h, u, IF u = t THEN i + k ELSE i)
          /\ Holds(h, v, IF v = t THEN j + k ELSE j)
      BY <2>1
    <3>2. u = v /\ (IF u = t THEN i + k ELSE i) = (IF v = t THEN j + k ELSE j)
      BY <1>1, <3>1 DEF OnePlace
    <3>3. QED
      BY <3>2
  <2>2. QED
    BY <2>1
<1>4. \A n \in Names, v \in Threads : \A i, j \in Nat :
        ~(Waits(h, n, i)' /\ Holds(h, v, j)')
  <2>1. ASSUME NEW n \in Names, NEW v \in Threads, NEW i \in Nat, NEW j \in Nat,
               Waits(h, n, i)', Holds(h, v, j)'
        PROVE  FALSE
    <3>1. Waits(h, n, i) /\ Holds(h, v, IF v = t THEN j + k ELSE j)
      BY <2>1
    <3>2. QED
      BY <1>1, <3>1 DEF OnePlace
  <2>2. QED
    BY <2>1
<1>5. ASSUME h \in called' \cup lost'
      PROVE  /\ \A n \in Names, i \in Nat : ~Waits(h, n, i)'
             /\ \A v \in Threads, i \in Nat : ~Holds(h, v, i)'
  <2>1. CASE h \in called \cup lost
    <3>1. /\ \A n \in Names, i \in Nat : ~Waits(h, n, i)
          /\ \A v \in Threads, i \in Nat : ~Holds(h, v, i)
      BY <1>1, <2>1 DEF OnePlace
    <3>2. \A v \in Threads, i \in Nat : ~Holds(h, v, i)'
      <4>1. ASSUME NEW v \in Threads, NEW i \in Nat, Holds(h, v, i)' PROVE FALSE
        <5>1. Holds(h, v, IF v = t THEN i + k ELSE i)
          BY <4>1
        <5>2. (IF v = t THEN i + k ELSE i) \in Nat
          OBVIOUS
        <5>3. QED
          BY <3>1, <5>1, <5>2
      <4>2. QED
        BY <4>1
    <3>3. QED
      BY <3>1, <3>2
  <2>2. QED
    BY <1>5, <2>1
<1>6. QED
  BY <1>2, <1>3, <1>4, <1>5 DEF OnePlace

(* A hook that was nowhere is now in one list, once. *)
LEMMA NewPlace ==
  ASSUME NEW h \in Hooks, NEW t \in Threads,
         \A n \in Names, i \in Nat : ~Waits(h, n, i)',
         \A v \in Threads, i \in Nat : Holds(h, v, i)' => v = t /\ i = 1,
         h \notin called' \cup lost'
  PROVE  OnePlace(h)'
BY DEF OnePlace

LEMMA PlacesUnchanged ==
  ASSUME IInv, UNCHANGED <<hooks, called, lost>>,
         \A v \in Threads : pending'[v] \in {pending[v], <<>>}, NEW h \in Hooks
  PROVE  OnePlace(h)'
<1>1. OnePlace(h)
  BY DEF IInv
<1>2. /\ \A n \in Names, i \in Nat : Waits(h, n, i)' <=> Waits(h, n, i)
      /\ \A v \in Threads, i \in Nat : Holds(h, v, i)' => Holds(h, v, i)
  BY DEF Waits, Holds
<1>3. QED
  BY <1>1, <1>2 DEF OnePlace

LEMMA PlacesPreserved ==
  ASSUME IInv, NEW t \in Threads, Register(t) \/ Import(t) \/ Query(t) \/ Step(t),
         NEW h \in Hooks
  PROVE  OnePlace(h)'
<1>1. OnePlace(h)
  BY DEF IInv
<1>2. CASE Register(t)
  <2>1. PICK k \in Hooks : ~Known(k) /\ pending' = [pending EXCEPT ![t] = <<k>>]
    BY <1>2 DEF Register, StartRegister
  <2>2. UNCHANGED <<hooks, called, lost>>
    BY <1>2 DEF Register, dictVars, history
  <2>3. /\ pending'[t] = <<k>> /\ \A v \in Threads \ {t} : pending'[v] = pending[v]
    BY <2>1 DEF IInv, TypeOK
  <2>4. \A n \in Names, i \in Nat : Waits(h, n, i)' <=> Waits(h, n, i)
    BY <2>2 DEF Waits
  <2>5. CASE h = k
    <3>1. Unhooked(h)
      BY <2>1, <2>5, UnknownUnhooked
    <3>2. \A v \in Threads, i \in Nat : Holds(h, v, i)' => v = t /\ i = 1
      BY <2>3, <3>1 DEF Holds, Unhooked
    <3>3. QED
      BY <2>2, <2>4, <3>1, <3>2, NewPlace DEF Unhooked
  <2>6. CASE h # k
    <3>1. \A v \in Threads, i \in Nat : Holds(h, v, i)' => Holds(h, v, i)
      BY <2>3, <2>6 DEF Holds
    <3>2. QED
      BY <1>1, <2>2, <2>4, <3>1 DEF OnePlace
  <2>7. QED
    BY <2>5, <2>6
<1>3. CASE \/ Import(t) \/ Query(t) \/ EnterLock(t) \/ LockModule(t) \/ Ask(t)
           \/ CheckFind(t) \/ SearchFinds(t) \/ SearchFails(t) \/ Load(t) \/ Exec(t)
           \/ ExecRaises(t) \/ Join(t) \/ AllFired(t) \/ Finish(t) \/ Abort(t)
  <2>1. UNCHANGED <<hooks, called, lost>>
    BY <1>3 DEF Import, Query, EnterLock, LockModule, Ask, CheckFind, SearchFinds,
       SearchFails, Load, Exec, ExecRaises, Join, AllFired, Finish, Abort, EndImport,
       dictVars, history
  <2>2. \A v \in Threads : pending'[v] \in {pending[v], <<>>}
    BY <1>3 DEF Import, Query, EnterLock, LockModule, Ask, CheckFind, SearchFinds,
       SearchFails, Load, Exec, ExecRaises, Join, AllFired, Finish, Abort, EndImport,
       Return, IInv, TypeOK
  <2>3. QED
    BY <2>1, <2>2, PlacesUnchanged
<1>4. CASE RegisterHook(t)
  <2>1. PICK n \in Names : n = job[t].name
    BY <1>4, JobTyped DEF RegisterHook
  <2>2. UNCHANGED <<called, lost>>
    BY <1>4 DEF RegisterHook, history
  <2>3. CASE UNCHANGED <<hooks, pending>>
    BY <2>2, <2>3, PlacesUnchanged
  <2>4. CASE ~UNCHANGED <<hooks, pending>>
    <3>1. hooks' = [hooks EXCEPT ![n] = hooks[n] \o pending[t]] /\ Return(t)
      BY <1>4, <2>1, <2>4 DEF RegisterHook
    <3>2. /\ hooks'[n] = hooks[n] \o pending[t]
          /\ \A m \in Names \ {n} : hooks'[m] = hooks[m]
          /\ pending'[t] = <<>> /\ \A v \in Threads \ {t} : pending'[v] = pending[v]
      BY <3>1, ReturnTyped DEF IInv, TypeOK
    <3>3. PICK s \in Seq(Hooks), q \in Seq(Hooks) : s = hooks[n] /\ q = pending[t]
      BY ListTyped
    <3>4. \A i \in DOMAIN (s \o q) :
            \/ i \in DOMAIN s /\ (s \o q)[i] = s[i]
            \/ /\ i \in Nat /\ i > Len(s) /\ i - Len(s) \in DOMAIN q
               /\ (s \o q)[i] = q[i - Len(s)]
      OBVIOUS
    <3>5. \A m \in Names, i \in Nat : Waits(h, m, i)' =>
            \/ Waits(h, m, i)
            \/ m = n /\ i > Len(s) /\ Holds(h, t, i - Len(s)) /\ i - Len(s) \in Nat
      <4>1. ASSUME NEW m \in Names, NEW i \in Nat, Waits(h, m, i)'
            PROVE  \/ Waits(h, m, i)
                   \/ m = n /\ i > Len(s) /\ Holds(h, t, i - Len(s)) /\ i - Len(s) \in Nat
        <5>1. CASE m # n
          BY <3>2, <4>1, <5>1 DEF Waits
        <5>2. CASE m = n
          <6>1. i \in DOMAIN (s \o q) /\ (s \o q)[i] = h
            BY <3>2, <3>3, <4>1, <5>2 DEF Waits
          <6>2. CASE i \in DOMAIN s /\ (s \o q)[i] = s[i]
            BY <3>3, <5>2, <6>1, <6>2 DEF Waits
          <6>3. CASE i > Len(s) /\ i - Len(s) \in DOMAIN q /\ (s \o q)[i] = q[i - Len(s)]
            BY <3>3, <5>2, <6>1, <6>3 DEF Holds
          <6>4. QED
            BY <3>4, <6>1, <6>2, <6>3
        <5>3. QED
          BY <5>1, <5>2
      <4>2. QED
        BY <4>1
    <3>6. \A v \in Threads, i \in Nat : Holds(h, v, i)' => Holds(h, v, i) /\ v # t
      BY <3>2 DEF Holds
    <3>7. ASSUME NEW m \in Names, NEW l \in Names, NEW i \in Nat, NEW j \in Nat,
                 Waits(h, m, i)', Waits(h, l, j)'
          PROVE  m = l /\ i = j
      <4>1. CASE Waits(h, m, i) /\ Waits(h, l, j)
        BY <1>1, <4>1 DEF OnePlace
      <4>2. CASE ~Waits(h, m, i) /\ ~Waits(h, l, j)
        <5>1. /\ m = n /\ Holds(h, t, i - Len(s)) /\ i - Len(s) \in Nat
              /\ l = n /\ Holds(h, t, j - Len(s)) /\ j - Len(s) \in Nat
          BY <3>5, <3>7, <4>2
        <5>2. i - Len(s) = j - Len(s)
          BY <1>1, <5>1 DEF OnePlace
        <5>3. QED
          BY <3>3, <5>1, <5>2
      <4>3. CASE Waits(h, m, i) /\ ~Waits(h, l, j)
        <5>1. Holds(h, t, j - Len(s)) /\ j - Len(s) \in Nat
          BY <3>5, <3>7, <4>3
        <5>2. QED
          BY <1>1, <4>3, <5>1 DEF OnePlace
      <4>4. CASE ~Waits(h, m, i) /\ Waits(h, l, j)
        <5>1. Holds(h, t, i - Len(s)) /\ i - Len(s) \in Nat
          BY <3>5, <3>7, <4>4
        <5>2. QED
          BY <1>1, <4>4, <5>1 DEF OnePlace
      <4>5. QED
        BY <4>1, <4>2, <4>3, <4>4
    <3>8. ASSUME NEW m \in Names, NEW v \in Threads, NEW i \in Nat, NEW j \in Nat,
                 Waits(h, m, i)', Holds(h, v, j)'
          PROVE  FALSE
      <4>1. Holds(h, v, j) /\ v # t
        BY <3>6, <3>8
      <4>2. CASE Waits(h, m, i)
        BY <1>1, <4>1, <4>2 DEF OnePlace
      <4>3. CASE Holds(h, t, i - Len(s)) /\ i - Len(s) \in Nat
        BY <1>1, <4>1, <4>3 DEF OnePlace
      <4>4. QED
        BY <3>5, <3>8, <4>2, <4>3
    <3>9. ASSUME h \in called \cup lost, NEW m \in Names, NEW i \in Nat
          PROVE  ~Waits(h, m, i)'
      BY <1>1, <3>5, <3>9 DEF OnePlace
    <3>10. QED
      BY <1>1, <2>2, <3>6, <3>7, <3>8, <3>9 DEF OnePlace
  <2>5. QED
    BY <2>3, <2>4
<1>5. CASE Notify(t)
  <2>1. PICK n \in Names : n = job[t].name
    BY <1>5, JobTyped DEF Notify
  <2>2. UNCHANGED <<called, lost>>
    BY <1>5 DEF Notify, history
  <2>3. /\ hooks'[n] = <<>> /\ \A m \in Names \ {n} : hooks'[m] = hooks[m]
        /\ pending'[t] = hooks[n] /\ \A v \in Threads \ {t} : pending'[v] = pending[v]
    BY <1>5, <2>1 DEF Notify, IInv, TypeOK
  <2>4. \A m \in Names, i \in Nat : Waits(h, m, i)' => Waits(h, m, i) /\ m # n
    BY <2>3 DEF Waits
  <2>5. \A v \in Threads, i \in Nat :
          Holds(h, v, i)' => IF v = t THEN Waits(h, n, i) ELSE Holds(h, v, i)
    BY <2>3 DEF Holds, Waits
  <2>6. QED
    BY <1>1, <2>2, <2>4, <2>5 DEF OnePlace
<1>6. CASE Fire(t) \/ FireAndWait(t) \/ FireRaises(t)
  <2>1. PICK s \in Seq(Hooks) : s = pending[t] /\ s # <<>>
    BY <1>6, ListTyped DEF Fire, FireAndWait, FireRaises
  <2>2. UNCHANGED hooks /\ called' = called \cup {Head(s)}
    BY <1>6, <2>1 DEF Fire, FireNext, FireAndWait, FireRaises, dictVars
  <2>3. \A n \in Names, i \in Nat : Waits(h, n, i)' <=> Waits(h, n, i)
    BY <2>2 DEF Waits
  <2>4. Holds(Head(s), t, 1) /\ Head(s) \in Hooks /\ OnePlace(Head(s))
    <3>1. Head(s) \in Hooks /\ 1 \in DOMAIN s /\ s[1] = Head(s)
      BY <2>1, HeadTail, FiredTyped
    <3>2. QED
      BY <2>1, <3>1 DEF Holds, IInv
  <2>5. \A i \in Nat : i \in DOMAIN Tail(s) /\ Tail(s)[i] = h => Holds(h, t, i + 1)
    BY <2>1, HeadTail DEF Holds
  <2>6. h = Head(s) => /\ h \notin lost /\ \A n \in Names, i \in Nat : ~Waits(h, n, i)
                       /\ \A v \in Threads, i \in Nat : Holds(h, v, i) => v = t /\ i = 1
    BY <2>4 DEF OnePlace
  <2>7. CASE Fire(t)
    <3>1. /\ lost' = lost /\ pending'[t] = Tail(s)
          /\ \A v \in Threads \ {t} : pending'[v] = pending[v]
      BY <2>1, <2>7 DEF Fire, FireNext, IInv, TypeOK
    <3>2. \A v \in Threads, i \in Nat :
            Holds(h, v, i)' => Holds(h, v, IF v = t THEN i + 1 ELSE i)
      BY <2>5, <3>1 DEF Holds
    <3>3. h = Head(s) => \A v \in Threads, i \in Nat : ~Holds(h, v, i)'
      <4>1. ASSUME h = Head(s), NEW v \in Threads, NEW i \in Nat, Holds(h, v, i)'
            PROVE  FALSE
        <5>1. Holds(h, v, IF v = t THEN i + 1 ELSE i)
          BY <3>2, <4>1
        <5>2. v = t /\ (IF v = t THEN i + 1 ELSE i) = 1 /\ i = 0
          BY <2>6, <4>1, <5>1
        <5>3. 0 \in DOMAIN Tail(s)
          BY <3>1, <4>1, <5>2 DEF Holds
        <5>4. QED
          BY <2>1, <5>3
      <4>2. QED
        BY <4>1
    <3>4. h \in called' \cup lost' =>
            \/ h \in called \cup lost
            \/ /\ \A n \in Names, i \in Nat : ~Waits(h, n, i)'
               /\ \A v \in Threads, i \in Nat : ~Holds(h, v, i)'
      BY <2>2, <2>3, <2>6, <3>1, <3>3
    <3>5. ~(h \in called' /\ h \in lost')
      BY <1>1, <2>2, <2>6, <3>1 DEF OnePlace
    <3>6. QED
      BY <2>3, <3>2, <3>4, <3>5, PlacesKept
  <2>8. CASE FireAndWait(t)
    <3>1. PICK u \in Threads \ {t}, k \in Hooks :
            /\ ~Known(k)
            /\ pending' = [pending EXCEPT ![u] = <<k>>, ![t] = Tail(@)]
      BY <2>8 DEF FireAndWait
    <3>2. PICK q \in Seq(Hooks) : q = Tail(s)
      BY <2>1, FiredTyped
    <3>3. /\ lost' = lost /\ pending'[t] = q /\ pending'[u] = <<k>>
          /\ \A v \in Threads \ {t, u} : pending'[v] = pending[v]
      <4>1. pending' = [pending EXCEPT ![u] = <<k>>, ![t] = q]
        BY <2>1, <3>1, <3>2
      <4>2. QED
        BY <2>8, <4>1 DEF FireAndWait, IInv, TypeOK
    <3>4. Unhooked(k)
      BY <3>1, UnknownUnhooked
    <3>5. CASE h = k
      <4>1. h # Head(s)
        BY <2>4, <3>4, <3>5 DEF Unhooked
      <4>2. ASSUME NEW v \in Threads, NEW i \in Nat, Holds(h, v, i)'
            PROVE  v = u /\ i = 1
        <5>1. CASE v = t
          BY <2>5, <3>2, <3>3, <3>4, <3>5, <4>2, <5>1 DEF Holds, Unhooked
        <5>2. CASE v = u
          BY <3>3, <4>2, <5>2 DEF Holds
        <5>3. CASE v \notin {t, u}
          BY <3>3, <3>4, <3>5, <4>2, <5>3 DEF Holds, Unhooked
        <5>4. QED
          BY <5>1, <5>2, <5>3
      <4>3. QED
        BY <2>2, <2>3, <3>3, <3>4, <3>5, <4>1, <4>2, NewPlace DEF Unhooked
    <3>6. CASE h # k
      <4>1. ASSUME NEW v \in Threads, NEW i \in Nat, Holds(h, v, i)'
            PROVE  Holds(h, v, IF v = t THEN i + 1 ELSE i)
        <5>1. CASE v = t
          BY <2>5, <3>2, <3>3, <4>1, <5>1 DEF Holds
        <5>2. CASE v = u
          BY <3>3, <3>6, <4>1, <5>2 DEF Holds
        <5>3. CASE v \notin {t, u}
          BY <3>3, <4>1, <5>3 DEF Holds
        <5>4. QED
          BY <5>1, <5>2, <5>3
      <4>2. h = Head(s) => \A v \in Threads, i \in Nat : ~Holds(h, v, i)'
        <5>1. ASSUME h = Head(s), NEW v \in Threads, NEW i \in Nat, Holds(h, v, i)'
              PROVE  FALSE
          <6>1. Holds(h, v, IF v = t THEN i + 1 ELSE i)
            BY <4>1, <5>1
          <6>2. v = t /\ i = 0
            BY <2>6, <5>1, <6>1
          <6>3. 0 \in DOMAIN Tail(s)
            BY <3>2, <3>3, <5>1, <6>2 DEF Holds
          <6>4. QED
            BY <2>1, <6>3
        <5>2. QED
          BY <5>1
      <4>3. h \in called' \cup lost' =>
              \/ h \in called \cup lost
              \/ /\ \A n \in Names, i \in Nat : ~Waits(h, n, i)'
                 /\ \A v \in Threads, i \in Nat : ~Holds(h, v, i)'
        BY <2>2, <2>3, <2>6, <3>3, <4>2
      <4>4. ~(h \in called' /\ h \in lost')
        BY <1>1, <2>2, <2>6, <3>3 DEF OnePlace
      <4>5. QED
        BY <2>3, <4>1, <4>3, <4>4, PlacesKept
    <3>7. QED
      BY <3>5, <3>6
  <2>9. CASE FireRaises(t)
    <3>1. /\ lost' = lost \cup Elements(Tail(s)) /\ pending'[t] = <<>>
          /\ \A v \in Threads \ {t} : pending'[v] = pending[v]
      BY <2>1, <2>9 DEF FireRaises, Return, IInv, TypeOK
    <3>2. \A v \in Threads, i \in Nat : Holds(h, v, i)' => Holds(h, v, i) /\ v # t
      BY <3>1 DEF Holds
    <3>3. h \in Elements(Tail(s)) => \E i \in Nat : Holds(h, t, i + 1) /\ i # 0
      <4>1. ASSUME h \in Elements(Tail(s)) PROVE \E i \in Nat : Holds(h, t, i + 1) /\ i # 0
        <5>1. PICK i \in DOMAIN Tail(s) : Tail(s)[i] = h
          BY <4>1 DEF Elements
        <5>2. i \in Nat /\ i # 0
          BY <2>1, <5>1
        <5>3. QED
          BY <2>5, <5>1, <5>2
      <4>2. QED
        BY <4>1
    <3>4. h \in {Head(s)} \cup Elements(Tail(s)) =>
            /\ \A n \in Names, i \in Nat : ~Waits(h, n, i)'
            /\ \A v \in Threads, i \in Nat : ~Holds(h, v, i)'
      <4>1. ASSUME NEW i \in Nat, Holds(h, t, i)
            PROVE  /\ \A n \in Names, j \in Nat : ~Waits(h, n, j)'
                   /\ \A v \in Threads, j \in Nat : ~Holds(h, v, j)'
        BY <1>1, <2>3, <3>2, <4>1 DEF OnePlace
      <4>2. CASE h = Head(s)
        BY <2>4, <4>1, <4>2
      <4>3. CASE h \in Elements(Tail(s))
        <5>1. PICK i \in Nat : Holds(h, t, i + 1)
          BY <3>3, <4>3
        <5>2. i + 1 \in Nat
          OBVIOUS
        <5>3. QED
          BY <4>1, <5>1, <5>2
      <4>4. QED
        BY <4>2, <4>3
    <3>5. ~(h \in called' /\ h \in lost')
      <4>1. CASE h = Head(s)
        <5>1. h \notin Elements(Tail(s))
          <6>1. ASSUME NEW i \in Nat, Holds(h, t, i + 1), i # 0 PROVE FALSE
            BY <2>6, <4>1, <6>1
          <6>2. QED
            BY <3>3, <6>1
        <5>2. QED
          BY <2>6, <3>1, <4>1, <5>1
      <4>2. CASE h # Head(s)
        <5>1. h \in Elements(Tail(s)) => h \notin called
          <6>1. ASSUME NEW i \in Nat, Holds(h, t, i + 1) PROVE h \notin called
            BY <1>1, <6>1 DEF OnePlace
          <6>2. QED
            BY <3>3, <6>1
        <5>2. QED
          BY <1>1, <2>2, <3>1, <4>2, <5>1 DEF OnePlace
      <4>3. QED
        BY <4>1, <4>2
    <3>6. \A v \in Threads, i \in Nat :
            Holds(h, v, i)' => Holds(h, v, IF v = t THEN i + 0 ELSE i)
      BY <3>2
    <3>7. h \in called' \cup lost' =>
            \/ h \in called \cup lost
            \/ /\ \A n \in Names, i \in Nat : ~Waits(h, n, i)'
               /\ \A v \in Threads, i \in Nat : ~Holds(h, v, i)'
      BY <2>2, <3>1, <3>4
    <3>8. QED
      BY <2>3, <3>5, <3>6, <3>7, PlacesKept
  <2>10. QED
    BY <1>6, <2>7, <2>8, <2>9
<1>7. QED
  BY <1>2, <1>3, <1>4, <1>5, <1>6 DEF Step

(***************************************************************************)
(* The invariant.                                                          *)
(***************************************************************************)
LEMMA InitEstablishes == Init => IInv
<1> SUFFICES ASSUME Init PROVE IInv
  OBVIOUS
<1>1. TypeOK
  <2>1. <<>> \in Seq(Hooks) /\ "idle" \in Labels
    BY DEF Labels
  <2>2. /\ hooks \in [Names -> Seq(Hooks)] /\ pending \in [Threads -> Seq(Hooks)]
        /\ \A n \in Names : hooks[n] = <<>>
    BY <2>1 DEF Init
  <2>3. QED
    BY <2>1, <2>2 DEF Init, TypeOK
<1>2. Flow
  BY DEF Init, Flow, JobFits, ModuleOwned, Importing, FinderLocked, InFinder, PartialOwned,
     InProgressHeld
<1>3. KeysRight
  BY DEF Init, KeysRight, Exclusive, Busy, QuietLoaded, QuietImport, Notified, Importing,
     NoJob
<1>4. \A h \in Hooks : OnePlace(h)
  BY DEF Init, OnePlace, Waits, Holds
<1>5. QED
  BY <1>1, <1>2, <1>3, <1>4 DEF IInv

(* Taking a module out of sys.modules disturbs no import: none is at work on a
   module that is loaded. *)
LEMMA UnloadPreserves ==
  ASSUME IInv, NEW n \in Names, Unload(n)
  PROVE  IInv'
<1>1. /\ modules[n] = "loaded" /\ modules' = [modules EXCEPT ![n] = "absent"]
      /\ UNCHANGED <<keys, hooks, installed, hooksLock, inProgress, importLock, inner,
                     chained, owner, label, job, pending, helper, called, lost>>
  BY DEF Unload, dictVars, finderVars, history
<1>2. /\ modules'[n] = "absent" /\ \A m \in Names \ {n} : modules'[m] = modules[m]
  BY <1>1 DEF IInv, TypeOK
<1>3. TypeOK'
  BY <1>1 DEF IInv, TypeOK
<1>4. ASSUME NEW t \in Threads PROVE Settled(t)'
  <2>1. Settled(t)
    BY DEF IInv, Flow, Settled
  <2>2. Importing(t) => job[t].name \in Names
    BY JobTyped DEF Importing
  <2>3. JobFits(t)' /\ FinderLocked(t)'
    BY <1>1, <2>1 DEF Settled, JobFits, FinderLocked, InFinder
  <2>4. ModuleOwned(t)'
    BY <1>1, <1>2, <2>1, <2>2 DEF Settled, ModuleOwned, Importing
  <2>5. QED
    BY <2>3, <2>4 DEF Settled
<1>5. ASSUME NEW m \in Names PROVE PartialOwned(m)' /\ InProgressHeld(m)'
  BY <1>1, <1>2 DEF IInv, Flow, PartialOwned, InProgressHeld
<1>6. KeysRight'
  BY <1>1, <1>2 DEF IInv, KeysRight, Exclusive, Busy, QuietLoaded, QuietImport, Notified,
     Importing
<1>7. \A h \in Hooks : OnePlace(h)'
  BY <1>1, PlacesUnchanged
<1>8. QED
  BY <1>3, <1>4, <1>5, <1>6, <1>7 DEF IInv, Flow, Settled

LEMMA NextPreserves == IInv /\ [Next]_vars => IInv'
<1> SUFFICES ASSUME IInv, [Next]_vars PROVE IInv'
  OBVIOUS
<1>1. ASSUME NEW t \in Threads, Register(t) \/ Import(t) \/ Query(t) \/ Step(t)
      PROVE  IInv'
  BY <1>1, TypesKept, FlowKept, KeysKept, PlacesPreserved DEF IInv
<1>2. CASE UNCHANGED vars
  BY <1>2 DEF vars, dictVars, finderVars, moduleVars, history, IInv, TypeOK, Flow, JobFits,
     ModuleOwned, Importing, FinderLocked, InFinder, PartialOwned, InProgressHeld,
     KeysRight, Exclusive, Busy, QuietLoaded, QuietImport, Notified, OnePlace, Waits, Holds
<1>3. QED
  BY <1>1, <1>2, UnloadPreserves DEF Next

(* The inductive invariant holds in every reachable state. *)
THEOREM Invariance == Spec => []IInv
BY InitEstablishes, NextPreserves, PTL DEF Spec

(* The state is well typed, and a list of hooks is only ever under a key. *)
THEOREM TypeCorrectness == Spec => []TypeOK
<1>1. IInv => TypeOK
  BY DEF IInv
<1>2. QED
  BY <1>1, Invariance, PTL

(* Importing a module calls all the hooks registered for it before: none is left
   behind by a failed search, a retry or an unloading, provided nobody registers
   one for it while it is being imported. *)
THEOREM QuietHooksAreRun == Spec => []QuietHooksRun
<1>1. IInv => QuietHooksRun
  BY DEF IInv, TypeOK, KeysRight, QuietLoaded, QuietHooksRun
<1>2. QED
  BY <1>1, Invariance, PTL

(* An import through the wrapped loader leaves no hook behind. *)
THEOREM ChainedImportsFire == Spec => []ChainedFiresAll
<1>1. IInv => ChainedFiresAll
  BY DEF IInv, Flow, JobFits, KeysRight, Notified, Importing, ChainedFiresAll
<1>2. QED
  BY <1>1, Invariance, PTL

LEMMA AtMostOne ==
  ASSUME NEW S, \A x, y \in S : x = y
  PROVE  Cardinality(S) = IF S = {} THEN 0 ELSE 1
<1>1. CASE S = {}
  BY <1>1, FS_EmptySet
<1>2. CASE S # {}
  <2>1. PICK x \in S : S = {x}
    BY <1>2
  <2>2. QED
    BY <1>2, <2>1, FS_Singleton
<1>3. QED
  BY <1>1, <1>2

(* No hook is called twice, called after it was lost, or registered again. *)
THEOREM HooksInOnePlace == Spec => []HookInOnePlace
<1>1. ASSUME IInv PROVE HookInOnePlace
  <2> SUFFICES ASSUME NEW h \in Hooks
               PROVE  LET Waiting(n) == {i \in DOMAIN hooks[n] : hooks[n][i] = h}
                          Held(t) == {i \in DOMAIN pending[t] : pending[t][i] = h} IN
                      Cardinality(UNION {{n} \X Waiting(n) : n \in Names})
                        + Cardinality(UNION {{t} \X Held(t) : t \in Threads})
                        + Cardinality({done \in {<<"called", called>>, <<"lost", lost>>} :
                                          h \in done[2]}) <= 1
    BY DEF HookInOnePlace
  <2> DEFINE Waiting(n) == {i \in DOMAIN hooks[n] : hooks[n][i] = h}
             Held(t) == {i \in DOMAIN pending[t] : pending[t][i] = h}
             W == UNION {{n} \X Waiting(n) : n \in Names}
             H == UNION {{t} \X Held(t) : t \in Threads}
             D == {done \in {<<"called", called>>, <<"lost", lost>>} : h \in done[2]}
  <2>1. OnePlace(h)
    BY <1>1 DEF IInv
  <2>2. \A x \in W : \E n \in Names, i \in Nat : x = <<n, i>> /\ Waits(h, n, i)
    BY <1>1, ListTyped DEF Waits
  <2>3. \A x \in H : \E t \in Threads, i \in Nat : x = <<t, i>> /\ Holds(h, t, i)
    BY <1>1, ListTyped DEF Holds
  <2>4. \A x \in D : \/ x = <<"called", called>> /\ h \in called
                     \/ x = <<"lost", lost>> /\ h \in lost
    OBVIOUS
  <2> HIDE DEF W, H, D
  <2>5. Cardinality(W) = IF W = {} THEN 0 ELSE 1
    <3>1. ASSUME NEW x \in W, NEW y \in W PROVE x = y
      <4>1. PICK m \in Names, i \in Nat : x = <<m, i>> /\ Waits(h, m, i)
        BY <2>2
      <4>2. PICK n \in Names, j \in Nat : y = <<n, j>> /\ Waits(h, n, j)
        BY <2>2
      <4>3. QED
        BY <2>1, <4>1, <4>2 DEF OnePlace
    <3>2. QED
      BY <3>1, AtMostOne
  <2>6. Cardinality(H) = IF H = {} THEN 0 ELSE 1
    <3>1. ASSUME NEW x \in H, NEW y \in H PROVE x = y
      <4>1. PICK t \in Threads, i \in Nat : x = <<t, i>> /\ Holds(h, t, i)
        BY <2>3
      <4>2. PICK u \in Threads, j \in Nat : y = <<u, j>> /\ Holds(h, u, j)
        BY <2>3
      <4>3. QED
        BY <2>1, <4>1, <4>2 DEF OnePlace
    <3>2. QED
      BY <3>1, AtMostOne
  <2>7. Cardinality(D) = IF D = {} THEN 0 ELSE 1
    <3>1. ASSUME NEW x \in D, NEW y \in D PROVE x = y
      BY <2>1, <2>4 DEF OnePlace
    <3>2. QED
      BY <3>1, AtMostOne
  <2>8. W = {} \/ H = {}
    BY <2>1, <2>2, <2>3 DEF OnePlace
  <2>9. D # {} => W = {} /\ H = {}
    BY <2>1, <2>2, <2>3, <2>4 DEF OnePlace
  <2>10. Cardinality(W) + Cardinality(H) + Cardinality(D) <= 1
    BY <2>5, <2>6, <2>7, <2>8, <2>9
  <2>11. QED
    BY <2>10 DEF W, H, D
<1>2. QED
  BY <1>1, Invariance, PTL
=============================================================================
