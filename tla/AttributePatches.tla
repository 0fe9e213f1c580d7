-------------------------- MODULE AttributePatches --------------------------
(***************************************************************************)
(* Monkey patching of one attribute of a module's classes (src/src/wrapt/  *)
(* patches.py).  The attribute is looked up in the __dict__s of a class    *)
(* and its bases, wrapped, and assigned to the class that was given: a     *)
(* read and a write with the factory in between, and no lock.  A transient *)
(* patch is there for one call, during which anything may happen, and then *)
(* assigns what it found.  A patch for a module given as "name?" waits for *)
(* the import when the module is not in sys.modules.                       *)
(*                                                                         *)
(* The import is that of module ImportHooks, reduced to what patches can   *)
(* tell: whether the finder saw a hook, the entry in sys.modules, and the  *)
(* notification after the body.                                            *)
(***************************************************************************)
EXTENDS Naturals, Sequences, FiniteSets, FiniteSetsExt, Functions

CONSTANTS
  Threads, MaxDepth,  \* bound: calls nested in calls with transient patches
  Parents,            \* the classes that are patched
  Mro,                \* Mro[p]: p and its bases, in order
  Home,               \* the classes whose body defines the attribute
  Permanent, Transient,
  Missing, NoPatch

ASSUME PatchesAssumption ==
  /\ Permanent \cap Transient = {} /\ NoPatch \notin Permanent \cup Transient
  /\ \A p \in Parents : /\ Mro[p] \in Seq(Parents) /\ Range(Mro[p]) \cap Home # {}
                        /\ Mro[p][1] = p
  /\ Missing \notin Seq(Permanent \cup Transient)
  /\ MaxDepth \in Nat \ {0}

VARIABLES
  own,       \* own[p]: the attribute in p's __dict__, its wrappers from the outside
  module,    \* how far the module's import has got
  hooked,    \* the finder saw a hook for the module
  pending,   \* the post import hooks of the module: the jobs they do
  label,     \* label[f]: where frame f is
  job,       \* job[f]: the patch that f makes, and its target
  original,  \* original[f]: what f found there
  firing,    \* firing[f]: the hooks that f, importing, has yet to call
  used,      \* the patches that have been asked for
  done,      \* done[k]: the class that permanent patch k is on
  early,     \* the deferred patches that nothing keeps from being made
  since,     \* since[f]: the patches in force made on f's class since f was there
  seen,      \* seen[f]: the transient patches that f found there
  excused,   \* patches that an assignment has undone that was looked up before them
  lingering  \* transient patches that were found and assigned when over, or elsewhere

programVars == <<module, hooked, pending, firing>>
history == <<used, done, early, since, seen, excused, lingering>>
vars == <<own, programVars, label, job, original, history>>

Frames == Threads \X (1 .. MaxDepth)

Patches == Permanent \cup Transient

Jobs == [patch : Patches, parent : Parents]

NoJob == [patch |-> NoPatch, parent |-> NoPatch]

Labels == {"idle", "test", "register", "lookup", "write", "body", "search", "load",
           "exec", "fire"}

Init ==
  /\ own = [p \in Parents |-> Missing]
  /\ module = "absent" /\ hooked = FALSE /\ pending = <<>>
  /\ label = [f \in Frames |-> "idle"]
  /\ job = [f \in Frames |-> NoJob]
  /\ original = [f \in Frames |-> <<>>]
  /\ firing = [f \in Frames |-> <<>>]
  /\ used = {} /\ done = <<>> /\ early = {}
  /\ since = [f \in Frames |-> {}] /\ seen = [f \in Frames |-> {}]
  /\ excused = {} /\ lingering = {}

Goto(f, l) == label' = [label EXCEPT ![f] = l]

(* The program runs in f, inside the call of the frame below if there is one. *)
CanCall(f) ==
  /\ label[f] = "idle"
  /\ f[2] > 1 => label[<<f[1], f[2] - 1>>] = "body"

InnerIdle(f) == f[2] < MaxDepth => label[<<f[1], f[2] + 1>>] = "idle"

Installed == {job[f].patch : f \in {g \in Frames : label[g] = "body"}}

Begin(f, patches, l) ==
  /\ CanCall(f)
  /\ \E k \in patches \ used, p \in Parents :
       /\ job' = [job EXCEPT ![f] = [patch |-> k, parent |-> p]]
       /\ used' = used \cup {k}
  /\ Goto(f, l)
  /\ UNCHANGED <<own, programVars, original, done, early, since, seen, excused,
                 lingering>>

(* f is finished; an importing frame goes on with its next hook. *)
End(f) ==
  /\ job' = [job EXCEPT ![f] = NoJob]
  /\ original' = [original EXCEPT ![f] = <<>>]
  /\ Goto(f, IF firing[f] # <<>> THEN "fire" ELSE "idle")

(***************************************************************************)
(* wrap_function_wrapper, patch_function_wrapper                           *)
(***************************************************************************)
Wrap(f) == module = "loaded" /\ Begin(f, Permanent, "lookup")

WrapDeferred(f) == Begin(f, Permanent, "test")

(* if target in sys.modules *)
InModules == module \in {"partial", "loaded"}

Test(f) ==
  /\ label[f] = "test"
  /\ Goto(f, IF InModules THEN "lookup" ELSE "register")
  /\ UNCHANGED <<own, programVars, job, original, history>>

(* A deferred patch cannot be made while the body of the module runs, and a hook
   registered between a finder that saw none and the body is not called. *)
AskedFor(k) ==
  early' = IF module \in {"absent", "loaded"} \/ (module = "found" /\ hooked)
           THEN early \cup {k} ELSE early

(* Mutant: it registers without a second look. *)
RegisterBlindly(f) ==
  /\ label[f] = "register"
  /\ pending' = Append(pending, job[f]) /\ End(f)
  /\ AskedFor(job[f].patch)
  /\ UNCHANGED <<own, module, hooked, firing, used, done, since, seen, excused, lingering>>

(* Mutant: the hook is the wrapper function, without the target. *)
RegisterPatch(f) ==
  /\ label[f] = "register"
  /\ IF InModules
     THEN Goto(f, "lookup") /\ UNCHANGED <<pending, job, original>>
     ELSE pending' = Append(pending, job[f].patch) /\ End(f)
  /\ AskedFor(job[f].patch)
  /\ UNCHANGED <<own, module, hooked, firing, used, done, since, seen, excused, lingering>>

(* register_post_import_hook looks into sys.modules again, under its lock. *)
Register(f) ==
  /\ label[f] = "register"
  /\ IF InModules
     THEN Goto(f, "lookup") /\ UNCHANGED <<pending, job, original>>
     ELSE pending' = Append(pending, job[f]) /\ End(f)
  /\ AskedFor(job[f].patch)
  /\ UNCHANGED <<own, module, hooked, firing, used, done, since, seen, excused, lingering>>

(***************************************************************************)
(* resolve_path and wrap_object                                            *)
(***************************************************************************)
(* The places in the order of p and its bases that have the attribute. *)
Holders(p) == {i \in DOMAIN Mro[p] : own[Mro[p][i]] # Missing}

(* Mutant: the bases come first. *)
FoundInBase(p) == IF Holders(p) = {} THEN Missing ELSE own[Mro[p][Max(Holders(p))]]

Found(p) == IF Holders(p) = {} THEN Missing ELSE own[Mro[p][Min(Holders(p))]]

(* An attribute of a module that is being executed may not be there yet. *)
Lookup(f) ==
  LET found == Found(job[f].parent) IN
  /\ label[f] = "lookup"
  /\ IF found = Missing
     THEN End(f) /\ UNCHANGED <<since, seen>>
     ELSE /\ original' = [original EXCEPT ![f] = found]
          /\ since' = [since EXCEPT ![f] = {}]
          /\ seen' = [seen EXCEPT ![f] = Installed \cap Range(found)]
          /\ Goto(f, "write") /\ UNCHANGED job
  /\ UNCHANGED <<own, programVars, used, done, early, excused, lingering>>

(* What f assigns to its target is as it was at its lookup: it undoes what has been
   made there since, and brings transient patches back that are over or elsewhere. *)
Disturb(f) ==
  /\ excused' = excused \cup since[f]
  /\ lingering' = lingering \cup
       {k \in seen[f] : \A g \in Frames : ~(/\ label[g] = "body" /\ job[g].patch = k
                                           /\ job[g].parent = job[f].parent)}

(* setattr(parent, attribute, FunctionWrapper(original, wrapper)) *)
Write(f) ==
  LET k == job[f].patch
      p == job[f].parent IN
  /\ label[f] = "write"
  /\ own' = [own EXCEPT ![p] = <<k>> \o original[f]]
  /\ Disturb(f)
  /\ since' = [g \in Frames |-> CASE g = f -> {}
                                 [] g # f /\ job[g].parent = p -> since[g] \cup {k}
                                 [] OTHER -> since[g]]
  /\ IF k \in Permanent
     THEN done' = [j \in DOMAIN done \cup {k} |-> IF j = k THEN p ELSE done[j]] /\ End(f)
     ELSE Goto(f, "body") /\ UNCHANGED <<done, job, original>>
  /\ UNCHANGED <<programVars, used, early, seen>>

(***************************************************************************)
(* transient_function_wrapper: _execute                                    *)
(***************************************************************************)
CallWithTransient(f) == module = "loaded" /\ Begin(f, Transient, "lookup")

(* Mutant: not restored when the call raises. *)
RestoreSkipped(f) ==
  /\ label[f] = "body" /\ InnerIdle(f)
  /\ End(f)
  /\ UNCHANGED <<own, programVars, history>>

(* Mutant: the attribute is put back without any wrapper. *)
RestoreBare(f) ==
  /\ label[f] = "body" /\ InnerIdle(f)
  /\ own' = [own EXCEPT ![job[f].parent] = <<>>]
  /\ Disturb(f)
  /\ since' = [g \in Frames |-> IF g = f THEN {} ELSE since[g] \ {job[f].patch}]
  /\ End(f)
  /\ UNCHANGED <<programVars, used, done, early, seen>>

(* The finally clause, however the call ended. *)
Restore(f) ==
  /\ label[f] = "body" /\ InnerIdle(f)
  /\ own' = [own EXCEPT ![job[f].parent] = original[f]]
  /\ Disturb(f)
  /\ since' = [g \in Frames |-> IF g = f THEN {} ELSE since[g] \ {job[f].patch}]
  /\ End(f)
  /\ UNCHANGED <<programVars, used, done, early, seen>>

(***************************************************************************)
(* The import of the module, in one thread                                 *)
(***************************************************************************)
Import(f) ==
  /\ CanCall(f) /\ module = "absent"
  /\ module' = "found"
  /\ hooked' = (pending # <<>>)
  /\ Goto(f, "load")
  /\ UNCHANGED <<own, pending, firing, job, original, history>>

Load(f) ==
  /\ label[f] = "load"
  /\ module' = "partial"
  /\ Goto(f, "exec")
  /\ UNCHANGED <<own, hooked, pending, firing, job, original, history>>

(* The body has made the classes; the hooks are taken out and called. *)
Exec(f) ==
  /\ label[f] = "exec"
  /\ module' = "loaded"
  /\ own' = [p \in Parents |-> IF p \in Home THEN <<>> ELSE Missing]
  /\ firing' = [firing EXCEPT ![f] = IF hooked THEN pending ELSE <<>>]
  /\ pending' = IF hooked THEN <<>> ELSE pending
  /\ Goto(f, "fire")
  /\ UNCHANGED <<hooked, job, original, history>>

Fire(f) ==
  /\ label[f] = "fire"
  /\ IF firing[f] = <<>>
     THEN Goto(f, "idle") /\ UNCHANGED <<job, firing>>
     ELSE /\ job' = [job EXCEPT ![f] = Head(firing[f])]
          /\ firing' = [firing EXCEPT ![f] = Tail(@)]
          /\ Goto(f, "lookup")
  /\ UNCHANGED <<own, module, hooked, pending, original, history>>

Next ==
  \E f \in Frames :
    \/ Wrap(f) \/ WrapDeferred(f) \/ Test(f) \/ Register(f) \/ Lookup(f) \/ Write(f)
    \/ CallWithTransient(f) \/ Restore(f)
    \/ Import(f) \/ Load(f) \/ Exec(f) \/ Fire(f)

Spec == Init /\ [][Next]_vars

-----------------------------------------------------------------------------
TypeOK ==
  /\ own \in [Parents -> Seq(Patches) \cup {Missing}]
  /\ module \in {"absent", "found", "partial", "loaded"} /\ hooked \in BOOLEAN
  /\ pending \in Seq(Jobs) /\ firing \in [Frames -> Seq(Jobs)]
  /\ label \in [Frames -> Labels]
  /\ job \in [Frames -> Jobs \cup {NoJob}]
  /\ original \in [Frames -> Seq(Patches)]
  /\ used \subseteq Patches /\ DOMAIN done \subseteq Permanent /\ Range(done) \subseteq Parents
  /\ early \subseteq Permanent /\ excused \subseteq Patches /\ lingering \subseteq Transient
  /\ since \in [Frames -> SUBSET Patches] /\ seen \in [Frames -> SUBSET Transient]

(* Patch k of class p is there for ever, or its call is going on. *)
InForce(k, p) ==
  \/ k \in DOMAIN done /\ done[k] = p
  \/ \E f \in Frames : label[f] = "body" /\ job[f].patch = k /\ job[f].parent = p

(* A permanent patch is found through its class for ever, a transient one for as long
   as its call lasts, and once, whatever other patches come on top of it or go: when
   a call in a call is over, the patch of the outer one is back.  That is unless
   something that looked the attribute up before has assigned it after. *)
PatchesStay ==
  \A k \in Patches \ excused, p \in Parents : InForce(k, p) =>
    Cardinality({i \in DOMAIN Found(p) : Found(p)[i] = k}) = 1

(* When the call with a transient patch is over, no class has the patch, unless
   something that looked the attribute up during the call has assigned it after, or
   in another class. *)
TransientsGo ==
  \A k \in (Transient \cap used) \ lingering :
    (\A f \in Frames : job[f].patch # k) =>
      \A p \in Parents : own[p] # Missing => k \notin Range(own[p])

(* A deferred patch that finds no module when it is asked for is on its class when
   the import has ended and its hooks have run, also when the import begins, or even
   ends, between the two looks at sys.modules or between these and the hook's
   registration: unless the finder had seen no hook, or the body was running. *)
DeferredLands ==
  module = "loaded" /\ (\A f \in Frames : firing[f] = <<>> /\ label[f] = "idle") =>
    early \subseteq DOMAIN done
=============================================================================
