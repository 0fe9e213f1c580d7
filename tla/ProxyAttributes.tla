-------------------------- MODULE ProxyAttributes --------------------------
(***************************************************************************)
(* One AutoObjectProxy of the Python implementation (src/src/wrapt/        *)
(* proxies.py, wrappers.py), shared by threads.  What it keeps of its own  *)
(* besides __wrapped__ has to follow __wrapped__: the optional special     *)
(* methods of its class, which is this proxy's alone, and a copy of the    *)
(* wrapped object's __qualname__ in its __dict__ (the one of               *)
(* __annotations__ is kept by the same steps).  An assignment writes them  *)
(* one after the other; nothing excludes another thread in between.        *)
(***************************************************************************)
EXTENDS Naturals, Sequences, Functions

CONSTANTS
  Threads, Objects, NoObject,
  Methods,     \* the optional special methods, in the order of the fixups
  Interface,   \* Interface[o]: those that o supports
  Static,      \* those that the proxy's class has itself
  Mutable,     \* the objects with in-place operators
  Sum,         \* Sum[o]: what in-place operators may make of o
  Nameable,    \* the objects with a __qualname__
  Names, NoName

ASSUME AttributesAssumption ==
  /\ Methods \in Seq(Range(Methods)) /\ Methods # <<>>
  /\ Interface \in [Objects -> SUBSET Range(Methods)]
  /\ Static \subseteq Range(Methods)
  /\ Mutable \subseteq Objects /\ Nameable \subseteq Objects
  /\ Sum \in [Objects -> SUBSET Objects]
  /\ NoName \notin Names /\ NoObject \notin Objects

VARIABLES
  wrapped,   \* __wrapped__
  added,     \* the methods put into the proxy's class
  mirror,    \* __qualname__ in the proxy's __dict__
  nameOf,    \* nameOf[o]: the __qualname__ of o
  label,     \* label[t]: where thread t is
  job,       \* job[t]: the value, name or method that t is busy with
  alone,     \* alone[t]: whether t's change has overlapped no other so far
  clean,     \* no overlapping changes since the last assignment that had none
  ever,      \* what the program has wrapped, or is about to
  operand,   \* operand[t]: what the result that t is about to store was made of
  outrun     \* in-place operators that another assignment has come in between

proxyVars == <<wrapped, added, mirror>>
history == <<alone, clean, ever, operand, outrun>>
vars == <<proxyVars, nameOf, label, job, history>>

Provided == added \cup Static

Changing == {"store", "unname", "rename", "fixups", "visit", "add", "check", "drop",
             "operate", "compute", "setName", "mirror", "delName"}

Labels == Changing \cup {"idle", "find", "call", "refused"}

(* found is class_attrs of the fixups, visited how many methods they have seen to. *)
Jobs == [value : Objects \cup {NoObject}, name : Names \cup {NoName},
         found : SUBSET Range(Methods), visited : 0 .. Len(Methods), method : DOMAIN Methods]

NoJob == [value |-> NoObject, name |-> NoName, found |-> {}, visited |-> 0, method |-> 1]

(* Mutant: the methods of the proxy's own class are not left alone. *)
CreatedAll(o) == Interface[o]

(* AutoObjectProxy.__new__ *)
Created(o) == Interface[o] \ Static

(* ObjectProxy.__init__ *)
Init ==
  /\ wrapped \in Objects
  /\ nameOf \in [Objects -> Names \cup {NoName}]
  /\ \A o \in Objects : nameOf[o] # NoName <=> o \in Nameable
  /\ added = Created(wrapped)
  /\ mirror = nameOf[wrapped]
  /\ label = [t \in Threads |-> "idle"]
  /\ job = [t \in Threads |-> NoJob]
  /\ alone = [t \in Threads |-> TRUE]
  /\ clean = TRUE
  /\ ever = {wrapped}
  /\ operand = [t \in Threads |-> NoObject]
  /\ outrun = {}

Goto(t, l) == label' = [label EXCEPT ![t] = l]

Resting(t) == label[t] \in {"idle", "refused"}

(* t starts to change the proxy; changes under way are no longer alone. *)
Begin(t, l) ==
  LET others == {u \in Threads \ {t} : label[u] \in Changing} IN
  /\ Resting(t) /\ Goto(t, l)
  /\ alone' = [u \in Threads |-> CASE u = t -> others = {}
                                   [] u \in others -> FALSE
                                   [] OTHER -> alone[u]]
  /\ clean' = (clean /\ others = {})
  /\ UNCHANGED <<operand, outrun>>

(* It has ended, by itself or by an exception. *)
End(t, repairs) ==
  /\ Goto(t, "idle") /\ job' = [job EXCEPT ![t] = NoJob]
  /\ clean' = (clean \/ (repairs /\ alone[t]))
  /\ alone' = [alone EXCEPT ![t] = TRUE]
  /\ outrun' = outrun \ {t}
  /\ UNCHANGED <<ever, operand>>

(***************************************************************************)
(* proxy.__wrapped__ = o                                                   *)
(***************************************************************************)
Assign(t) ==
  /\ Begin(t, "store")
  /\ \E o \in Objects : job' = [job EXCEPT ![t].value = o] /\ ever' = ever \cup {o}
  /\ UNCHANGED <<proxyVars, nameOf>>

(* The in-place operators between whose steps the assignment of o comes: those
   that have passed the test, if o would not, and those that undo it. *)
Overtaken(o) ==
  {t \in Threads : \/ label[t] = "compute" /\ o \notin Mutable
                   \/ label[t] = "store" /\ operand[t] \notin {o, NoObject}}

Store(t) ==
  /\ label[t] = "store"
  /\ wrapped' = job[t].value
  /\ operand' = [operand EXCEPT ![t] = NoObject]
  /\ outrun' = (outrun \cup Overtaken(wrapped')) \ {t}
  /\ Goto(t, "unname")
  /\ UNCHANGED <<added, mirror, nameOf, job, alone, clean, ever>>

(* Mutant: a name is only ever replaced. *)
UnnameKeeps(t) ==
  /\ label[t] = "unname"
  /\ Goto(t, "rename")
  /\ UNCHANGED <<proxyVars, nameOf, job, history>>

Unname(t) ==
  /\ label[t] = "unname"
  /\ mirror' = NoName
  /\ Goto(t, "rename")
  /\ UNCHANGED <<wrapped, added, nameOf, job, history>>

(* value.__qualname__, when there is one *)
Rename(t) ==
  LET new == nameOf[job[t].value] IN
  /\ label[t] = "rename"
  /\ mirror' = IF new # NoName THEN new ELSE mirror
  /\ Goto(t, "fixups")
  /\ UNCHANGED <<wrapped, added, nameOf, job, history>>

(***************************************************************************)
(* __wrapped_setattr_fixups__                                              *)
(***************************************************************************)
(* Mutant: the methods of the last object go first. *)
FixupsClear(t) ==
  /\ label[t] = "fixups"
  /\ added' = {}
  /\ job' = [job EXCEPT ![t].found = Static]
  /\ Goto(t, "visit")
  /\ UNCHANGED <<wrapped, mirror, nameOf, history>>

(* class_attrs = set(dir(cls)), read once *)
Fixups(t) ==
  /\ label[t] = "fixups"
  /\ job' = [job EXCEPT ![t].found = Provided]
  /\ Goto(t, "visit")
  /\ UNCHANGED <<proxyVars, nameOf, history>>

Current(t) == Methods[job[t].visited + 1]

GoOn(t) == Goto(t, "visit") /\ job' = [job EXCEPT ![t].visited = @ + 1]

(* hasattr(self.__wrapped__, m): __wrapped__ is read again for each method. *)
Visit(t) ==
  /\ label[t] = "visit" /\ job[t].visited < Len(Methods)
  /\ CASE Current(t) \notin Interface[wrapped] -> Goto(t, "check") /\ UNCHANGED job
       [] Current(t) \in Interface[wrapped] \ job[t].found -> Goto(t, "add") /\ UNCHANGED job
       [] OTHER -> GoOn(t)
  /\ UNCHANGED <<proxyVars, nameOf, history>>

Add(t) ==
  /\ label[t] = "add"
  /\ added' = added \cup {Current(t)}
  /\ GoOn(t)
  /\ UNCHANGED <<wrapped, mirror, nameOf, history>>

(* getattr(cls, m, None) is the wrapper that the proxy puts there *)
Check(t) ==
  /\ label[t] = "check"
  /\ IF Current(t) \in added THEN Goto(t, "drop") /\ UNCHANGED job ELSE GoOn(t)
  /\ UNCHANGED <<proxyVars, nameOf, history>>

(* delattr(cls, m) raises when another thread's fixups have deleted it. *)
Drop(t) ==
  /\ label[t] = "drop"
  /\ added' = added \ {Current(t)}
  /\ IF Current(t) \in added THEN GoOn(t) /\ UNCHANGED history ELSE End(t, TRUE)
  /\ UNCHANGED <<wrapped, mirror, nameOf>>

Assigned(t) ==
  /\ label[t] = "visit" /\ job[t].visited = Len(Methods)
  /\ End(t, TRUE)
  /\ UNCHANGED <<proxyVars, nameOf>>

(***************************************************************************)
(* proxy += other and its like.  An object with the in-place operator      *)
(* yields what is assigned; for any other a new proxy goes to the caller.  *)
(***************************************************************************)
Inplace(t) ==
  /\ Begin(t, "operate")
  /\ UNCHANGED <<proxyVars, nameOf, job, ever>>

(* Mutant: without the test. *)
HasOperatorAlways(t) ==
  /\ label[t] = "operate"
  /\ Goto(t, "compute")
  /\ UNCHANGED <<proxyVars, nameOf, job, history>>

HasOperator(t) ==
  /\ label[t] = "operate"
  /\ IF wrapped \in Mutable THEN Goto(t, "compute") /\ UNCHANGED <<job, history>>
                            ELSE End(t, FALSE)
  /\ UNCHANGED <<proxyVars, nameOf>>

(* self.__wrapped__ += other reads it once more, and what the operator of that
   object returns, be it another object, is assigned; unless it raises. *)
Compute(t) ==
  /\ label[t] = "compute"
  /\ \/ /\ \E o \in Sum[wrapped] : job' = [job EXCEPT ![t].value = o]
        /\ operand' = [operand EXCEPT ![t] = wrapped]
        /\ Goto(t, "store")
        /\ UNCHANGED <<alone, clean, ever, outrun>>
     \/ End(t, FALSE)
  /\ UNCHANGED <<proxyVars, nameOf>>

(***************************************************************************)
(* proxy.__qualname__ = n, del proxy.__qualname__                          *)
(***************************************************************************)
SetName(t) ==
  /\ Begin(t, "setName")
  /\ \E n \in Names : job' = [job EXCEPT ![t].name = n]
  /\ UNCHANGED <<proxyVars, nameOf, ever>>

(* setattr(self.__wrapped__, ...) comes first and may raise. *)
SetWrappedName(t) ==
  /\ label[t] = "setName"
  /\ IF wrapped \in Nameable
     THEN /\ nameOf' = [nameOf EXCEPT ![wrapped] = job[t].name]
          /\ Goto(t, "mirror") /\ UNCHANGED <<job, history>>
     ELSE End(t, FALSE) /\ UNCHANGED nameOf
  /\ UNCHANGED proxyVars

SetMirror(t) ==
  /\ label[t] = "mirror"
  /\ mirror' = job[t].name
  /\ End(t, FALSE)
  /\ UNCHANGED <<wrapped, added, nameOf>>

(* The copy goes first, and there has to be one. *)
DelName(t) ==
  /\ mirror # NoName
  /\ Begin(t, "delName")
  /\ mirror' = NoName
  /\ UNCHANGED <<wrapped, added, nameOf, job, ever>>

(* delattr(self.__wrapped__, ...), which functions and classes refuse. *)
DelWrappedName(t) ==
  /\ label[t] = "delName"
  /\ nameOf' \in {nameOf, [nameOf EXCEPT ![wrapped] = NoName]}
  /\ End(t, FALSE)
  /\ UNCHANGED proxyVars

(* proxy.__qualname__: the copy in the __dict__, or else __getattr__. *)
GetName == IF mirror # NoName THEN mirror ELSE nameOf[wrapped]

(***************************************************************************)
(* The use of an optional method: Python finds it in the class of the      *)
(* proxy, and the wrapper there reads __wrapped__.  The operators that     *)
(* every proxy has consist of the second step.                             *)
(***************************************************************************)
Use(t) ==
  /\ Resting(t)
  /\ \E i \in DOMAIN Methods : job' = [job EXCEPT ![t].method = i]
  /\ Goto(t, "find")
  /\ UNCHANGED <<proxyVars, nameOf, history>>

Find(t) ==
  /\ label[t] = "find"
  /\ Goto(t, IF Methods[job[t].method] \in Provided THEN "call" ELSE "refused")
  /\ UNCHANGED <<proxyVars, nameOf, job, history>>

Delegate(t) ==
  /\ label[t] = "call"
  /\ Goto(t, IF Methods[job[t].method] \in Interface[wrapped] \cup Static THEN "idle"
                                                                    ELSE "refused")
  /\ UNCHANGED <<proxyVars, nameOf, job, history>>

Next ==
  \E t \in Threads :
    \/ Assign(t) \/ Store(t) \/ Unname(t) \/ Rename(t)
    \/ Fixups(t) \/ Visit(t) \/ Add(t) \/ Check(t) \/ Drop(t) \/ Assigned(t)
    \/ Inplace(t) \/ HasOperator(t) \/ Compute(t)
    \/ SetName(t) \/ SetWrappedName(t) \/ SetMirror(t) \/ DelName(t) \/ DelWrappedName(t)
    \/ Use(t) \/ Find(t) \/ Delegate(t)

Spec == Init /\ [][Next]_vars

-----------------------------------------------------------------------------
TypeOK ==
  /\ wrapped \in Objects
  /\ added \subseteq Range(Methods) \ Static
  /\ mirror \in Names \cup {NoName}
  /\ nameOf \in [Objects -> Names \cup {NoName}]
  /\ label \in [Threads -> Labels]
  /\ job \in [Threads -> Jobs]
  /\ alone \in [Threads -> BOOLEAN] /\ clean \in BOOLEAN
  /\ ever \subseteq Objects
  /\ operand \in [Threads -> Objects \cup {NoObject}] /\ outrun \subseteq Threads

(* Whatever overlapping assignments have left behind, in the class or in the
   copy of the name, or by dying halfway of a method that was deleted twice: one
   assignment that overlaps with no other change repairs it.  The proxy supports
   exactly what the wrapped object and its class do and has its name, and in-place
   operators and changes of the name that do not overlap keep it so. *)
Agrees ==
  clean /\ (\A t \in Threads : label[t] \notin Changing) =>
    /\ Provided = Interface[wrapped] \cup Static
    /\ GetName = nameOf[wrapped]

Having(m) == {o \in Objects : m \in Interface[o]}

(* All that the program wraps has method m, and what operators make of it. *)
Always(m) == ever \subseteq Having(m) /\ \A o \in Having(m) : Sum[o] \subseteq Having(m)

(* Replacing one callable, iterator, ... by another never makes a use of the
   proxy in another thread fail, however assignments and in-place operators
   overlap: a method goes missing only after an object without it. *)
UsesAnswered ==
  \A t \in Threads : label[t] = "refused" => ~Always(Methods[job[t].method])

(* The test for the operator, the operator and the assignment of its result are
   three steps.  A proxy around an object without the operator never has it replaced
   by what an operator makes of it, and no in-place operator undoes the assignment
   of another thread, unless an assignment has come between these very steps. *)
InplaceKeeps ==
  \A t \in Threads \ outrun : label[t] = "store" =>
    operand[t] \in {NoObject} \cup (Mutable \cap {wrapped})
=============================================================================
