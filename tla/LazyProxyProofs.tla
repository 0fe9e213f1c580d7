-------------------------- MODULE LazyProxyProofs --------------------------
(***************************************************************************)
(* The lock of a lazy proxy does its work for any number of threads and    *)
(* any depth of nested use: two threads are never in the factory at once,  *)
(* what is recorded as made is there, and one object is made.              *)
(***************************************************************************)
EXTENDS LazyProxy, FiniteSetTheorems, TLAPS

USE DEF Locked, Labels, Wrappable, Goto, Return, Fail

(* Nothing runs and nothing is held in the initial state. *)
LEMMA InitEstablishes == Init => IInv
<1> SUFFICES ASSUME Init PROVE IInv
  OBVIOUS
<1>1. TypeOK
  <2>1. label \in [Frames -> Labels] /\ value \in [Frames -> Wrappable \cup {NULL}]
    BY DEF Init
  <2>2. failures \in 0 .. MaxFailures
    BY LazyAssumption DEF Init
  <2>3. lock \subseteq Frames /\ made \subseteq Products
    BY DEF Init
  <2> QED
    BY <2>1, <2>2, <2>3 DEF Init, TypeOK
<1>2. LockHeld
  BY DEF Init, LockHeld
<1>3. MarkedIsSet /\ Settled
  BY DEF Init, MarkedIsSet, Settled
<1>4. Nested /\ OneMade
  BY DEF Init, Nested, OneMade, Frames
<1> QED
  BY <1>1, <1>2, <1>3, <1>4 DEF IInv

(* A step of the lookup or of the factory leaves the state well typed. *)
LEMMA KeepsType ==
  ASSUME IInv, NEW f \in Frames, Step(f)
  PROVE  TypeOK'
<1> USE LazyAssumption DEF IInv, TypeOK
<1>1. CASE Use(f)
  BY <1>1 DEF Use
<1>2. CASE Assign(f)
  BY <1>2 DEF Assign
<1>3. CASE FactoryReturns(f)
  BY <1>3 DEF FactoryReturns
<1>4. CASE FactoryRaises(f)
  BY <1>4 DEF FactoryRaises
<1>5. CASE Test(f)
  BY <1>5 DEF Test
<1>6. CASE Enter(f)
  BY <1>6 DEF Enter
<1>7. CASE Check(f)
  BY <1>7 DEF Check
<1>8. CASE Store(f)
  <2>1. CASE Goto(f, "mark") /\ UNCHANGED <<failures, again>>
    BY <1>8, <2>1 DEF Store
  <2>2. CASE FixupsRaise /\ Fail /\ Goto(f, "unwind") /\ again' = TRUE
    BY <1>8, <2>2 DEF Store
  <2> QED
    BY <1>8, <2>1, <2>2 DEF Store
<1>9. CASE Mark(f)
  BY <1>9 DEF Mark
<1>10. CASE Result(f)
  BY <1>10 DEF Result
<1>11. CASE Exit(f)
  BY <1>11 DEF Exit
<1>12. CASE Unwind(f)
  BY <1>12 DEF Unwind
<1>13. CASE LateSet(f)
  BY <1>13 DEF LateSet
<1>14. CASE Load(f)
  BY <1>14 DEF Load
<1> QED
  BY <1>1, <1>2, <1>3, <1>4, <1>5, <1>6, <1>7, <1>8, <1>9, <1>10, <1>11, <1>12,
     <1>13, <1>14 DEF FactoryEnds, Lookup, Step

(* The lock is held by exactly the frames that are inside it. *)
LEMMA KeepsLock ==
  ASSUME IInv, NEW f \in Frames, Step(f)
  PROVE  LockHeld'
<1> USE DEF IInv, TypeOK, LockHeld
<1>1. CASE Use(f)
  BY <1>1 DEF Use, CanCall
<1>2. CASE Assign(f)
  BY <1>2 DEF Assign
<1>3. CASE FactoryEnds(f)
  BY <1>3 DEF FactoryEnds, FactoryReturns, FactoryRaises
<1>4. CASE Test(f) \/ Check(f) \/ Store(f) \/ Mark(f) \/ Result(f) \/ LateSet(f) \/ Load(f)
  BY <1>4 DEF Test, Check, Store, Mark, Result, LateSet, Load
<1>5. CASE Enter(f)
  BY <1>5 DEF Enter
<1>6. CASE Exit(f) \/ Unwind(f)
  BY <1>6 DEF Exit, Unwind
<1> QED
  BY <1>1, <1>2, <1>3, <1>4, <1>5, <1>6 DEF Lookup, Step

(* Nothing is recorded before an object is in place, and none is taken away. *)
LEMMA KeepsObject ==
  ASSUME IInv, NEW f \in Frames, Step(f)
  PROVE  MarkedIsSet' /\ Settled'
<1> USE LazyAssumption DEF IInv, TypeOK, MarkedIsSet, Settled
<1>1. CASE Use(f)
  BY <1>1 DEF Use
<1>2. CASE Assign(f)
  BY <1>2 DEF Assign
<1>3. CASE FactoryReturns(f)
  BY <1>3 DEF FactoryReturns
<1>4. CASE FactoryRaises(f)
  BY <1>4 DEF FactoryRaises
<1>5. CASE Test(f) \/ Enter(f) \/ Check(f) \/ Unwind(f) \/ Load(f)
  BY <1>5 DEF Test, Enter, Check, Unwind, Load
<1>6. CASE Store(f)
  BY <1>6 DEF Store
<1>7. CASE Mark(f)
  BY <1>7 DEF Mark
<1>8. CASE Result(f)
  BY <1>8 DEF Result
<1>9. CASE Exit(f)
  BY <1>9 DEF Exit
<1>10. CASE LateSet(f)
  BY <1>10 DEF LateSet
<1> QED
  BY <1>1, <1>2, <1>3, <1>4, <1>5, <1>6, <1>7, <1>8, <1>9, <1>10
     DEF FactoryEnds, Lookup, Step

(* A use begins inside a running factory, and a factory ends when what it has
   called has. *)
LEMMA KeepsNesting ==
  ASSUME IInv, NEW f \in Frames, Step(f)
  PROVE  Nested'
<1> SUFFICES ASSUME NEW g \in Frames, NEW d \in 1 .. MaxDepth,
                    label'[g] # "idle", d < g[2]
             PROVE  label'[<<g[1], d>>] = "factory"
  BY DEF Nested
<1> USE LazyAssumption DEF IInv, TypeOK, Frames
<1>1. g = <<g[1], g[2]>> /\ f = <<f[1], f[2]>> /\ <<g[1], d>> \in Frames
      /\ g[2] \in 1 .. MaxDepth /\ f[2] \in 1 .. MaxDepth
  OBVIOUS
<1>2. CASE Use(f)
  <2>1. CASE g # f
    <3>1. label[g] # "idle" /\ label[<<g[1], d>>] = "factory"
      BY <1>2, <2>1 DEF Use, Nested
    <3>2. <<g[1], d>> # f
      BY <1>2, <3>1 DEF Use, CanCall
    <3> QED
      BY <1>1, <1>2, <3>1, <3>2 DEF Use
  <2>2. CASE g = f
    <3>1. label[<<f[1], f[2] - 1>>] = "factory" /\ <<f[1], f[2] - 1>> \in Frames
      BY <1>1, <1>2, <2>2 DEF Use, CanCall
    <3>2. label[<<f[1], d>>] = "factory"
      <4>1. CASE d = f[2] - 1
        BY <3>1, <4>1
      <4>2. CASE d < f[2] - 1
        BY <1>1, <3>1, <4>2 DEF Nested
      <4> QED
        BY <1>1, <2>2, <4>1, <4>2
    <3>3. <<f[1], d>> # f
      BY <1>1, <2>2
    <3> QED
      BY <1>1, <1>2, <2>2, <3>2, <3>3 DEF Use
  <2> QED
    BY <2>1, <2>2
<1>3. ASSUME label[f] \notin {"idle", "factory"}, NEW l, Goto(f, l)
      PROVE  label'[<<g[1], d>>] = "factory"
  <2>1. label[g] # "idle"
    BY <1>3
  <2>2. label[<<g[1], d>>] = "factory"
    BY <2>1 DEF Nested
  <2> QED
    BY <1>1, <1>3, <2>2
<1>4. CASE FactoryEnds(f)
  <2>1. label[f] = "factory" /\ InnerIdle(f) /\ \E l : Goto(f, l)
    BY <1>4 DEF FactoryEnds, FactoryReturns, FactoryRaises
  <2>2. label[g] # "idle"
    BY <2>1
  <2>3. label[<<g[1], d>>] = "factory"
    BY <2>2 DEF Nested
  <2>4. <<g[1], d>> # f
    <3> SUFFICES ASSUME <<g[1], d>> = f PROVE FALSE
      OBVIOUS
    <3>1. f[1] = g[1] /\ f[2] = d
      BY <1>1
    <3>2. f[2] < MaxDepth /\ f[2] + 1 \in 1 .. MaxDepth
      BY <1>1, <3>1
    <3>3. label[<<f[1], f[2] + 1>>] = "idle"
      BY <2>1, <3>2 DEF InnerIdle
    <3>4. CASE g[2] = f[2] + 1
      BY <1>1, <2>2, <3>1, <3>3, <3>4
    <3>5. CASE g[2] > f[2] + 1
      BY <1>1, <2>2, <3>1, <3>2, <3>3, <3>5 DEF Nested
    <3> QED
      BY <1>1, <3>1, <3>4, <3>5
  <2> QED
    BY <1>1, <2>1, <2>3, <2>4
<1>5. CASE Assign(f)
  BY <1>5 DEF Assign, Nested
<1>6. CASE Lookup(f)
  <2>1. label[f] \notin {"idle", "factory"}
    BY <1>6 DEF Lookup, Test, Enter, Check, Store, Mark, Result, Exit, Unwind, LateSet, Load
  <2>2. \E l : Goto(f, l)
    BY <1>6 DEF Lookup, Test, Enter, Check, Store, Mark, Result, Exit, Unwind, LateSet, Load
  <2> QED
    BY <1>3, <2>1, <2>2
<1> QED
  BY <1>2, <1>4, <1>5, <1>6 DEF Step

(* Of the frames that hold the lock only the innermost is not in the factory. *)
LEMMA OneIsInside ==
  ASSUME IInv, NEW f \in Frames, NEW g \in Frames,
         label[f] \in Locked, label[g] \in Locked,
         label[f] # "factory", label[g] # "factory"
  PROVE  f = g
<1> USE DEF IInv, TypeOK, Frames
<1>1. f[1] = g[1]
  BY DEF LockHeld
<1>2. f = <<f[1], f[2]>> /\ g = <<g[1], g[2]>>
      /\ f[2] \in 1 .. MaxDepth /\ g[2] \in 1 .. MaxDepth
  OBVIOUS
<1>3. ~(f[2] < g[2]) /\ ~(g[2] < f[2])
  BY <1>1, <1>2 DEF Nested
<1> QED
  BY <1>1, <1>2, <1>3, LazyAssumption

(* A factory that has returned an object is the last one to run. *)
LEMMA KeepsOneMade ==
  ASSUME IInv, NEW f \in Frames, Step(f)
  PROVE  OneMade'
<1> SUFFICES ASSUME ~again', made' # {}
             PROVE  /\ \E o \in Products : made' = {o}
                    /\ getCalled' \/ \E g \in Frames : label'[g] \in {"store", "mark"}
                    /\ \A g \in Frames : label'[g] # "factory"
  BY DEF OneMade
<1> USE LazyAssumption DEF IInv, TypeOK
<1>1. CASE FactoryReturns(f)
  <2>1. label[f] = "factory" /\ f[2] = 1 /\ ~again
    <3>1. f[2] \in 1 .. MaxDepth
      BY DEF Frames
    <3>2. label[f] = "factory" /\ ~again /\ ~(f[2] > 1)
      BY <1>1 DEF FactoryReturns
    <3> QED
      BY <3>1, <3>2
  <2>2. made = {}
    BY <2>1 DEF OneMade
  <2>3. ASSUME NEW g \in Frames, label[g] = "factory" PROVE g = f
    <3>1. g[1] = f[1]
      BY <2>1, <2>3 DEF LockHeld
    <3>2. g = <<g[1], g[2]>> /\ f = <<f[1], 1>> /\ g[2] \in 1 .. MaxDepth
      BY <2>1 DEF Frames
    <3>3. CASE g[2] = 1
      BY <3>1, <3>2, <3>3
    <3>4. CASE g[2] = 2
      <4>1. label[<<f[1], 2>>] = "idle"
        BY <1>1, <2>1, <3>2, <3>4 DEF FactoryReturns, InnerIdle
      <4> QED
        BY <2>3, <3>1, <3>2, <3>4, <4>1
    <3>5. CASE g[2] > 2
      <4>1. label[<<f[1], 2>>] = "idle"
        BY <1>1, <2>1, <3>2, <3>5 DEF FactoryReturns, InnerIdle
      <4>2. label[<<g[1], 2>>] = "factory"
        BY <2>3, <3>2, <3>5 DEF Nested
      <4> QED
        BY <3>1, <4>1, <4>2
    <3> QED
      BY <3>2, <3>3, <3>4, <3>5
  <2>4. \E o \in Products : made' = {o}
    BY <1>1, <2>2 DEF FactoryReturns
  <2>5. label' = [label EXCEPT ![f] = "store"]
    BY <1>1 DEF FactoryReturns
  <2> QED
    BY <2>3, <2>4, <2>5
<1>2. CASE Use(f)
  BY <1>2 DEF Use, CanCall, OneMade
<1>3. CASE Assign(f)
  BY <1>3 DEF Assign, OneMade
<1>4. CASE FactoryRaises(f)
  BY <1>4 DEF FactoryRaises, OneMade
<1>5. CASE Check(f)
  <2>1. made # {} /\ ~again /\ label[f] = "check"
    BY <1>5 DEF Check
  <2>2. getCalled
    <3> SUFFICES ASSUME NEW g \in Frames, label[g] \in {"store", "mark"} PROVE FALSE
      BY <2>1 DEF OneMade
    <3> QED
      BY <2>1, OneIsInside
  <2> QED
    BY <1>5, <2>1, <2>2 DEF Check, OneMade
<1>6. CASE Store(f)
  BY <1>6 DEF Store, OneMade
<1>7. CASE Mark(f)
  BY <1>7 DEF Mark, OneMade
<1>8. CASE Test(f) \/ Enter(f) \/ Result(f) \/ Exit(f) \/ Unwind(f) \/ LateSet(f) \/ Load(f)
  BY <1>8 DEF Test, Enter, Result, Exit, Unwind, LateSet, Load, OneMade
<1> QED
  BY <1>1, <1>2, <1>3, <1>4, <1>5, <1>6, <1>7, <1>8 DEF FactoryEnds, Lookup, Step

LEMMA StepPreserves == IInv /\ [Next]_vars => IInv'
<1> SUFFICES ASSUME IInv, [Next]_vars PROVE IInv'
  OBVIOUS
<1>1. CASE Next
  <2>1. PICK f \in Frames : Step(f)
    BY <1>1 DEF Next
  <2> QED
    BY <2>1, KeepsType, KeepsLock, KeepsObject, KeepsNesting, KeepsOneMade DEF IInv
<1>2. CASE UNCHANGED vars
  BY <1>2 DEF vars, IInv, TypeOK, LockHeld, MarkedIsSet, Settled, Nested, OneMade
<1> QED
  BY <1>1, <1>2

(* The inductive invariant holds throughout every behaviour. *)
THEOREM Invariance == Spec => []IInv
  BY InitEstablishes, StepPreserves, PTL DEF Spec

(* Every variable stays in its type: the lock is held by frames, what is made is a
   product of the factory. *)
THEOREM TypeCorrectness == Spec => []TypeOK
<1>1. IInv => TypeOK
  BY DEF IInv
<1> QED
  BY <1>1, Invariance, PTL

(* However many threads compete for the first use, one factory call succeeds, as
   long as no factory uses its own proxy and no fixups raise. *)
THEOREM OneObjectIsMade == Spec => []OneObject
<1>1. ASSUME IInv PROVE OneObject
  <2> SUFFICES ASSUME ~again PROVE Cardinality(made) <= 1
    BY DEF OneObject
  <2>1. CASE made = {}
    BY <2>1, FS_EmptySet
  <2>2. CASE \E o \in Products : made = {o}
    BY <2>2, FS_Singleton
  <2> QED
    BY <1>1, <2>1, <2>2 DEF IInv, OneMade
<1> QED
  BY <1>1, Invariance, PTL

(* No two threads are ever in the factory at once, in C and in Python. *)
THEOREM FactoryRunsAlone == Spec => []FactoryExclusive
<1>1. IInv => FactoryExclusive
  BY DEF IInv, LockHeld, FactoryExclusive
<1> QED
  BY <1>1, Invariance, PTL

(* When __wrapped_get_called__ is set so is __wrapped__: the early return of
   __wrapped_get__ never calls __wrapped_get__ again. *)
THEOREM RecordedIsThere == Spec => []MarkedIsSet
<1>1. IInv => MarkedIsSet
  BY DEF IInv
<1> QED
  BY <1>1, Invariance, PTL

(* Only the C extension has a late assignment. *)
NoLateSet == ~inC => \A f \in Frames : label[f] # "lateSet"

LEMMA LateSetIsInC == Spec => [](IInv /\ NoLateSet)
<1>1. Init => NoLateSet
  BY DEF Init, NoLateSet
<1>2. ASSUME IInv, NoLateSet, [Next]_vars PROVE NoLateSet'
  <2> USE <1>2 DEF IInv, TypeOK, NoLateSet
  <2>1. ASSUME NEW f \in Frames, Use(f) \/ Assign(f) \/ FactoryEnds(f) PROVE NoLateSet'
    BY <2>1 DEF Use, Assign, FactoryEnds, FactoryReturns, FactoryRaises
  <2>2. ASSUME NEW f \in Frames, Test(f) \/ Enter(f) \/ Check(f) \/ Store(f) \/ Mark(f)
        PROVE NoLateSet'
    BY <2>2 DEF Test, Enter, Check, Store, Mark
  <2>3. ASSUME NEW f \in Frames,
               Result(f) \/ Exit(f) \/ Unwind(f) \/ LateSet(f) \/ Load(f)
        PROVE NoLateSet'
    BY <2>3 DEF Result, Exit, Unwind, LateSet, Load
  <2>4. CASE UNCHANGED vars
    BY <2>4 DEF vars
  <2> QED
    BY <2>1, <2>2, <2>3, <2>4 DEF Next, Step, Lookup
<1> QED
  BY <1>1, <1>2, Invariance, PTL DEF Spec

(* A use that writes after the factory's object is in place is one of the C
   extension: with the Python implementation only an assignment does. *)
THEOREM PythonReadsAreReads == Spec => PythonReadsNeverWrite
<1>1. ASSUME IInv, NoLateSet, [Next]_vars,
             ~inC, getCalled, \A f \in Frames : label[f] \notin {"factory", "store"},
             wrapped' # wrapped
      PROVE  \E f \in Frames : Assign(f)
  <2> USE <1>1 DEF NoLateSet
  <2>1. PICK f \in Frames : Step(f)
    BY DEF Next, vars
  <2>2. ~Use(f) /\ ~FactoryEnds(f)
    BY DEF Use, FactoryEnds, FactoryReturns, FactoryRaises
  <2>3. ~(Test(f) \/ Enter(f) \/ Check(f) \/ Mark(f) \/ Result(f))
    BY DEF Test, Enter, Check, Mark, Result
  <2>4. ~(Store(f) \/ Exit(f) \/ Unwind(f) \/ LateSet(f) \/ Load(f))
    BY DEF Store, Exit, Unwind, LateSet, Load
  <2> QED
    BY <2>1, <2>2, <2>3, <2>4 DEF Lookup, Step
<1> QED
  BY <1>1, LateSetIsInC, PTL DEF Spec, PythonReadsNeverWrite
=============================================================================
