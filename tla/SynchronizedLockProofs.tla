----------------------- MODULE SynchronizedLockProofs -----------------------
(***************************************************************************)
(* synchronized() gives every context one lock and that lock excludes, for *)
(* any number of threads, tasks and contexts and any depth of nesting.     *)
(***************************************************************************)
EXTENDS SynchronizedLock, TLAPS

USE SynchronizedAssumption
USE DEF Agents, Labels, Uses, NotUsing, Goto, End, InMeta

Action(f) == Call(f) \/ Cancel(f) \/ Step(f)

(* The attribute of a frame that is in use is one of the attributes. *)
LEMMA AttributeTyped ==
  ASSUME NEW f \in Frames, use[f] \in Uses PROVE Attribute(f) \in Attributes
  BY DEF Attribute, Attributes

(* Nothing is used, held or created in the initial state. *)
LEMMA InitEstablishes == Init => IInv
<1> SUFFICES ASSUME Init PROVE IInv
  OBVIOUS
<1> USE DEF Init
<1>1. TypeOK
  BY DEF TypeOK
<1>2. Nesting /\ MetaHeld /\ OneLock
  BY DEF Nesting, MetaHeld, OneLock
<1>3. LocksHeld /\ BodiesHold
  BY DEF LocksHeld, BodiesHold
<1>4. KeptIsOwn
  BY DEF KeptIsOwn
<1> QED
  BY <1>1, <1>2, <1>3, <1>4 DEF IInv

(* Every step leaves the state well typed. *)
LEMMA KeepsType ==
  ASSUME IInv, NEW f \in Frames, Action(f) PROVE TypeOK'
<1> USE DEF IInv, TypeOK
<1>0. label[f] # "idle" => Attribute(f) \in Attributes
  BY AttributeTyped DEF Nesting
<1>1. CASE Call(f)
  BY <1>1 DEF Call, TakeLoop, Frames
<1>2. CASE Cancel(f)
  BY <1>2 DEF Cancel
<1>3. CASE Look(f)
  BY <1>0, <1>3 DEF Look, Found
<1>4. CASE EnterMeta(f)
  BY <1>4 DEF EnterMeta, Frames
<1>5. CASE LookAgain(f)
  BY <1>0, <1>5 DEF LookAgain
<1>6. CASE Create(f)
  BY <1>0, <1>6 DEF Create
<1>7. CASE LeaveMeta(f)
  BY <1>7 DEF LeaveMeta, Found
<1>8. CASE Abandon(f)
  BY <1>8 DEF Abandon, LeaveLoop
<1>9. CASE Keep(f)
  BY <1>0, <1>9 DEF Keep
<1>10. CASE Await(f)
  BY <1>10 DEF Await
<1>11. CASE Acquire(f)
  BY <1>11 DEF Acquire, LeaveLoop
<1>12. CASE Release(f)
  BY <1>12 DEF Release
<1> QED
  BY <1>1, <1>2, <1>3, <1>4, <1>5, <1>6, <1>7, <1>8, <1>9, <1>10, <1>11, <1>12
     DEF Action, Step, Lookup

(* A frame has a frame inside it only while its body runs. *)
LEMMA KeepsNesting ==
  ASSUME IInv, NEW f \in Frames, Action(f) PROVE Nesting'
<1> USE DEF IInv, TypeOK, Nesting, Frames
<1>1. CASE Call(f)
  <2>1. PICK u \in Uses :
          /\ f[2] > 1 => f[1] \in Threads /\ label[<<f[1], f[2] - 1>>] = "body"
          /\ use' = [use EXCEPT ![f] = u]
    BY <1>1 DEF Call
  <2>2. label[f] = "idle" /\ label' = [label EXCEPT ![f] = "look"]
    BY <1>1 DEF Call
  <2>3. SUFFICES ASSUME NEW g \in Frames, label'[g] # "idle"
                 PROVE  /\ use'[g] \in Uses
                        /\ g[1] \in Tasks => g[2] = 1
                        /\ \A d \in 1 .. MaxDepth : d < g[2] => label'[<<g[1], d>>] = "body"
    OBVIOUS
  <2>4. CASE g # f
    <3>1. label[g] # "idle"
      BY <2>2, <2>3, <2>4
    <3>2. ASSUME NEW d \in 1 .. MaxDepth, d < g[2] PROVE label'[<<g[1], d>>] = "body"
      <4>1. label[<<g[1], d>>] = "body" /\ <<g[1], d>> \in Frames
        BY <3>1, <3>2
      <4> QED
        BY <4>1, <2>2
    <3> QED
      BY <3>1, <3>2, <2>1, <2>4
  <2>5. CASE g = f
    <3>1. f[2] \in 1 .. MaxDepth /\ f[1] \in Agents
      OBVIOUS
    <3>2. ASSUME f[2] > 1 PROVE <<f[1], f[2] - 1>> \in Frames
      BY <3>1, <3>2
    <3>3. ASSUME NEW d \in 1 .. MaxDepth, d < f[2] PROVE label[<<f[1], d>>] = "body"
      <4>1. f[2] > 1 /\ d <= f[2] - 1
        BY <3>1, <3>3
      <4>2. label[<<f[1], f[2] - 1>>] = "body" /\ <<f[1], f[2] - 1>> \in Frames
        BY <4>1, <3>2, <2>1
      <4>3. d < f[2] - 1 => label[<<f[1], d>>] = "body"
        BY <4>2, <3>1
      <4> QED
        BY <4>1, <4>2, <4>3, <3>1
    <3>4. ASSUME NEW d \in 1 .. MaxDepth, d < f[2] PROVE label'[<<f[1], d>>] = "body"
      <4>1. <<f[1], d>> # f
        BY <3>4
      <4> QED
        BY <4>1, <3>3, <3>4, <2>2
    <3>5. f[1] \in Tasks => f[2] = 1
      BY <2>1, <3>1
    <3> QED
      BY <3>4, <3>5, <2>1, <2>5
  <2> QED
    BY <2>4, <2>5
<1>2. CASE Cancel(f) \/ Abandon(f)
  BY <1>2 DEF Cancel, Abandon
<1>3. CASE Look(f) \/ LookAgain(f) \/ LeaveMeta(f)
  BY <1>3 DEF Look, LookAgain, LeaveMeta, Found
<1>4. CASE Create(f)
  BY <1>4 DEF Create
<1>5. CASE EnterMeta(f) \/ Keep(f) \/ Await(f) \/ Acquire(f)
  BY <1>5 DEF EnterMeta, Keep, Await, Acquire
<1>6. CASE Release(f)
  <2>1. /\ label' = [label EXCEPT ![f] = "idle"]
        /\ use' = [use EXCEPT ![f] = NotUsing]
        /\ f[2] < MaxDepth => label[<<f[1], f[2] + 1>>] = "idle"
    BY <1>6 DEF Release, InnerIdle
  <2>2. SUFFICES ASSUME NEW g \in Frames, label'[g] # "idle"
                 PROVE  /\ use'[g] \in Uses
                        /\ g[1] \in Tasks => g[2] = 1
                        /\ \A d \in 1 .. MaxDepth : d < g[2] => label'[<<g[1], d>>] = "body"
    OBVIOUS
  <2>3. g # f /\ label[g] # "idle"
    BY <2>1, <2>2
  <2>4. ASSUME NEW d \in 1 .. MaxDepth, d < g[2], <<g[1], d>> = f PROVE FALSE
    <3>1. f[1] = g[1] /\ f[2] = d /\ g[2] \in 1 .. MaxDepth
      BY <2>4
    <3>2. d + 1 \in 1 .. MaxDepth /\ label[<<g[1], d + 1>>] = "idle"
      BY <3>1, <2>1, <2>4
    <3>3. CASE d + 1 = g[2]
      BY <3>1, <3>2, <3>3, <2>3
    <3>4. CASE d + 1 < g[2]
      <4>1. label[<<g[1], d + 1>>] = "body"
        BY <3>2, <3>4, <2>3
      <4> QED
        BY <4>1, <3>2
    <3> QED
      BY <3>1, <3>3, <3>4, <2>4
  <2>5. ASSUME NEW d \in 1 .. MaxDepth, d < g[2] PROVE label'[<<g[1], d>>] = "body"
    <3>1. label[<<g[1], d>>] = "body" /\ <<g[1], d>> # f
      BY <2>3, <2>4, <2>5
    <3> QED
      BY <3>1, <2>1
  <2> QED
    BY <2>1, <2>3, <2>5
<1> QED
  BY <1>1, <1>2, <1>3, <1>4, <1>5, <1>6 DEF Action, Step, Lookup

(* An attribute that is set keeps its lock, and the steps of one frame leave
   what another frame synchronises on alone. *)
LEMMA AttributeKept ==
  ASSUME IInv, NEW f \in Frames, Action(f)
  PROVE  /\ \A a \in Attributes : lockOf[a] # NoLock => lockOf'[a] = lockOf[a]
         /\ \A g \in Frames \ {f} : /\ label'[g] = label[g] /\ mine'[g] = mine[g]
                                     /\ use'[g] = use[g]
                                     /\ Attribute(g)' = Attribute(g)
<1> USE DEF IInv, TypeOK
<1>1. \A g \in Frames \ {f} : /\ label'[g] = label[g] /\ mine'[g] = mine[g]
                              /\ use'[g] = use[g]
  BY DEF Action, Step, Lookup, Call, Cancel, Look, EnterMeta, LookAgain, Create, LeaveMeta,
         Abandon, Keep, Await, Acquire, Release
<1>2. \A g \in Frames \ {f} : Attribute(g)' = Attribute(g)
  BY <1>1 DEF Attribute
<1>3. ASSUME Create(f)
      PROVE  \A a \in Attributes : lockOf[a] # NoLock => lockOf'[a] = lockOf[a]
  <2>1. lockOf[Attribute(f)] = NoLock
    BY <1>3 DEF Create, MetaHeld
  <2>2. lockOf' = lockOf \/ \E l \in Locks : lockOf' = [lockOf EXCEPT ![Attribute(f)] = l]
    BY <1>3 DEF Create
  <2> QED
    BY <2>1, <2>2
<1>4. ASSUME ~Create(f) PROVE lockOf' = lockOf
  BY <1>4 DEF Action, Step, Lookup, Call, Cancel, Look, EnterMeta, LookAgain, LeaveMeta,
              Abandon, Keep, Await, Acquire, Release
<1> QED
  BY <1>1, <1>2, <1>3, <1>4

(* One frame at a time is inside the meta lock. *)
LEMMA AloneInMeta ==
  ASSUME IInv, NEW f \in Frames, NEW g \in Frames,
         label[f] \in InMeta, label[g] \in InMeta
  PROVE  f = g
<1> USE DEF IInv
<1>1. f[1] = g[1]
  BY DEF MetaHeld
<1>2. f[2] \in 1 .. MaxDepth /\ g[2] \in 1 .. MaxDepth /\ f = <<f[1], f[2]>> /\ g = <<g[1], g[2]>>
  BY DEF Frames
<1>3. ~(f[2] < g[2]) /\ ~(g[2] < f[2])
  BY <1>1, <1>2 DEF Nesting
<1> QED
  BY <1>1, <1>2, <1>3

(* The meta lock is held by the agent that is inside it, and an attribute that
   is about to be created is still missing. *)
LEMMA KeepsMeta ==
  ASSUME IInv, NEW f \in Frames, Action(f) PROVE MetaHeld'
<1> SUFFICES ASSUME NEW g \in Frames, label'[g] \in InMeta
             PROVE  /\ meta' = g[1]
                    /\ label'[g] = "create" => lockOf'[Attribute(g)'] = NoLock
  BY DEF MetaHeld
<1> USE DEF IInv, TypeOK
<1>1. CASE g # f
  <2>1. label[g] \in InMeta /\ label'[g] = label[g] /\ Attribute(g)' = Attribute(g)
    BY <1>1, AttributeKept
  <2>2. label[f] \notin InMeta
    BY <1>1, <2>1, AloneInMeta
  <2>3. meta = g[1] /\ meta # NoOne /\ (label[g] = "create" => lockOf[Attribute(g)] = NoLock)
    BY <2>1 DEF MetaHeld, Frames
  <2>4. meta' = meta /\ lockOf' = lockOf
    BY <2>2, <2>3 DEF Action, Step, Lookup, Call, Cancel, Look, EnterMeta, LookAgain,
       Create, LeaveMeta, Abandon, Keep, Await, Acquire, Release
  <2> QED
    BY <2>1, <2>3, <2>4
<1>2. CASE g = f
  <2>1. CASE EnterMeta(f)
    BY <1>2, <2>1 DEF EnterMeta
  <2>2. CASE LookAgain(f)
    <3>1. /\ label[f] = "lookAgain" /\ meta' = meta /\ use' = use /\ lockOf' = lockOf
          /\ label'[f] = "create" => lockOf[Attribute(f)] = NoLock
      BY <2>2 DEF LookAgain
    <3>2. Attribute(f)' = Attribute(f)
      BY <3>1 DEF Attribute
    <3> QED
      BY <1>2, <3>1, <3>2 DEF MetaHeld
  <2>3. CASE Create(f)
    BY <1>2, <2>3 DEF Create, MetaHeld
  <2>4. CASE Call(f) \/ Cancel(f) \/ Look(f) \/ LeaveMeta(f) \/ Abandon(f) \/ Keep(f)
    BY <1>2, <2>4 DEF Call, Cancel, Look, LeaveMeta, Abandon, Keep, Found
  <2>5. CASE Await(f) \/ Acquire(f) \/ Release(f)
    BY <1>2, <2>5 DEF Await, Acquire, Release
  <2> QED
    BY <2>1, <2>2, <2>3, <2>4, <2>5 DEF Action, Step, Lookup
<1> QED
  BY <1>1, <1>2

(* Whoever has found or created a lock has the one the context carries. *)
LEMMA KeepsOneLock ==
  ASSUME IInv, NEW f \in Frames, Action(f) PROVE OneLock'
<1> DEFINE Ready == {"leaveMeta", "keep", "acquire", "body"}
<1> SUFFICES ASSUME NEW g \in Frames, label'[g] \in Ready
             PROVE  mine'[g] # NoLock /\ mine'[g] = lockOf'[Attribute(g)']
  BY DEF OneLock
<1> USE DEF IInv, TypeOK
<1>1. \A h \in Frames : label[h] # "idle" => Attribute(h) \in Attributes
  BY AttributeTyped DEF Nesting
<1>2. CASE g # f
  <2>1. /\ label'[g] = label[g] /\ mine'[g] = mine[g] /\ Attribute(g)' = Attribute(g)
    BY <1>2, AttributeKept
  <2>2. mine[g] # NoLock /\ mine[g] = lockOf[Attribute(g)] /\ Attribute(g) \in Attributes
    BY <2>1, <1>1 DEF OneLock
  <2> QED
    BY <2>1, <2>2, AttributeKept
<1>3. CASE g = f
  <2>1. CASE Look(f) \/ LookAgain(f)
    <3>1. /\ use' = use /\ lockOf' = lockOf /\ mine'[f] = lockOf[Attribute(f)]
          /\ label'[f] \in Ready => lockOf[Attribute(f)] # NoLock
      BY <2>1 DEF Look, LookAgain, Found
    <3>2. Attribute(f)' = Attribute(f)
      BY <3>1 DEF Attribute
    <3> QED
      BY <1>3, <3>1, <3>2
  <2>2. CASE Create(f)
    <3>1. /\ use' = use /\ label[f] = "create"
          /\ \E l \in Locks : /\ lockOf' = [lockOf EXCEPT ![Attribute(f)] = l]
                             /\ mine' = [mine EXCEPT ![f] = l]
      BY <1>3, <2>2 DEF Create
    <3>2. Attribute(f)' = Attribute(f) /\ Attribute(f) \in Attributes
      BY <3>1, <1>1 DEF Attribute
    <3> QED
      BY <1>3, <3>1, <3>2
  <2>3. CASE LeaveMeta(f) \/ Keep(f) \/ Await(f) \/ Acquire(f)
    <3>1. /\ use' = use /\ lockOf' = lockOf /\ mine' = mine /\ label[f] \in Ready
      BY <2>3 DEF LeaveMeta, Keep, Await, Acquire
    <3>2. Attribute(f)' = Attribute(f)
      BY <3>1 DEF Attribute
    <3> QED
      BY <1>3, <3>1, <3>2 DEF OneLock
  <2>4. CASE Call(f) \/ Cancel(f) \/ EnterMeta(f) \/ Abandon(f) \/ Release(f)
    BY <1>3, <2>4 DEF Call, Cancel, EnterMeta, Abandon, Release
  <2> QED
    BY <2>1, <2>2, <2>3, <2>4 DEF Action, Step, Lookup
<1> QED
  BY <1>2, <1>3

(* What a body releases is the lock that it acquired. *)
LEMMA ReleasesMine ==
  ASSUME IInv, NEW f \in Frames, label[f] = "body", use[f].form = "with"
  PROVE  kept[Attribute(f)] = mine[f]
<1>1. Attribute(f) \in Attributes
  BY AttributeTyped DEF IInv, Nesting
<1> QED
  BY <1>1 DEF IInv, KeptIsOwn, OneLock

(* The holders of a lock are frames of one agent, and are in their bodies. *)
LEMMA KeepsHolders ==
  ASSUME IInv, NEW f \in Frames, Action(f) PROVE LocksHeld' /\ BodiesHold'
<1> USE DEF IInv, TypeOK, LocksHeld, BodiesHold
<1>0. \A g \in Frames \ {f} : label'[g] = label[g] /\ mine'[g] = mine[g]
  BY AttributeKept
<1>1. CASE Acquire(f)
  <2>1. /\ label[f] = "acquire" /\ label' = [label EXCEPT ![f] = "body"] /\ mine' = mine
        /\ holders' = [holders EXCEPT ![mine[f]] = @ \cup {f}]
        /\ \A g \in holders[mine[f]] : g[1] = f[1]
    BY <1>1 DEF Acquire
  <2>2. mine[f] \in Locks /\ label'[f] = "body"
    BY <2>1 DEF OneLock
  <2>3. LocksHeld'
    BY <2>1, <2>2
  <2>4. BodiesHold'
    BY <2>1, <2>2, <1>0
  <2> QED
    BY <2>3, <2>4
<1>2. CASE Release(f)
  <2>1. /\ label[f] = "body" /\ mine[f] \in Locks
        /\ label' = [label EXCEPT ![f] = "idle"] /\ mine' = [mine EXCEPT ![f] = NoLock]
    BY <1>2 DEF Release, OneLock
  <2>2. holders' = [holders EXCEPT ![mine[f]] = @ \ {f}]
    BY <1>2, ReleasesMine DEF Release
  <2>3. \A l \in Locks : f \notin holders'[l] /\ holders'[l] \subseteq holders[l]
    BY <2>1, <2>2
  <2>4. LocksHeld'
    BY <2>3, <1>0
  <2>5. ASSUME NEW g \in Frames, label'[g] = "body" PROVE g \in holders'[mine'[g]]
    <3>1. g # f /\ label[g] = "body" /\ mine'[g] = mine[g] /\ g \in holders[mine[g]]
      BY <2>1, <2>5, <1>0
    <3>2. mine[g] \in Locks
      BY <3>1 DEF OneLock
    <3> QED
      BY <3>1, <3>2, <2>1, <2>2
  <2> QED
    BY <2>4, <2>5
<1>3. CASE ~Acquire(f) /\ ~Release(f)
  <2>1. holders' = holders
    BY <1>3 DEF Action, Step, Lookup, Call, Cancel, Look, EnterMeta, LookAgain, Create,
       LeaveMeta, Abandon, Keep, Await
  <2>2. label[f] # "body" /\ label'[f] # "body"
    BY <1>3 DEF Action, Step, Lookup, Call, Cancel, Look, EnterMeta, LookAgain, Create,
       LeaveMeta, Abandon, Keep, Await, Found
  <2> QED
    BY <2>1, <2>2, <1>0
<1> QED
  BY <1>1, <1>2, <1>3

(* A wrapper keeps no other lock than that of its context. *)
LEMMA KeepsKept ==
  ASSUME IInv, NEW f \in Frames, Action(f) PROVE KeptIsOwn'
<1> USE DEF IInv, TypeOK, KeptIsOwn
<1>0. label[f] # "idle" => Attribute(f) \in Attributes
  BY AttributeTyped DEF Nesting
<1>1. CASE Keep(f)
  <2>1. /\ label[f] = "keep" /\ use' = use /\ lockOf' = lockOf
        /\ kept' = [kept EXCEPT ![Attribute(f)] = mine[f]]
        /\ mine[f] = lockOf[Attribute(f)] /\ mine[f] # NoLock
        /\ label' = [label EXCEPT ![f] = "acquire"]
    BY <1>1 DEF Keep, OneLock
  <2>2. \A g \in Frames : Attribute(g)' = Attribute(g)
    BY <2>1 DEF Attribute
  <2>3. \A a \in Attributes : kept'[a] # NoLock => kept'[a] = lockOf'[a]
    BY <2>1
  <2>4. \A a \in Attributes : kept[a] # NoLock => kept'[a] # NoLock
    BY <2>1
  <2>5. ASSUME NEW g \in Frames, label'[g] \in {"acquire", "body"}, use'[g].form = "with"
        PROVE  kept'[Attribute(g)'] # NoLock
    <3>1. CASE g = f
      BY <3>1, <2>1, <2>2, <1>0
    <3>2. CASE g # f
      <4>1. label[g] \in {"acquire", "body"} /\ use[g].form = "with"
        BY <3>2, <2>1, <2>5
      <4>2. Attribute(g) \in Attributes
        BY <4>1, AttributeTyped DEF Nesting
      <4> QED
        BY <4>1, <4>2, <2>2, <2>4
    <3> QED
      BY <3>1, <3>2
  <2> QED
    BY <2>3, <2>5
<1>2. CASE ~Keep(f)
  <2>1. kept' = kept
    BY <1>2 DEF Action, Step, Lookup, Call, Cancel, Look, EnterMeta, LookAgain, Create,
       LeaveMeta, Abandon, Await, Acquire, Release
  <2>2. \A a \in Attributes : kept'[a] # NoLock => kept'[a] = lockOf'[a]
    BY <2>1, AttributeKept
  <2>3. ASSUME NEW g \in Frames, label'[g] \in {"acquire", "body"}, use'[g].form = "with"
        PROVE  kept'[Attribute(g)'] # NoLock
    <3>1. CASE g # f
      BY <3>1, <2>1, <2>3, AttributeKept
    <3>2. CASE g = f
      <4>1. label[f] \in {"acquire", "body"} /\ use' = use
        BY <1>2, <2>3, <3>2 DEF Action, Step, Lookup, Call, Cancel, Look, EnterMeta,
           LookAgain, Create, LeaveMeta, Abandon, Await, Acquire, Release, Found
      <4>2. Attribute(f)' = Attribute(f)
        BY <4>1 DEF Attribute
      <4> QED
        BY <4>1, <4>2, <2>1, <2>3, <3>2
    <3> QED
      BY <3>1, <3>2
  <2> QED
    BY <2>2, <2>3
<1> QED
  BY <1>1, <1>2

LEMMA StepPreserves == IInv /\ [Next]_vars => IInv'
<1> SUFFICES ASSUME IInv, [Next]_vars PROVE IInv'
  OBVIOUS
<1>1. CASE Next
  <2>1. PICK f \in Frames : Action(f)
    BY <1>1 DEF Next, Action
  <2> QED
    BY <2>1, KeepsType, KeepsNesting, KeepsMeta, KeepsOneLock, KeepsHolders, KeepsKept
       DEF IInv
<1>2. CASE UNCHANGED vars
  <2>1. TypeOK' /\ Nesting' /\ LocksHeld' /\ BodiesHold'
    BY <1>2 DEF vars, IInv, TypeOK, Nesting, LocksHeld, BodiesHold
  <2>2. MetaHeld' /\ OneLock' /\ KeptIsOwn'
    BY <1>2 DEF vars, IInv, MetaHeld, OneLock, KeptIsOwn, Attribute
  <2> QED
    BY <2>1, <2>2 DEF IInv
<1> QED
  BY <1>1, <1>2

(* The inductive invariant holds throughout every behaviour. *)
THEOREM Invariance == Spec => []IInv
  BY InitEstablishes, StepPreserves, PTL DEF Spec

(* Every variable stays in its type: an attribute holds a lock or nothing, a lock
   is held by frames. *)
THEOREM TypeCorrectness == Spec => []TypeOK
<1>1. IInv => TypeOK
  BY DEF IInv
<1> QED
  BY <1>1, Invariance, PTL

(* However many threads race for the first use of a context, they all get the
   one lock that the context carries from then on. *)
THEOREM LockIsUnique == Spec => []OneLock
<1>1. IInv => OneLock
  BY DEF IInv
<1> QED
  BY <1>1, Invariance, PTL

(* Bodies synchronised on the same context never overlap. *)
THEOREM Exclusion == Spec => []MutualExclusion
<1>1. ASSUME IInv PROVE MutualExclusion
  <2> SUFFICES ASSUME NEW f \in Frames, NEW g \in Frames, label[f] = "body",
                      label[g] = "body", Attribute(f) = Attribute(g)
               PROVE  f[1] = g[1]
    BY DEF MutualExclusion
  <2>1. mine[f] = mine[g] /\ mine[f] # NoLock
    BY <1>1 DEF IInv, OneLock
  <2>2. mine[f] \in Locks
    BY <1>1, <2>1 DEF IInv, TypeOK
  <2>3. f \in holders[mine[f]] /\ g \in holders[mine[f]]
    BY <1>1, <2>1 DEF IInv, BodiesHold
  <2> QED
    BY <1>1, <2>2, <2>3 DEF IInv, LocksHeld
<1> QED
  BY <1>1, Invariance, PTL

(* Leaving a with statement releases the lock that entering it acquired. *)
THEOREM ReleaseIsOwn == Spec => []ExitReleasesOwn
<1>1. ASSUME IInv PROVE ExitReleasesOwn
  BY <1>1, ReleasesMine DEF ExitReleasesOwn, IInv, BodiesHold
<1> QED
  BY <1>1, Invariance, PTL
=============================================================================
