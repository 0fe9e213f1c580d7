------------------------ MODULE ObjectProxyProofs ------------------------
(***************************************************************************)
(* ObjectProxy for any number of threads, proxies and objects: references  *)
(* are counted exactly, nothing dangling is ever reached, no path leaks,   *)
(* and a proxy in use never becomes empty.                                 *)
(***************************************************************************)
EXTENDS ObjectProxy, FiniteSetTheorems, TLAPS

---------------------------------------------------------------------------
(* The three operations on references keep the counts exact, for any set of slots. *)

(* What the operations need of the state: the slots hold objects, and every
   count is the number of slots holding the object. *)
Sound(S) ==
  /\ NULL \notin Objects
  /\ IsFiniteSet(S)
  /\ slot \in [S -> Objects \cup {NULL}]
  /\ refs \in [Objects -> Nat]
  /\ CountsExact

(* Only finitely many slots hold an object. *)
LEMMA HoldersFinite ==
  ASSUME NEW S, Sound(S), NEW o \in Objects
  PROVE  /\ IsFiniteSet(Holders(o))
         /\ Holders(o) \in SUBSET S
         /\ refs[o] = Cardinality(Holders(o))
<1>1. Holders(o) \in SUBSET S
  BY DEF Sound, Holders
<1>2. QED
  BY <1>1, FS_Subset DEF Sound, CountsExact

(* An object some slot holds is allocated. *)
LEMMA HeldIsAllocated ==
  ASSUME NEW S, Sound(S), NEW s \in S, slot[s] # NULL
  PROVE  slot[s] \in Objects /\ refs[slot[s]] > 0
<1> DEFINE o == slot[s]
<1>1. o \in Objects
  BY DEF Sound
<1>2. s \in Holders(o)
  BY DEF Sound, Holders
<1>3. IsFiniteSet(Holders(o)) /\ refs[o] = Cardinality(Holders(o))
  BY <1>1, HoldersFinite
<1>4. Cardinality(Holders(o)) # 0
  BY <1>2, <1>3, FS_EmptySet
<1>5. Cardinality(Holders(o)) \in Nat
  BY <1>3, FS_CardinalityType
<1>6. QED
  BY <1>1, <1>3, <1>4, <1>5

(* An increment kept in a slot that was empty counts that slot. *)
LEMMA AcquireSound ==
  ASSUME NEW S, Sound(S), NEW s \in S, slot[s] = NULL,
         NEW o \in Objects \cup {NULL}, Acquire(s, o)
  PROVE  Sound(S)'
<1>1. slot' \in [S -> Objects \cup {NULL}] /\ refs' \in [Objects -> Nat]
  BY DEF Sound, Acquire
<1>2. ASSUME NEW x \in Objects
      PROVE  refs'[x] = Cardinality(Holders(x)')
  <2>1. IsFiniteSet(Holders(x)) /\ refs[x] = Cardinality(Holders(x))
    BY HoldersFinite
  <2>2. CASE x = o
    <3>1. Holders(x)' = Holders(x) \cup {s} /\ s \notin Holders(x)
      BY <2>2 DEF Sound, Acquire, Holders
    <3>2. refs'[x] = refs[x] + 1
      BY <2>2 DEF Sound, Acquire
    <3>3. QED
      BY <2>1, <3>1, <3>2, FS_AddElement
  <2>3. CASE x # o
    <3>1. Holders(x)' = Holders(x)
      BY <2>3 DEF Sound, Acquire, Holders
    <3>2. refs'[x] = refs[x]
      BY <2>3 DEF Sound, Acquire
    <3>3. QED
      BY <2>1, <3>1, <3>2
  <2>4. QED
    BY <2>2, <2>3
<1>3. QED
  BY <1>1, <1>2 DEF Sound, CountsExact

(* A decrement of what a slot holds stops counting that slot, and never takes
   a count below 0. *)
LEMMA ReleaseSound ==
  ASSUME NEW S, Sound(S), NEW s \in S, Release(s)
  PROVE  Sound(S)'
<1>1. slot' \in [S -> Objects \cup {NULL}]
  BY DEF Sound, Release
<1>2. CASE slot[s] = NULL
  <2>1. slot' = slot /\ refs' = refs
    BY <1>2 DEF Sound, Release
  <2>2. QED
    BY <2>1 DEF Sound, CountsExact, Holders
<1>3. CASE slot[s] # NULL
  <2> DEFINE o == slot[s]
  <2>1. o \in Objects /\ refs[o] > 0
    BY <1>3, HeldIsAllocated
  <2>2. refs' = [refs EXCEPT ![o] = @ - 1] /\ refs' \in [Objects -> Nat]
    BY <1>3, <2>1 DEF Sound, Release
  <2>3. ASSUME NEW x \in Objects
        PROVE  refs'[x] = Cardinality(Holders(x)')
    <3>1. IsFiniteSet(Holders(x)) /\ refs[x] = Cardinality(Holders(x))
      BY HoldersFinite
    <3>2. CASE x = o
      <4>1. Holders(x)' = Holders(x) \ {s} /\ s \in Holders(x)
        BY <1>3, <3>2 DEF Sound, Release, Holders
      <4>2. refs'[x] = refs[x] - 1
        BY <2>1, <2>2, <3>2 DEF Sound
      <4>3. QED
        BY <3>1, <4>1, <4>2, FS_RemoveElement
    <3>3. CASE x # o
      <4>1. Holders(x)' = Holders(x)
        BY <1>3, <3>3 DEF Sound, Release, Holders
      <4>2. refs'[x] = refs[x]
        BY <2>2, <3>3 DEF Sound
      <4>3. QED
        BY <3>1, <4>1, <4>2
    <3>4. QED
      BY <3>2, <3>3
  <2>4. QED
    BY <1>1, <2>2, <2>3 DEF Sound, CountsExact
<1>4. QED
  BY <1>2, <1>3

(* Replacing a member by another element keeps the size of a finite set. *)
LEMMA ReplaceMember ==
  ASSUME NEW H, IsFiniteSet(H), NEW a \in H, NEW b, b \notin H \ {a}
  PROVE  Cardinality((H \ {a}) \cup {b}) = Cardinality(H)
<1> DEFINE R == H \ {a}
<1>1. IsFiniteSet(R) /\ Cardinality(R) = Cardinality(H) - 1
  BY FS_RemoveElement
<1>2. Cardinality(R \cup {b}) = Cardinality(R) + 1
  BY <1>1, FS_AddElement
<1>3. Cardinality(H) \in Nat
  BY FS_CardinalityType
<1>4. QED
  BY <1>1, <1>2, <1>3

(* Exchanging the contents of two slots changes no count. *)
LEMMA ExchangeSound ==
  ASSUME NEW S, Sound(S), NEW s1 \in S, NEW s2 \in S, s1 # s2, Exchange(s1, s2)
  PROVE  Sound(S)'
<1>1. slot' \in [S -> Objects \cup {NULL}] /\ refs' = refs
  BY DEF Sound, Exchange
<1>2. ASSUME NEW x \in Objects
      PROVE  Cardinality(Holders(x)') = Cardinality(Holders(x))
  <2>1. IsFiniteSet(Holders(x))
    BY HoldersFinite
  <2>2. CASE slot[s1] = slot[s2] \/ (x # slot[s1] /\ x # slot[s2])
    <3>1. Holders(x)' = Holders(x)
      BY <2>2 DEF Sound, Exchange, Holders
    <3>2. QED
      BY <3>1
  <2>3. CASE slot[s1] # slot[s2] /\ x = slot[s1]
    <3>1. /\ Holders(x)' = (Holders(x) \ {s1}) \cup {s2}
          /\ s1 \in Holders(x)
          /\ s2 \notin Holders(x) \ {s1}
      BY <2>3 DEF Sound, Exchange, Holders
    <3>2. QED
      BY <2>1, <3>1, ReplaceMember
  <2>4. CASE slot[s1] # slot[s2] /\ x = slot[s2]
    <3>1. /\ Holders(x)' = (Holders(x) \ {s2}) \cup {s1}
          /\ s2 \in Holders(x)
          /\ s1 \notin Holders(x) \ {s2}
      BY <2>4 DEF Sound, Exchange, Holders
    <3>2. QED
      BY <2>1, <3>1, ReplaceMember
  <2>5. QED
    BY <2>2, <2>3, <2>4
<1>3. QED
  BY <1>1, <1>2 DEF Sound, CountsExact

---------------------------------------------------------------------------
(* The invariant *)

(* Distinct names are distinct slots. *)
LEMMA SlotNames ==
  /\ \A t \in Threads, l \in Locals : <<t, l>> \in Slots
  /\ \A p \in Proxies : <<p, "wrapped">> \in Slots
  /\ \A t, u \in Threads : \A l, m \in Locals : <<t, l>> = <<u, m>> => t = u /\ l = m
  /\ \A p, q \in Proxies : <<p, "wrapped">> = <<q, "wrapped">> => p = q
  /\ \A p \in Proxies, t \in Threads, l \in Locals : <<p, "wrapped">> # <<t, l>>
BY DEF Slots, Locals

LEMMA SlotsFinite == IsFiniteSet(Slots)
<1>1. IsFiniteSet({"wrapped"}) /\ IsFiniteSet(Locals)
  <2>1. IsFiniteSet({"wrapped"})
    BY FS_Singleton
  <2>2. Locals = (({"user"} \cup {"left"}) \cup {"right"}) \cup {"new"}
    BY DEF Locals
  <2>3. IsFiniteSet({"user"})
    BY FS_Singleton
  <2>4. QED
    BY <2>1, <2>2, <2>3, FS_AddElement
<1>2. IsFiniteSet(Proxies \X {"wrapped"}) /\ IsFiniteSet(Threads \X Locals)
  BY <1>1, ConstantsFinite, FS_Product
<1>3. QED
  BY <1>2, FS_Union DEF Slots

LEMMA InvariantSound == IInv => Sound(Slots)
BY SlotsFinite, ConstantsDistinct DEF IInv, TypeOK, Sound

(* The initial state satisfies the invariant. *)
LEMMA InitEstablishes == Init => IInv
<1> SUFFICES ASSUME Init PROVE IInv
  OBVIOUS
<1>1. TypeOK
  BY DEF Init, TypeOK, Labels, NoOp, Operation, Kinds, Outcomes
<1>2. ASSUME NEW o \in Objects PROVE refs[o] = Cardinality(Holders(o))
  <2>1. Holders(o) = {}
    BY ConstantsDistinct DEF Init, Holders
  <2>2. QED
    BY <2>1, FS_EmptySet DEF Init
<1>3. ASSUME NEW t \in Threads PROVE Flow(t) /\ Owned(t) /\ Tested(t)
  BY SlotNames DEF Init, Flow, Owned, Tested, Operator, NoOp, Locals, Held
<1>4. InitLeavesWrapped
  BY DEF Init, InitLeavesWrapped
<1>5. QED
  BY <1>1, <1>2, <1>3, <1>4 DEF IInv, CountsExact

(***************************************************************************)
(* What a step of thread t, or of the environment, leaves alone.           *)
(***************************************************************************)
WrappedKept ==
  \A p \in Proxies : Wrapped(p) # NULL => Wrapped(p)' # NULL

OthersUntouched(t) ==
  \A u \in Threads \ {t} :
    /\ pc'[u] = pc[u] /\ op'[u] = op[u]
    /\ \A l \in Locals : Held(u, l)' = Held(u, l)

(* The frames of the other threads are as they were. *)
LEMMA OtherFrames ==
  ASSUME IInv, NEW t \in Threads, OthersUntouched(t), WrappedKept
  PROVE  \A u \in Threads \ {t} : Flow(u)' /\ Owned(u)' /\ Tested(u)'
<1> SUFFICES ASSUME NEW u \in Threads \ {t}
             PROVE  Flow(u)' /\ Owned(u)' /\ Tested(u)'
  OBVIOUS
<1>1. /\ pc'[u] = pc[u] /\ op'[u] = op[u]
      /\ Held(u, "user")' = Held(u, "user") /\ Held(u, "left")' = Held(u, "left")
      /\ Held(u, "right")' = Held(u, "right") /\ Held(u, "new")' = Held(u, "new")
  BY DEF OthersUntouched, Locals
<1>2. Flow(u) /\ Owned(u) /\ Tested(u)
  BY DEF IInv
<1>3. op[u] \in Operation
  BY DEF IInv, TypeOK
<1>4. Flow(u)'
  BY <1>1, <1>2 DEF Flow, Operator
<1>5. Owned(u)'
  BY <1>1, <1>2 DEF Owned, Operator
<1>6. ~Missing(op[u].left) => ~Missing(op[u].left)'
  BY <1>1, <1>3, ConstantsDistinct DEF Missing, WrappedKept, Operation
<1>7. Tested(u)'
  BY <1>1, <1>2, <1>6 DEF Tested, Operator
<1>8. QED
  BY <1>4, <1>5, <1>7

(* A step of thread t which keeps the counts sound, its own frame in order and
   every proxy wrapped preserves the invariant. *)
LEMMA ThreadStep ==
  ASSUME IInv, NEW t \in Threads, Sound(Slots)',
         pc' \in [Threads -> Labels], op' \in [Threads -> Operation],
         initCalled' = initCalled,
         Flow(t)', Owned(t)', Tested(t)', OthersUntouched(t), WrappedKept
  PROVE  IInv'
<1>1. TypeOK' /\ CountsExact'
  BY DEF Sound, TypeOK, IInv
<1>2. \A u \in Threads : Flow(u)' /\ Owned(u)' /\ Tested(u)'
  BY OtherFrames
<1>3. InitLeavesWrapped'
  BY DEF IInv, InitLeavesWrapped, WrappedKept
<1>4. QED
  BY <1>1, <1>2, <1>3 DEF IInv

(***************************************************************************)
(* The operations on references, seen from the frame of thread t.          *)
(***************************************************************************)
OnlyLocal(t, l) ==
  /\ \A m \in Locals \ {l} : Held(t, m)' = Held(t, m)
  /\ \A u \in Threads \ {t} : \A m \in Locals : Held(u, m)' = Held(u, m)
  /\ \A p \in Proxies : Wrapped(p)' = Wrapped(p)

LEMMA AcquireLocal ==
  ASSUME IInv, NEW t \in Threads, NEW l \in Locals, Held(t, l) = NULL,
         NEW o \in Objects \cup {NULL}, Acquire(<<t, l>>, o)
  PROVE  Sound(Slots)' /\ Held(t, l)' = o /\ OnlyLocal(t, l)
<1> DEFINE s == <<t, l>>
<1>1. s \in Slots
  BY SlotNames
<1>2. Sound(Slots)'
  BY <1>1, InvariantSound, AcquireSound DEF Held
<1>3. slot \in [Slots -> Objects \cup {NULL}] /\ slot' = [slot EXCEPT ![s] = o]
  BY DEF Acquire, IInv, TypeOK
<1>4. slot'[s] = o /\ \A x \in Slots \ {s} : slot'[x] = slot[x]
  BY <1>1, <1>3
<1>5. QED
  BY <1>2, <1>4, SlotNames DEF OnlyLocal, Held, Wrapped

LEMMA ReleaseLocal ==
  ASSUME IInv, NEW t \in Threads, NEW l \in Locals, Release(<<t, l>>)
  PROVE  Sound(Slots)' /\ Held(t, l)' = NULL /\ OnlyLocal(t, l)
<1> DEFINE s == <<t, l>>
<1>1. s \in Slots
  BY SlotNames
<1>2. Sound(Slots)'
  BY <1>1, InvariantSound, ReleaseSound
<1>3. slot \in [Slots -> Objects \cup {NULL}] /\ slot' = [slot EXCEPT ![s] = NULL]
  BY DEF Release, IInv, TypeOK
<1>4. slot'[s] = NULL /\ \A x \in Slots \ {s} : slot'[x] = slot[x]
  BY <1>1, <1>3
<1>5. QED
  BY <1>2, <1>4, SlotNames DEF OnlyLocal, Held, Wrapped

LEMMA SlotsUnchanged ==
  ASSUME IInv, UNCHANGED <<slot, refs>>
  PROVE  /\ Sound(Slots)'
         /\ \A u \in Threads, l \in Locals : Held(u, l)' = Held(u, l)
         /\ \A p \in Proxies : Wrapped(p)' = Wrapped(p)
BY InvariantSound DEF Sound, CountsExact, Holders, Held, Wrapped

LEMMA GotoControl ==
  ASSUME IInv, NEW t \in Threads, NEW label \in Labels, Goto(t, label)
  PROVE  /\ pc' \in [Threads -> Labels] /\ op' \in [Threads -> Operation]
         /\ pc'[t] = label /\ op'[t] = op[t] /\ op[t] \in Operation
         /\ \A u \in Threads \ {t} : pc'[u] = pc[u] /\ op'[u] = op[u]
BY DEF Goto, IInv, TypeOK

(* Returning is in order once every local reference has been released. *)
LEMMA ReturnControl ==
  ASSUME IInv, NEW t \in Threads, Return(t)
  PROVE  /\ pc' \in [Threads -> Labels] /\ op' \in [Threads -> Operation]
         /\ pc'[t] = "idle" /\ op'[t] = NoOp
         /\ \A u \in Threads \ {t} : pc'[u] = pc[u] /\ op'[u] = op[u]
BY DEF Return, IInv, TypeOK, NoOp, Operation, Kinds, Outcomes, Labels

LEMMA ReturnStep ==
  ASSUME IInv, NEW t \in Threads, Return(t), Sound(Slots)',
         \A l \in {"left", "right", "new"} : Held(t, l)' = NULL,
         \A u \in Threads \ {t} : \A l \in Locals : Held(u, l)' = Held(u, l),
         WrappedKept, initCalled' = initCalled
  PROVE  IInv'
<1>1. /\ pc' \in [Threads -> Labels] /\ op' \in [Threads -> Operation]
      /\ pc'[t] = "idle" /\ op'[t] = NoOp
      /\ \A u \in Threads \ {t} : pc'[u] = pc[u] /\ op'[u] = op[u]
  BY ReturnControl
<1>2. Held(t, "left")' = NULL /\ Held(t, "right")' = NULL /\ Held(t, "new")' = NULL
  OBVIOUS
<1>3. Flow(t)' /\ Owned(t)' /\ Tested(t)'
  BY <1>1, <1>2 DEF Flow, Owned, Tested, Operator, NoOp
<1>4. OthersUntouched(t)
  BY <1>1 DEF OthersUntouched
<1>5. QED
  BY <1>1, <1>3, <1>4, ThreadStep

LEMMA GotoStep ==
  ASSUME IInv, NEW t \in Threads, NEW label \in Labels, Goto(t, label), Sound(Slots)',
         \A u \in Threads \ {t} : \A l \in Locals : Held(u, l)' = Held(u, l),
         WrappedKept, initCalled' = initCalled,
         Flow(t)', Owned(t)', Tested(t)'
  PROVE  IInv'
<1>1. /\ pc' \in [Threads -> Labels] /\ op' \in [Threads -> Operation]
      /\ \A u \in Threads \ {t} : pc'[u] = pc[u] /\ op'[u] = op[u]
  BY GotoControl
<1>2. OthersUntouched(t)
  BY <1>1 DEF OthersUntouched
<1>3. QED
  BY <1>1, <1>2, ThreadStep

(***************************************************************************)
(* The steps that touch no reference.                                      *)
(***************************************************************************)
LEMMA BeginPreserves ==
  ASSUME IInv, NEW t \in Threads, NEW kind \in Kinds,
         NEW x \in Proxies \cup {Plain}, NEW y \in Proxies \cup {Plain},
         kind # "binary" => x \in Proxies,
         kind \notin {"binary", "inplace"} => y = Plain,
         kind \in {"binary", "inplace"} /\ Plain \in {x, y} => Held(t, "user") # NULL,
         kind \in {"set", "init"} => Held(t, "user") # NULL,
         kind = "get" => Held(t, "user") = NULL,
         Begin(t, kind, x, y, IF kind \in {"set", "init"} THEN "takeNew" ELSE "testLeft")
  PROVE  IInv'
<1>1. /\ Sound(Slots)'
      /\ \A u \in Threads, l \in Locals : Held(u, l)' = Held(u, l)
      /\ \A p \in Proxies : Wrapped(p)' = Wrapped(p)
  BY SlotsUnchanged DEF Begin
<1>2. /\ pc' \in [Threads -> Labels] /\ op' \in [Threads -> Operation]
      /\ pc'[t] = IF kind \in {"set", "init"} THEN "takeNew" ELSE "testLeft"
      /\ op'[t] = [kind |-> kind, left |-> x, right |-> y, outcome |-> "none"]
      /\ \A u \in Threads \ {t} : pc'[u] = pc[u] /\ op'[u] = op[u]
  BY DEF Begin, IInv, TypeOK, Operation, Kinds, Outcomes, Labels
<1>3. /\ Held(t, "user")' = Held(t, "user") /\ Held(t, "left")' = Held(t, "left")
      /\ Held(t, "right")' = Held(t, "right") /\ Held(t, "new")' = Held(t, "new")
  BY <1>1 DEF Locals
<1>4. pc[t] = "idle" /\ Flow(t) /\ Owned(t)
  BY DEF Begin, IInv
<1>5. Flow(t)'
  BY <1>2 DEF Flow, Operator, Kinds
<1>6. Owned(t)'
  BY <1>2, <1>3, <1>4 DEF Owned, Operator, Kinds, Flow
<1>7. Tested(t)'
  BY <1>2, <1>3 DEF Tested, Operator
<1>8. OthersUntouched(t) /\ WrappedKept
  BY <1>1, <1>2 DEF OthersUntouched, WrappedKept
<1>9. QED
  BY <1>1, <1>2, <1>5, <1>6, <1>7, <1>8, ThreadStep DEF Begin

LEMMA TestLeftPreserves ==
  ASSUME IInv, NEW t \in Threads, TestLeft(t)
  PROVE  IInv'
<1>1. /\ Sound(Slots)'
      /\ \A u \in Threads, l \in Locals : Held(u, l)' = Held(u, l)
      /\ \A p \in Proxies : Wrapped(p)' = Wrapped(p)
  BY SlotsUnchanged DEF TestLeft
<1>2. pc[t] = "testLeft" /\ Flow(t) /\ Owned(t) /\ Tested(t) /\ op[t] \in Operation
  BY DEF TestLeft, IInv, TypeOK
<1>3. /\ Held(t, "user")' = Held(t, "user") /\ Held(t, "left")' = Held(t, "left")
      /\ Held(t, "right")' = Held(t, "right") /\ Held(t, "new")' = Held(t, "new")
  BY <1>1 DEF Locals
<1>4. WrappedKept
  BY <1>1 DEF WrappedKept
<1>5. CASE Missing(op[t].left)
  <2>1. \A l \in {"left", "right", "new"} : Held(t, l)' = NULL
    BY <1>2, <1>3 DEF Owned
  <2>2. QED
    BY <1>1, <1>4, <1>5, <2>1, ReturnStep DEF TestLeft
<1>6. CASE ~Missing(op[t].left)
  <2> DEFINE label == IF op[t].kind = "inplace" THEN "testRight" ELSE "takeLeft"
  <2>1. label \in Labels /\ Goto(t, label)
    BY <1>6 DEF TestLeft, Labels
  <2>2. /\ pc' \in [Threads -> Labels] /\ op' \in [Threads -> Operation]
        /\ pc'[t] = label /\ op'[t] = op[t] /\ op[t] \in Operation
        /\ \A u \in Threads \ {t} : pc'[u] = pc[u] /\ op'[u] = op[u]
    BY <2>1, GotoControl
  <2>3. ~Missing(op[t].left)'
    BY <1>1, <1>2, <1>6, <2>2, ConstantsDistinct DEF Missing, Operation
  <2>4. Flow(t)'
    BY <1>2, <2>2 DEF Flow, Operator
  <2>5. Owned(t)'
    BY <1>2, <1>3, <2>2 DEF Owned, Operator
  <2>6. Tested(t)'
    BY <1>2, <1>3, <2>2, <2>3 DEF Tested, Operator
  <2>7. QED
    BY <1>1, <1>4, <2>1, <2>4, <2>5, <2>6, GotoStep DEF TestLeft
<1>7. QED
  BY <1>5, <1>6

LEMMA TestRightPreserves ==
  ASSUME IInv, NEW t \in Threads, TestRight(t)
  PROVE  IInv'
<1>1. /\ Sound(Slots)'
      /\ \A u \in Threads, l \in Locals : Held(u, l)' = Held(u, l)
      /\ \A p \in Proxies : Wrapped(p)' = Wrapped(p)
  BY SlotsUnchanged DEF TestRight
<1>2. pc[t] = "testRight" /\ Flow(t) /\ Owned(t) /\ Tested(t) /\ op[t] \in Operation
  BY DEF TestRight, IInv, TypeOK
<1>3. /\ Held(t, "user")' = Held(t, "user") /\ Held(t, "left")' = Held(t, "left")
      /\ Held(t, "right")' = Held(t, "right") /\ Held(t, "new")' = Held(t, "new")
  BY <1>1 DEF Locals
<1>4. WrappedKept
  BY <1>1 DEF WrappedKept
<1>5. CASE Missing(op[t].right) /\ op[t].kind # "binary"
  <2>1. \A l \in {"left", "right", "new"} : Held(t, l)' = NULL
    BY <1>2, <1>3, <1>5 DEF Owned
  <2>2. QED
    BY <1>1, <1>4, <1>5, <2>1, ReturnStep DEF TestRight, RightMissing
<1>6. CASE ~Missing(op[t].right) \/ op[t].kind = "binary"
  <2> DEFINE label == IF Missing(op[t].right) THEN "abandon" ELSE "takeRight"
  <2>1. label \in Labels /\ Goto(t, label)
    BY <1>6 DEF TestRight, RightMissing, Labels
  <2>2. pc'[t] = label /\ op'[t] = op[t]
    BY <2>1, GotoControl
  <2>3. Missing(op[t].left)' = Missing(op[t].left)
    BY <1>1, <1>2, <2>2, ConstantsDistinct DEF Missing, Operation
  <2>4. Flow(t)'
    BY <1>2, <1>6, <2>2 DEF Flow, Operator
  <2>5. Owned(t)'
    BY <1>2, <1>3, <1>6, <2>2 DEF Owned, Operator
  <2>6. Tested(t)'
    BY <1>2, <1>3, <2>2, <2>3 DEF Tested, Operator
  <2>7. QED
    BY <1>1, <1>4, <2>1, <2>4, <2>5, <2>6, GotoStep DEF TestRight
<1>7. QED
  BY <1>5, <1>6

LEMMA UseOperandsPreserves ==
  ASSUME IInv, NEW t \in Threads, UseOperands(t)
  PROVE  IInv'
<1>1. /\ Sound(Slots)'
      /\ \A u \in Threads, l \in Locals : Held(u, l)' = Held(u, l)
      /\ \A p \in Proxies : Wrapped(p)' = Wrapped(p)
  BY SlotsUnchanged DEF UseOperands
<1>2. /\ pc[t] = "use" /\ op[t].kind # "inplace"
      /\ Flow(t) /\ Owned(t) /\ Tested(t) /\ op[t] \in Operation
  BY DEF UseOperands, IInv, TypeOK
<1>3. /\ Held(t, "user")' = Held(t, "user") /\ Held(t, "left")' = Held(t, "left")
      /\ Held(t, "right")' = Held(t, "right") /\ Held(t, "new")' = Held(t, "new")
  BY <1>1 DEF Locals
<1>4. WrappedKept
  BY <1>1 DEF WrappedKept
<1>5. "dropLeft" \in Labels /\ Goto(t, "dropLeft")
  BY DEF UseOperands, Labels
<1>6. pc'[t] = "dropLeft" /\ op'[t] = op[t]
  BY <1>5, GotoControl
<1>7. Flow(t)'
  BY <1>2, <1>6 DEF Flow, Operator
<1>8. Owned(t)'
  BY <1>2, <1>3, <1>6 DEF Owned, Operator, Flow
<1>9. Tested(t)'
  BY <1>2, <1>3, <1>6 DEF Tested, Operator
<1>10. QED
  BY <1>1, <1>4, <1>5, <1>7, <1>8, <1>9, GotoStep DEF UseOperands

LEMMA MarkInitCalledPreserves ==
  ASSUME IInv, NEW t \in Threads, MarkInitCalled(t)
  PROVE  IInv'
<1>1. /\ Sound(Slots)'
      /\ \A u \in Threads, l \in Locals : Held(u, l)' = Held(u, l)
      /\ \A p \in Proxies : Wrapped(p)' = Wrapped(p)
  BY SlotsUnchanged DEF MarkInitCalled
<1>2. /\ pc[t] = "mark" /\ op[t].kind = "init" /\ op[t].left \in Proxies
      /\ Owned(t) /\ ~Missing(op[t].left)
  BY DEF MarkInitCalled, IInv, TypeOK, Flow, Tested
<1>3. Held(t, "left")' = NULL /\ Held(t, "right")' = NULL /\ Held(t, "new")' = NULL
  BY <1>1, <1>2 DEF Owned, Locals
<1>4. /\ pc' \in [Threads -> Labels] /\ op' \in [Threads -> Operation]
      /\ pc'[t] = "idle" /\ op'[t] = NoOp
      /\ \A u \in Threads \ {t} : pc'[u] = pc[u] /\ op'[u] = op[u]
  BY ReturnControl DEF MarkInitCalled
<1>5. Flow(t)' /\ Owned(t)' /\ Tested(t)'
  BY <1>3, <1>4 DEF Flow, Owned, Tested, Operator, NoOp
<1>6. OthersUntouched(t) /\ WrappedKept
  BY <1>1, <1>4 DEF OthersUntouched, WrappedKept
<1>7. \A u \in Threads : Flow(u)' /\ Owned(u)' /\ Tested(u)'
  BY <1>5, <1>6, OtherFrames
<1>8. /\ initCalled' \in [Proxies -> BOOLEAN]
      /\ \A p \in Proxies \ {op[t].left} : initCalled'[p] = initCalled[p]
  BY <1>2 DEF MarkInitCalled, IInv, TypeOK
<1>9. InitLeavesWrapped'
  BY <1>1, <1>2, <1>8, ConstantsDistinct DEF InitLeavesWrapped, IInv, Missing
<1>10. TypeOK' /\ CountsExact'
  BY <1>1, <1>4, <1>8 DEF Sound, TypeOK
<1>11. QED
  BY <1>7, <1>9, <1>10 DEF IInv

(***************************************************************************)
(* The steps that take a reference.                                        *)
(***************************************************************************)

(* An operand is an object or NULL. *)
LEMMA OperandTyped ==
  ASSUME IInv, NEW t \in Threads, NEW x \in Proxies \cup {Plain}
  PROVE  Operand(t, x) \in Objects \cup {NULL}
<1>1. /\ Held(t, "user") \in Objects \cup {NULL}
      /\ \A p \in Proxies : Wrapped(p) \in Objects \cup {NULL}
  BY SlotNames DEF IInv, TypeOK, Held, Wrapped, Locals
<1>2. QED
  BY <1>1 DEF Operand

LEMMA TakeLeftPreserves ==
  ASSUME IInv, NEW t \in Threads, TakeLeft(t)
  PROVE  IInv'
<1> DEFINE o == Operand(t, op[t].left)
<1>1. pc[t] = "takeLeft" /\ Flow(t) /\ Owned(t) /\ Tested(t) /\ op[t] \in Operation
  BY DEF TakeLeft, IInv, TypeOK
<1>2. PICK v \in Objects \cup {NULL} : v = o
  BY <1>1, OperandTyped DEF Operation
<1>3. Held(t, "left") = NULL /\ Held(t, "new") = NULL
  BY <1>1 DEF Owned
<1>4. CASE op[t].kind = "get"
  <2>1. Sound(Slots)' /\ OnlyLocal(t, "user")
    <3>1. Held(t, "user") = NULL /\ "user" \in Locals
      BY <1>1, <1>4 DEF Tested, Locals
    <3>2. Acquire(<<t, "user">>, v)
      BY <1>2, <1>4 DEF TakeLeft
    <3>3. QED
      BY <3>1, <3>2, AcquireLocal
  <2>2. \A m \in {"left", "right", "new"} : Held(t, m)' = NULL
    BY <1>1, <1>4, <2>1 DEF OnlyLocal, Locals, Owned
  <2>3. /\ \A u \in Threads \ {t} : \A m \in Locals : Held(u, m)' = Held(u, m)
        /\ WrappedKept
    BY <2>1 DEF OnlyLocal, WrappedKept
  <2>4. QED
    BY <1>4, <2>1, <2>2, <2>3, ReturnStep DEF TakeLeft
<1>5. CASE op[t].kind # "get"
  <2>1. Sound(Slots)' /\ Held(t, "left")' = v /\ OnlyLocal(t, "left")
    <3>1. Acquire(<<t, "left">>, v) /\ "left" \in Locals
      BY <1>2, <1>5 DEF TakeLeft, Locals
    <3>2. QED
      BY <1>3, <3>1, AcquireLocal
  <2>2. /\ Held(t, "user")' = Held(t, "user")
        /\ Held(t, "right")' = Held(t, "right")
        /\ Held(t, "new")' = NULL
    BY <1>3, <2>1 DEF OnlyLocal, Locals
  <2>3. /\ \A u \in Threads \ {t} : \A m \in Locals : Held(u, m)' = Held(u, m)
        /\ WrappedKept
    BY <2>1 DEF OnlyLocal, WrappedKept
  <2>4. CASE op[t].kind = "binary" /\ v = NULL
    <3>1. Held(t, "right") = NULL
      BY <1>1, <2>4 DEF Owned
    <3>2. QED
      BY <1>2, <2>1, <2>2, <2>3, <2>4, <3>1, ReturnStep DEF TakeLeft
  <2>5. CASE op[t].kind # "binary" \/ v # NULL
    <3> DEFINE label == IF op[t].kind = "binary" THEN "testRight" ELSE "use"
    <3>1. label \in Labels /\ Goto(t, label)
      BY <1>2, <1>5, <2>5 DEF TakeLeft, Labels
    <3>2. pc'[t] = label /\ op'[t] = op[t]
      BY <3>1, GotoControl
    <3>3. op[t].kind # "binary" => v # NULL
      BY <1>1, <1>2, <1>5, ConstantsDistinct DEF Tested, Flow, Missing, Operand
    <3>4. Flow(t)'
      BY <1>1, <1>5, <3>2 DEF Flow, Operator
    <3>5. Owned(t)'
      BY <1>1, <2>1, <2>2, <2>5, <3>2, <3>3 DEF Owned, Operator
    <3>6. Tested(t)'
      BY <1>1, <1>5, <2>2, <3>2 DEF Tested, Operator
    <3>7. QED
      BY <2>1, <2>3, <3>1, <3>4, <3>5, <3>6, GotoStep DEF TakeLeft
  <2>6. QED
    BY <2>4, <2>5
<1>6. QED
  BY <1>4, <1>5

LEMMA TakeRightPreserves ==
  ASSUME IInv, NEW t \in Threads, TakeRight(t)
  PROVE  IInv'
<1> DEFINE o == Operand(t, op[t].right)
<1>1. pc[t] = "takeRight" /\ Flow(t) /\ Owned(t) /\ Tested(t) /\ op[t] \in Operation
  BY DEF TakeRight, IInv, TypeOK
<1>2. o \in Objects \cup {NULL} /\ "right" \in Locals
  BY <1>1, OperandTyped DEF Operation, Locals
<1>3. Held(t, "right") = NULL
  BY <1>1 DEF Owned
<1>4. Sound(Slots)' /\ Held(t, "right")' = o /\ OnlyLocal(t, "right")
  BY <1>2, <1>3, AcquireLocal DEF TakeRight
<1>5. /\ \A u \in Threads \ {t} : \A m \in Locals : Held(u, m)' = Held(u, m)
      /\ \A p \in Proxies : Wrapped(p)' = Wrapped(p)
      /\ WrappedKept
  BY <1>4 DEF OnlyLocal, WrappedKept
<1>6. /\ Held(t, "user")' = Held(t, "user")
      /\ Held(t, "left")' = Held(t, "left")
      /\ Held(t, "new")' = Held(t, "new") /\ Held(t, "new") = NULL
  BY <1>1, <1>4 DEF OnlyLocal, Locals, Owned
<1>7. CASE o = NULL /\ op[t].kind # "binary"
  <2>1. Held(t, "left") = NULL
    BY <1>1, <1>7 DEF Owned
  <2>2. QED
    BY <1>4, <1>5, <1>6, <1>7, <2>1, ReturnStep DEF TakeRight, RightMissing
<1>8. CASE o # NULL \/ op[t].kind = "binary"
  <2> DEFINE label == IF o = NULL THEN "abandon"
                      ELSE IF op[t].kind = "binary" THEN "use" ELSE "takeLeft"
  <2>1. label \in Labels /\ Goto(t, label)
    BY <1>8 DEF TakeRight, RightMissing, Labels
  <2>2. pc'[t] = label /\ op'[t] = op[t]
    BY <2>1, GotoControl
  <2>3. Missing(op[t].left)' = Missing(op[t].left)
    BY <1>1, <1>5, <2>2, ConstantsDistinct DEF Missing, Operation
  <2>4. Flow(t)'
    BY <1>1, <1>8, <2>2 DEF Flow, Operator
  <2>5. Owned(t)'
    BY <1>1, <1>4, <1>6, <1>8, <2>2 DEF Owned, Operator, Flow
  <2>6. Tested(t)'
    BY <1>1, <1>6, <2>2, <2>3 DEF Tested, Operator, Flow
  <2>7. QED
    BY <1>4, <1>5, <2>1, <2>4, <2>5, <2>6, GotoStep DEF TakeRight
<1>9. QED
  BY <1>7, <1>8

LEMMA TakeNewPreserves ==
  ASSUME IInv, NEW t \in Threads, TakeNew(t)
  PROVE  IInv'
<1>1. pc[t] = "takeNew" /\ Flow(t) /\ Owned(t) /\ Tested(t) /\ op[t] \in Operation
  BY DEF TakeNew, IInv, TypeOK
<1>2. Held(t, "user") \in Objects \cup {NULL} /\ "new" \in Locals
  BY SlotNames DEF IInv, TypeOK, Held, Locals
<1>3. Held(t, "new") = NULL /\ Held(t, "user") # NULL
  BY <1>1 DEF Owned, Tested
<1>4. Sound(Slots)' /\ Held(t, "new")' = Held(t, "user") /\ OnlyLocal(t, "new")
  BY <1>2, <1>3, AcquireLocal DEF TakeNew
<1>5. /\ \A u \in Threads \ {t} : \A m \in Locals : Held(u, m)' = Held(u, m)
      /\ WrappedKept
  BY <1>4 DEF OnlyLocal, WrappedKept
<1>6. Held(t, "left")' = Held(t, "left") /\ Held(t, "right")' = Held(t, "right")
  BY <1>4 DEF OnlyLocal, Locals
<1>7. "swap" \in Labels /\ Goto(t, "swap")
  BY DEF TakeNew, Labels
<1>8. pc'[t] = "swap" /\ op'[t] = op[t]
  BY <1>7, GotoControl
<1>9. Flow(t)'
  BY <1>1, <1>8 DEF Flow, Operator
<1>10. Owned(t)'
  BY <1>1, <1>3, <1>4, <1>6, <1>8 DEF Owned, Operator
<1>11. Tested(t)'
  BY <1>1, <1>4, <1>8 DEF Tested, Operator, Flow, OnlyLocal, Locals
<1>12. QED
  BY <1>4, <1>5, <1>7, <1>9, <1>10, <1>11, GotoStep DEF TakeNew

LEMMA InplaceResultPreserves ==
  ASSUME IInv, NEW t \in Threads, InplaceResult(t)
  PROVE  IInv'
<1>1. /\ pc[t] = "use" /\ op[t].kind = "inplace"
      /\ Flow(t) /\ Owned(t) /\ Tested(t) /\ op[t] \in Operation
  BY DEF InplaceResult, IInv, TypeOK
<1>2. PICK outcome \in Outcomes :
        /\ op' = [op EXCEPT ![t].outcome = outcome]
        /\ outcome = "none" => UNCHANGED <<slot, refs>>
        /\ outcome # "none" => \E o \in Objects : Acquire(<<t, "new">>, o)
  BY DEF InplaceResult
<1>3. /\ pc' \in [Threads -> Labels] /\ op' \in [Threads -> Operation]
      /\ pc'[t] = "dropLeft"
      /\ op'[t] = [op[t] EXCEPT !.outcome = outcome]
      /\ \A u \in Threads \ {t} : pc'[u] = pc[u] /\ op'[u] = op[u]
  BY <1>1, <1>2 DEF InplaceResult, IInv, TypeOK, Operation, Labels
<1>4. /\ op'[t].kind = "inplace" /\ op'[t].outcome = outcome
      /\ op'[t].left = op[t].left /\ op'[t].right = op[t].right
  BY <1>1, <1>3 DEF Operation
<1>5. Held(t, "new") = NULL
  BY <1>1 DEF Owned, Flow
<1>6. /\ Sound(Slots)' /\ OnlyLocal(t, "new")
      /\ outcome # "none" <=> Held(t, "new")' # NULL
  <2>1. CASE outcome = "none"
    BY <1>2, <1>5, <2>1, SlotsUnchanged DEF OnlyLocal, Locals
  <2>2. CASE outcome # "none"
    <3>1. PICK o \in Objects : Acquire(<<t, "new">>, o)
      BY <1>2, <2>2
    <3>2. Sound(Slots)' /\ Held(t, "new")' = o /\ OnlyLocal(t, "new")
      BY <1>5, <3>1, AcquireLocal DEF Locals
    <3>3. QED
      BY <2>2, <3>1, <3>2, ConstantsDistinct
  <2>3. QED
    BY <2>1, <2>2
<1>7. /\ Held(t, "user")' = Held(t, "user")
      /\ Held(t, "left")' = Held(t, "left")
      /\ Held(t, "right")' = Held(t, "right")
      /\ OthersUntouched(t) /\ WrappedKept
  BY <1>3, <1>6 DEF OnlyLocal, Locals, OthersUntouched, WrappedKept
<1>8. Flow(t)'
  BY <1>1, <1>3, <1>4 DEF Flow, Operator
<1>9. Owned(t)'
  BY <1>1, <1>3, <1>4, <1>6, <1>7 DEF Owned, Operator
<1>10. Tested(t)'
  BY <1>1, <1>3, <1>4, <1>7 DEF Tested, Operator
<1>11. QED
  BY <1>3, <1>6, <1>7, <1>8, <1>9, <1>10, ThreadStep DEF InplaceResult

(***************************************************************************)
(* The steps that release a reference, and the swap.                       *)
(***************************************************************************)
LEMMA DropLeftPreserves ==
  ASSUME IInv, NEW t \in Threads, DropLeft(t)
  PROVE  IInv'
<1>1. pc[t] = "dropLeft" /\ Flow(t) /\ Owned(t) /\ Tested(t) /\ op[t] \in Operation
  BY DEF DropLeft, IInv, TypeOK
<1>2. Sound(Slots)' /\ Held(t, "left")' = NULL /\ OnlyLocal(t, "left")
  BY ReleaseLocal DEF DropLeft, Locals
<1>3. /\ \A u \in Threads \ {t} : \A m \in Locals : Held(u, m)' = Held(u, m)
      /\ WrappedKept
  BY <1>2 DEF OnlyLocal, WrappedKept
<1>4. /\ Held(t, "user")' = Held(t, "user") /\ Held(t, "right")' = Held(t, "right")
      /\ Held(t, "new")' = Held(t, "new")
  BY <1>2 DEF OnlyLocal, Locals
<1>5. CASE Operator(t)
  <2>1. "dropRight" \in Labels /\ Goto(t, "dropRight")
    BY <1>5 DEF DropLeft, Operator, Labels
  <2>2. pc'[t] = "dropRight" /\ op'[t] = op[t]
    BY <2>1, GotoControl
  <2>3. Flow(t)'
    BY <1>1, <1>5, <2>2 DEF Flow, Operator
  <2>4. Owned(t)'
    BY <1>1, <1>2, <1>4, <1>5, <2>2 DEF Owned, Operator
  <2>5. Tested(t)'
    BY <1>1, <1>4, <2>2 DEF Tested, Operator
  <2>6. QED
    BY <1>2, <1>3, <2>1, <2>3, <2>4, <2>5, GotoStep DEF DropLeft
<1>6. CASE ~Operator(t)
  <2>1. Held(t, "right") = NULL /\ Held(t, "new") = NULL
    BY <1>1, <1>6 DEF Owned, Flow, Operator
  <2>2. \A l \in {"left", "right", "new"} : Held(t, l)' = NULL
    BY <1>2, <1>4, <2>1
  <2>3. QED
    BY <1>2, <1>3, <1>6, <2>2, ReturnStep DEF DropLeft, Operator
<1>7. QED
  BY <1>5, <1>6

LEMMA DropRightPreserves ==
  ASSUME IInv, NEW t \in Threads, DropRight(t)
  PROVE  IInv'
<1>1. pc[t] = "dropRight" /\ Flow(t) /\ Owned(t) /\ Tested(t) /\ op[t] \in Operation
  BY DEF DropRight, IInv, TypeOK
<1>2. Sound(Slots)' /\ Held(t, "right")' = NULL /\ OnlyLocal(t, "right")
  BY ReleaseLocal DEF DropRight, Locals
<1>3. /\ \A u \in Threads \ {t} : \A m \in Locals : Held(u, m)' = Held(u, m)
      /\ WrappedKept
  BY <1>2 DEF OnlyLocal, WrappedKept
<1>4. /\ Held(t, "user")' = Held(t, "user")
      /\ Held(t, "left")' = Held(t, "left") /\ Held(t, "left") = NULL
      /\ Held(t, "new")' = Held(t, "new")
  BY <1>1, <1>2 DEF OnlyLocal, Locals, Owned
<1>5. CASE op[t].outcome = "none"
  <2>1. Held(t, "new") = NULL
    BY <1>1, <1>5 DEF Owned
  <2>2. \A l \in {"left", "right", "new"} : Held(t, l)' = NULL
    BY <1>2, <1>4, <2>1
  <2>3. QED
    BY <1>2, <1>3, <1>5, <2>2, ReturnStep DEF DropRight
<1>6. CASE op[t].outcome # "none"
  <2> DEFINE label == IF op[t].outcome = "replace" THEN "swap" ELSE "dropOld"
  <2>1. label \in Labels /\ Goto(t, label)
    BY <1>1, <1>6 DEF DropRight, Labels, Operation, Outcomes
  <2>2. pc'[t] = label /\ op'[t] = op[t]
    BY <2>1, GotoControl
  <2>3. Flow(t)'
    BY <1>1, <1>6, <2>2 DEF Flow, Operator
  <2>4. Owned(t)'
    BY <1>1, <1>2, <1>4, <1>6, <2>2 DEF Owned, Operator
  <2>5. Tested(t)'
    BY <1>1, <1>4, <1>6, <2>2 DEF Tested, Operator, Flow
  <2>6. QED
    BY <1>2, <1>3, <2>1, <2>3, <2>4, <2>5, GotoStep DEF DropRight
<1>7. QED
  BY <1>5, <1>6

LEMMA AbandonLeftPreserves ==
  ASSUME IInv, NEW t \in Threads, AbandonLeft(t)
  PROVE  IInv'
<1>1. pc[t] = "abandon" /\ Flow(t) /\ Owned(t)
  BY DEF AbandonLeft, IInv
<1>2. Sound(Slots)' /\ Held(t, "left")' = NULL /\ OnlyLocal(t, "left")
  BY ReleaseLocal DEF AbandonLeft, Locals
<1>3. /\ \A u \in Threads \ {t} : \A m \in Locals : Held(u, m)' = Held(u, m)
      /\ WrappedKept
  BY <1>2 DEF OnlyLocal, WrappedKept
<1>4. Held(t, "right")' = NULL /\ Held(t, "new")' = NULL
  BY <1>1, <1>2 DEF OnlyLocal, Locals, Owned
<1>5. \A l \in {"left", "right", "new"} : Held(t, l)' = NULL
  BY <1>2, <1>4
<1>6. QED
  BY <1>2, <1>3, <1>5, ReturnStep DEF AbandonLeft

LEMMA SwapPreserves ==
  ASSUME IInv, NEW t \in Threads, Swap(t)
  PROVE  IInv'
<1>1. /\ pc[t] = "swap" /\ Flow(t) /\ Owned(t) /\ Tested(t) /\ op[t] \in Operation
  BY DEF Swap, IInv, TypeOK
<1>2. op[t].left \in Proxies /\ Held(t, "new") # NULL
  BY <1>1 DEF Flow, Owned
<1>3. PICK p \in Proxies : p = op[t].left
  BY <1>2
<1> DEFINE f == <<p, "wrapped">>
           n == <<t, "new">>
<1>4. f \in Slots /\ n \in Slots /\ f # n /\ Exchange(f, n)
  BY <1>3, SlotNames DEF Swap, Locals
<1>5. Sound(Slots)'
  BY <1>4, InvariantSound, ExchangeSound
<1>6. slot \in [Slots -> Objects \cup {NULL}]
      /\ slot' = [slot EXCEPT ![f] = slot[n], ![n] = slot[f]]
  BY <1>4 DEF Exchange, IInv, TypeOK
<1>7. slot'[f] = slot[n] /\ \A x \in Slots \ {f, n} : slot'[x] = slot[x]
  BY <1>4, <1>6
<1>8. /\ \A u \in Threads \ {t} : \A m \in Locals : Held(u, m)' = Held(u, m)
      /\ Held(t, "user")' = Held(t, "user") /\ Held(t, "left")' = Held(t, "left")
      /\ Held(t, "right")' = Held(t, "right")
  BY <1>7, SlotNames DEF Held, Locals
<1>9. WrappedKept /\ Wrapped(p)' # NULL
  BY <1>2, <1>7, SlotNames DEF WrappedKept, Wrapped, Held
<1>10. "dropOld" \in Labels /\ Goto(t, "dropOld")
  BY DEF Swap, Labels
<1>11. pc'[t] = "dropOld" /\ op'[t] = op[t]
  BY <1>10, GotoControl
<1>12. Flow(t)'
  BY <1>1, <1>11 DEF Flow, Operator
<1>13. Owned(t)'
  BY <1>1, <1>8, <1>11 DEF Owned, Operator
<1>14. ~Missing(op[t].left)'
  BY <1>3, <1>9, <1>11 DEF Missing
<1>15. Tested(t)'
  BY <1>1, <1>8, <1>11, <1>14 DEF Tested, Operator, Flow
<1>16. QED
  BY <1>5, <1>8, <1>9, <1>10, <1>12, <1>13, <1>15, GotoStep DEF Swap

LEMMA DropOldPreserves ==
  ASSUME IInv, NEW t \in Threads, DropOld(t)
  PROVE  IInv'
<1>1. pc[t] = "dropOld" /\ Flow(t) /\ Owned(t) /\ Tested(t) /\ op[t] \in Operation
  BY DEF DropOld, IInv, TypeOK
<1>2. Sound(Slots)' /\ Held(t, "new")' = NULL /\ OnlyLocal(t, "new")
  BY ReleaseLocal DEF DropOld, Locals
<1>3. /\ \A u \in Threads \ {t} : \A m \in Locals : Held(u, m)' = Held(u, m)
      /\ \A p \in Proxies : Wrapped(p)' = Wrapped(p)
      /\ WrappedKept
  BY <1>2 DEF OnlyLocal, WrappedKept
<1>4. Held(t, "left")' = NULL /\ Held(t, "right")' = NULL /\ Held(t, "user")' = Held(t, "user")
  BY <1>1, <1>2 DEF OnlyLocal, Locals, Owned
<1>5. CASE op[t].kind = "inplace"
  <2>1. \A l \in {"left", "right", "new"} : Held(t, l)' = NULL
    BY <1>2, <1>4
  <2>2. QED
    BY <1>2, <1>3, <1>5, <2>1, ReturnStep DEF DropOld
<1>6. CASE op[t].kind # "inplace"
  <2> DEFINE label == IF op[t].kind = "set" THEN "testLeft" ELSE "mark"
  <2>1. label \in Labels /\ Goto(t, label)
    BY <1>1, <1>6 DEF DropOld, Labels, Flow
  <2>2. pc'[t] = label /\ op'[t] = op[t]
    BY <2>1, GotoControl
  <2>3. Missing(op[t].left)' = Missing(op[t].left)
    BY <1>1, <1>3, <2>2, ConstantsDistinct DEF Missing, Operation
  <2>4. Flow(t)'
    BY <1>1, <1>6, <2>2 DEF Flow, Operator
  <2>5. Owned(t)'
    BY <1>1, <1>2, <1>4, <1>6, <2>2 DEF Owned, Operator
  <2>6. Tested(t)'
    BY <1>1, <1>4, <1>6, <2>2, <2>3 DEF Tested, Operator, Flow
  <2>7. QED
    BY <1>2, <1>3, <2>1, <2>4, <2>5, <2>6, GotoStep DEF DropOld
<1>7. QED
  BY <1>5, <1>6

(***************************************************************************)
(* The Python code around the proxy.                                       *)
(***************************************************************************)
LEMMA IdlePreserves ==
  ASSUME IInv, NEW t \in Threads, pc[t] = "idle", UNCHANGED <<pc, op, initCalled>>,
         Sound(Slots)', OnlyLocal(t, "user")
  PROVE  IInv'
<1>1. Flow(t) /\ Owned(t) /\ Tested(t)
  BY DEF IInv
<1>2. /\ Held(t, "left")' = Held(t, "left") /\ Held(t, "right")' = Held(t, "right")
      /\ Held(t, "new")' = Held(t, "new")
  BY DEF OnlyLocal, Locals
<1>3. Flow(t)' /\ Owned(t)' /\ Tested(t)'
  BY <1>1, <1>2 DEF Flow, Owned, Tested, Operator
<1>4. OthersUntouched(t) /\ WrappedKept
  BY DEF OnlyLocal, OthersUntouched, WrappedKept
<1>5. pc' \in [Threads -> Labels] /\ op' \in [Threads -> Operation]
  BY DEF IInv, TypeOK
<1>6. QED
  BY <1>3, <1>4, <1>5, ThreadStep

LEMMA CallerPreserves ==
  ASSUME IInv, NEW t \in Threads, Caller(t)
  PROVE  IInv'
<1>1. CASE CreateObject(t)
  <2>1. PICK o \in Objects : Acquire(<<t, "user">>, o)
    BY <1>1 DEF CreateObject
  <2>2. Sound(Slots)' /\ OnlyLocal(t, "user")
    BY <1>1, <2>1, AcquireLocal DEF CreateObject, Locals
  <2>3. QED
    BY <1>1, <2>2, IdlePreserves DEF CreateObject
<1>2. CASE ForgetObject(t)
  <2>1. Sound(Slots)' /\ OnlyLocal(t, "user")
    BY <1>2, ReleaseLocal DEF ForgetObject, Locals
  <2>2. QED
    BY <1>2, <2>1, IdlePreserves DEF ForgetObject
<1>3. CASE CallDelegate(t)
  BY <1>3, BeginPreserves DEF CallDelegate, Kinds
<1>4. CASE CallGet(t)
  BY <1>4, BeginPreserves DEF CallGet, Kinds
<1>5. CASE CallSet(t)
  BY <1>5, BeginPreserves DEF CallSet, Kinds
<1>6. CASE CallInit(t)
  BY <1>6, BeginPreserves DEF CallInit, Kinds
<1>7. CASE CallBinary(t)
  BY <1>7, BeginPreserves DEF CallBinary, Kinds
<1>8. CASE CallInplace(t)
  BY <1>8, ConstantsDistinct, BeginPreserves DEF CallInplace, Kinds
<1>9. QED
  BY <1>1, <1>2, <1>3, <1>4, <1>5, <1>6, <1>7, <1>8 DEF Caller

LEMMA FunctionPreserves ==
  ASSUME IInv, NEW t \in Threads, Function(t)
  PROVE  IInv'
BY TestLeftPreserves, TakeLeftPreserves, TestRightPreserves, TakeRightPreserves,
   UseOperandsPreserves, InplaceResultPreserves, DropLeftPreserves,
   DropRightPreserves, AbandonLeftPreserves, TakeNewPreserves, SwapPreserves,
   DropOldPreserves, MarkInitCalledPreserves DEF Function

(* Deallocation empties a proxy no running call is about to use. *)
LEMMA DeallocPreserves ==
  ASSUME IInv, NEW p \in Proxies, Dealloc(p)
  PROVE  IInv'
<1> DEFINE f == <<p, "wrapped">>
<1>1. f \in Slots /\ Release(f)
  BY SlotNames DEF Dealloc
<1>2. Sound(Slots)'
  BY <1>1, InvariantSound, ReleaseSound
<1>3. slot \in [Slots -> Objects \cup {NULL}] /\ slot' = [slot EXCEPT ![f] = NULL]
  BY <1>1 DEF Release, IInv, TypeOK
<1>4. \A x \in Slots \ {f} : slot'[x] = slot[x]
  BY <1>1, <1>3
<1>5. /\ \A u \in Threads, l \in Locals : Held(u, l)' = Held(u, l)
      /\ \A q \in Proxies \ {p} : Wrapped(q)' = Wrapped(q)
  BY <1>4, SlotNames DEF Held, Wrapped
<1>6. ASSUME NEW t \in Threads PROVE Flow(t)' /\ Owned(t)' /\ Tested(t)'
  <2>1. Flow(t) /\ Owned(t) /\ Tested(t) /\ op[t] \in Operation
    BY DEF IInv, TypeOK
  <2>2. pc'[t] = pc[t] /\ op'[t] = op[t]
    BY DEF Dealloc
  <2>3. /\ Held(t, "user")' = Held(t, "user") /\ Held(t, "left")' = Held(t, "left")
        /\ Held(t, "right")' = Held(t, "right") /\ Held(t, "new")' = Held(t, "new")
    BY <1>5 DEF Locals
  <2>4. pc[t] # "idle" => Missing(op[t].left)' = Missing(op[t].left)
    BY <1>5, <2>1, <2>2, ConstantsDistinct DEF Dealloc, Busy, Missing, Operation
  <2>5. Flow(t)'
    BY <2>1, <2>2 DEF Flow, Operator
  <2>6. Owned(t)'
    BY <2>1, <2>2, <2>3 DEF Owned, Operator
  <2>7. Tested(t)'
    BY <2>1, <2>2, <2>3, <2>4 DEF Tested, Operator
  <2>8. QED
    BY <2>5, <2>6, <2>7
<1>7. InitLeavesWrapped'
  BY <1>5 DEF Dealloc, InitLeavesWrapped, IInv, TypeOK
<1>8. TypeOK' /\ CountsExact'
  BY <1>2 DEF Sound, TypeOK, Dealloc, IInv
<1>9. QED
  BY <1>6, <1>7, <1>8 DEF IInv

(***************************************************************************)
(* The theorems.                                                           *)
(***************************************************************************)

(* IInv is inductive. *)
LEMMA NextPreserves == IInv /\ [Next]_vars => IInv'
<1> SUFFICES ASSUME IInv, [Next]_vars PROVE IInv'
  OBVIOUS
<1>1. CASE Next
  BY <1>1, CallerPreserves, FunctionPreserves, DeallocPreserves DEF Next
<1>2. CASE UNCHANGED vars
  <2>1. /\ Sound(Slots)'
        /\ \A u \in Threads, l \in Locals : Held(u, l)' = Held(u, l)
        /\ \A p \in Proxies : Wrapped(p)' = Wrapped(p)
    BY <1>2, SlotsUnchanged DEF vars
  <2>2. CASE Threads = {}
    BY <1>2, <2>1, <2>2 DEF vars, IInv, TypeOK, Sound, InitLeavesWrapped
  <2>3. CASE Threads # {}
    <3>1. ASSUME NEW t \in Threads PROVE Flow(t)' /\ Owned(t)' /\ Tested(t)'
      <4>1. Flow(t) /\ Owned(t) /\ Tested(t)
        BY DEF IInv
      <4>2. slot' = slot /\ pc' = pc /\ op' = op
        BY <1>2 DEF vars
      <4>3. QED
        BY <4>1, <4>2 DEF Flow, Owned, Tested, Operator, Held, Missing, Wrapped
    <3>2. QED
      BY <1>2, <2>1, <3>1 DEF vars, IInv, TypeOK, Sound, InitLeavesWrapped
  <2>4. QED
    BY <2>2, <2>3
<1>3. QED
  BY <1>1, <1>2

THEOREM Invariance == Spec => []IInv
BY InitEstablishes, NextPreserves, PTL DEF Spec

(* The variables keep their types: no count is ever negative. *)
THEOREM TypeCorrectness == Spec => []TypeOK
<1>1. IInv => TypeOK
  BY DEF IInv
<1>2. QED
  BY <1>1, Invariance, PTL

(* Whatever the number of threads and proxies, every reference count is the
   number of references that are owned. *)
THEOREM CountsCorrect == Spec => []ReferencesExact
<1>1. IInv => ReferencesExact
  BY DEF IInv, ReferencesExact
<1>2. QED
  BY <1>1, Invariance, PTL

(* No proxy and no running C function ever refers to a freed object. *)
THEOREM MemorySafety == Spec => []NeverDangling
<1>1. IInv => NeverDangling
  <2>1. ASSUME IInv, NEW s \in Slots, slot[s] # NULL
        PROVE  ~Unallocated(slot[s])
    BY <2>1, InvariantSound, HeldIsAllocated DEF Unallocated
  <2>2. QED
    BY <2>1 DEF NeverDangling
<1>2. QED
  BY <1>1, Invariance, PTL

(* Every return, on an error path too, has released all it took. *)
THEOREM NoLeak == Spec => []NothingLeaked
<1>1. IInv => NothingLeaked
  BY DEF IInv, Owned, Flow, NothingLeaked
<1>2. QED
  BY <1>1, Invariance, PTL

(* The loads that are not tested for NULL never yield NULL. *)
THEOREM NoNullUse == Spec => []NullNeverUsed
<1>1. IInv => NullNeverUsed
  BY DEF IInv, Owned, Operator, NullNeverUsed
<1>2. QED
  BY <1>1, Invariance, PTL

(* A proxy whose __init__ has run wraps something. *)
THEOREM InitComplete == Spec => []InitLeavesWrapped
<1>1. IInv => InitLeavesWrapped
  BY DEF IInv
<1>2. QED
  BY <1>1, Invariance, PTL
(***************************************************************************)
(* What each step leaves alone: no step but Swap and Dealloc touches the   *)
(* field of a proxy, and no step of a C function but the load of           *)
(* __wrapped__ touches what the caller holds.                              *)
(***************************************************************************)
FieldsKept == \A p \in Proxies : Wrapped(p)' = Wrapped(p)

HandsKept == \A u \in Threads : Held(u, "user")' = Held(u, "user")

OthersWait(t) == \A u \in Threads \ {t} : pc'[u] = pc[u] /\ op'[u] = op[u]

LEMMA LocalWrite ==
  ASSUME IInv, NEW t \in Threads, NEW l \in Locals, NEW x,
         slot' = [slot EXCEPT ![<<t, l>>] = x]
  PROVE  OnlyLocal(t, l) /\ Held(t, l)' = x
<1> DEFINE s == <<t, l>>
<1>1. s \in Slots /\ slot \in [Slots -> Objects \cup {NULL}]
  BY SlotNames DEF IInv, TypeOK
<1>2. slot'[s] = x /\ \A y \in Slots \ {s} : slot'[y] = slot[y]
  BY <1>1
<1>3. QED
  BY <1>2, SlotNames DEF OnlyLocal, Held, Wrapped

LEMMA LocalKeeps ==
  ASSUME IInv, NEW t \in Threads, NEW l \in Locals, l # "user", OnlyLocal(t, l)
  PROVE  FieldsKept /\ HandsKept
<1>1. ASSUME NEW u \in Threads PROVE Held(u, "user")' = Held(u, "user")
  BY DEF OnlyLocal, Locals
<1>2. QED
  BY <1>1 DEF FieldsKept, HandsKept, OnlyLocal

LEMMA NoWriteKeeps ==
  ASSUME UNCHANGED slot
  PROVE  FieldsKept /\ HandsKept
BY DEF FieldsKept, HandsKept, Held, Wrapped

(* The steps of a C function between its call and its effect or return. *)
Internal(t) ==
  \/ TestLeft(t) \/ TestRight(t) \/ TakeRight(t) \/ UseOperands(t)
  \/ InplaceResult(t) \/ DropLeft(t) \/ DropRight(t) \/ AbandonLeft(t)
  \/ TakeNew(t) \/ DropOld(t) \/ MarkInitCalled(t)
  \/ TakeLeft(t) /\ op[t].kind # "get"

LEMMA InternalKeeps ==
  ASSUME IInv, NEW t \in Threads, Internal(t)
  PROVE  FieldsKept /\ HandsKept
<1>1. CASE TestLeft(t) \/ TestRight(t) \/ UseOperands(t) \/ MarkInitCalled(t)
  BY <1>1, NoWriteKeeps DEF TestLeft, TestRight, UseOperands, MarkInitCalled
<1>2. CASE TakeLeft(t) /\ op[t].kind # "get"
  BY <1>2, LocalWrite, LocalKeeps DEF TakeLeft, Acquire, Locals
<1>3. CASE TakeRight(t)
  BY <1>3, LocalWrite, LocalKeeps DEF TakeRight, Acquire, Locals
<1>4. CASE TakeNew(t)
  BY <1>4, LocalWrite, LocalKeeps DEF TakeNew, Acquire, Locals
<1>5. CASE InplaceResult(t)
  <2>1. CASE UNCHANGED slot
    BY <2>1, NoWriteKeeps
  <2>2. CASE \E o \in Objects : Acquire(<<t, "new">>, o)
    BY <2>2, LocalWrite, LocalKeeps DEF Acquire, Locals
  <2>3. QED
    BY <1>5, <2>1, <2>2 DEF InplaceResult
<1>6. CASE DropLeft(t)
  BY <1>6, LocalWrite, LocalKeeps DEF DropLeft, Release, Locals
<1>7. CASE DropRight(t)
  BY <1>7, LocalWrite, LocalKeeps DEF DropRight, Release, Locals
<1>8. CASE AbandonLeft(t)
  BY <1>8, LocalWrite, LocalKeeps DEF AbandonLeft, Release, Locals
<1>9. CASE DropOld(t)
  BY <1>9, LocalWrite, LocalKeeps DEF DropOld, Release, Locals
<1>10. QED
  BY <1>1, <1>2, <1>3, <1>4, <1>5, <1>6, <1>7, <1>8, <1>9 DEF Internal

(* __wrapped__ gives the caller the object the field holds, and Swap gives the
   field the new object; neither touches anything else. *)
LEMMA GetEffect ==
  ASSUME IInv, NEW t \in Threads, TakeLeft(t), op[t].kind = "get"
  PROVE  /\ Held(t, "user")' = Wrapped(op[t].left) /\ FieldsKept
         /\ \A u \in Threads \ {t} : Held(u, "user")' = Held(u, "user")
<1>1. op[t].left # Plain
  BY ConstantsDistinct DEF TakeLeft, IInv, Flow
<1>2. slot' = [slot EXCEPT ![<<t, "user">>] = Wrapped(op[t].left)]
  BY <1>1 DEF TakeLeft, Acquire, Operand
<1>3. OnlyLocal(t, "user") /\ Held(t, "user")' = Wrapped(op[t].left)
  BY <1>2, LocalWrite DEF Locals
<1>4. QED
  BY <1>3 DEF OnlyLocal, FieldsKept, Locals

LEMMA SwapEffect ==
  ASSUME IInv, NEW t \in Threads, Swap(t), NEW p \in Proxies, p = op[t].left
  PROVE  /\ Wrapped(p)' = Held(t, "new") /\ Held(t, "new") \in Objects
         /\ \A q \in Proxies \ {p} : Wrapped(q)' = Wrapped(q)
         /\ HandsKept
<1> DEFINE f == <<p, "wrapped">>
           n == <<t, "new">>
<1>1. f \in Slots /\ n \in Slots /\ f # n
  BY SlotNames DEF Locals
<1>2. /\ slot \in [Slots -> Objects \cup {NULL}]
      /\ slot' = [slot EXCEPT ![f] = slot[n], ![n] = slot[f]]
  BY DEF Swap, Exchange, IInv, TypeOK
<1>3. slot'[f] = slot[n] /\ \A x \in Slots \ {f, n} : slot'[x] = slot[x]
  BY <1>1, <1>2
<1>4. HandsKept
  BY <1>3, SlotNames DEF HandsKept, Held, Locals
<1>5. Wrapped(p)' = Held(t, "new") /\ \A q \in Proxies \ {p} : Wrapped(q)' = Wrapped(q)
  BY <1>3, SlotNames DEF Held, Wrapped, Locals
<1>6. Held(t, "new") # NULL
  BY DEF Swap, IInv, Owned
<1>7. Held(t, "new") \in Objects
  BY <1>1, <1>2, <1>6 DEF Held
<1>8. QED
  BY <1>5, <1>4, <1>7

LEMMA DeallocEffect ==
  ASSUME IInv, NEW p \in Proxies, Dealloc(p)
  PROVE  /\ Wrapped(p)' = NULL /\ HandsKept
         /\ \A q \in Proxies \ {p} : Wrapped(q)' = Wrapped(q)
<1> DEFINE f == <<p, "wrapped">>
<1>1. f \in Slots /\ slot \in [Slots -> Objects \cup {NULL}]
  BY SlotNames DEF IInv, TypeOK
<1>2. slot' = [slot EXCEPT ![f] = NULL]
  BY DEF Dealloc, Release
<1>3. slot'[f] = NULL /\ \A x \in Slots \ {f} : slot'[x] = slot[x]
  BY <1>1, <1>2
<1>4. QED
  BY <1>3, SlotNames DEF HandsKept, Held, Wrapped, Locals

(* Only deallocation empties a proxy, and it waits for the calls on it. *)
LEMMA StepKeepsWrapped ==
  ASSUME IInv, Next, NEW p \in Proxies, Wrapped(p) # NULL, Busy(p)
  PROVE  Wrapped(p)' # NULL
<1>1. CASE \E q \in Proxies : Dealloc(q)
  BY <1>1, DeallocEffect DEF Dealloc
<1>2. ASSUME NEW t \in Threads, Function(t) PROVE Wrapped(p)' # NULL
  <2>1. CASE Internal(t)
    BY <2>1, InternalKeeps DEF FieldsKept
  <2>2. CASE TakeLeft(t) /\ op[t].kind = "get"
    BY <2>2, GetEffect DEF FieldsKept
  <2>3. CASE Swap(t)
    <3>1. PICK q \in Proxies : q = op[t].left
      BY <2>3 DEF Swap, IInv, Flow
    <3>2. QED
      BY <2>3, <3>1, SwapEffect, ConstantsDistinct
  <2>4. QED
    BY <1>2, <2>1, <2>2, <2>3 DEF Function, Internal
<1>3. ASSUME NEW t \in Threads, Caller(t) PROVE Wrapped(p)' # NULL
  <2>1. CASE CreateObject(t)
    BY <2>1, LocalWrite DEF CreateObject, Acquire, Locals, OnlyLocal
  <2>2. CASE ForgetObject(t)
    BY <2>2, LocalWrite DEF ForgetObject, Release, Locals, OnlyLocal
  <2>3. CASE UNCHANGED slot
    BY <2>3 DEF Wrapped
  <2>4. QED
    BY <1>3, <2>1, <2>2, <2>3 DEF Caller, CallDelegate, CallGet, CallSet, CallInit,
       CallBinary, CallInplace, Begin
<1>4. QED
  BY <1>1, <1>2, <1>3 DEF Next

(* No operation on a proxy, failing or not, leaves it empty. *)
THEOREM NeverEmptied == Spec => StaysWrapped
<1>1. IInv /\ [Next]_vars => [\A p \in Proxies : Wrapped(p) # NULL /\ Busy(p)
                                => Wrapped(p)' # NULL]_vars
  BY StepKeepsWrapped
<1>2. QED
  BY <1>1, Invariance, PTL DEF Spec, StaysWrapped

(***************************************************************************)
(* The refinement: seen through Fields, Hands, Calls and Stages, a step of *)
(* thread t is one step of the register or none.                           *)
(***************************************************************************)

(* The call a thread is seen to make is one the register knows. *)
LEMMA CallTyped ==
  ASSUME NEW o \in Operation
  PROVE  [kind |-> AbstractKind[o.kind], target |-> o.left, other |-> o.right]
           \in Atomic!Call
<1>1. AbstractKind[o.kind] \in {"use", "get", "set", "inplace"}
  BY DEF Operation, Kinds, AbstractKind
<1>2. o.left \in Proxies \cup {Plain} /\ o.right \in Proxies \cup {Plain}
  BY DEF Operation
<1>3. QED
  BY <1>1, <1>2 DEF Atomic!Call

(* A step after which only thread t may run another operation. *)
LEMMA CallReplaced ==
  ASSUME NEW t \in Threads, op' \in [Threads -> Operation], OthersWait(t)
  PROVE  Atomic!NewCall(t)
<1>1. PICK c \in Atomic!Call : c = AbstractCall(t)'
  BY CallTyped DEF AbstractCall
<1>2. \A u \in Threads \ {t} : AbstractCall(u)' = AbstractCall(u)
  BY DEF OthersWait, AbstractCall
<1>3. Calls' = [Calls EXCEPT ![t] = c]
  BY <1>1, <1>2 DEF Calls
<1>4. Calls'[t] = c
  BY <1>1 DEF Calls
<1>5. QED
  BY <1>1, <1>3, <1>4 DEF Atomic!NewCall

LEMMA StageReplaced ==
  ASSUME NEW t \in Threads, OthersWait(t)
  PROVE  Stages' = [Stages EXCEPT ![t] = AbstractStage(t)']
<1>1. \A u \in Threads \ {t} : AbstractStage(u)' = AbstractStage(u)
  BY DEF OthersWait, AbstractStage, Effective
<1>2. QED
  BY <1>1 DEF Stages

(* A step that leaves fields and hands alone, and thread t in the same stage of
   the same call, is not seen. *)
LEMMA Stutter ==
  ASSUME NEW t \in Threads, OthersWait(t), FieldsKept, HandsKept,
         AbstractCall(t)' = AbstractCall(t), AbstractStage(t)' = AbstractStage(t)
  PROVE  UNCHANGED Atomic!registerVars
<1>1. Fields' = Fields /\ Hands' = Hands
  BY DEF Fields, Hands, FieldsKept, HandsKept
<1>2. \A u \in Threads : /\ AbstractCall(u)' = AbstractCall(u)
                         /\ AbstractStage(u)' = AbstractStage(u)
  BY DEF OthersWait, AbstractCall, AbstractStage, Effective
<1>3. Calls' = Calls /\ Stages' = Stages
  BY <1>2 DEF Calls, Stages
<1>4. QED
  BY <1>1, <1>3 DEF Atomic!registerVars

(* A return is seen as the response, when the register may give one. *)
LEMMA Response ==
  ASSUME IInv, NEW t \in Threads, Return(t), FieldsKept, HandsKept,
         Atomic!MayRespond(t)
  PROVE  Atomic!Respond(t)
<1>1. op' \in [Threads -> Operation] /\ pc'[t] = "idle" /\ OthersWait(t)
  BY ReturnControl DEF OthersWait
<1>2. Fields' = Fields /\ Hands' = Hands
  BY DEF Fields, Hands, FieldsKept, HandsKept
<1>3. Stages' = [Stages EXCEPT ![t] = "idle"]
  BY <1>1, StageReplaced DEF AbstractStage
<1>4. QED
  BY <1>1, <1>2, <1>3, CallReplaced DEF Atomic!Respond

(* Going on is not seen, unless it is past the effect of the operation. *)
LEMMA GoingOn ==
  ASSUME IInv, NEW t \in Threads, NEW label \in Labels, Goto(t, label),
         FieldsKept, HandsKept, AbstractStage(t)' = AbstractStage(t)
  PROVE  UNCHANGED Atomic!registerVars
<1>1. op'[t] = op[t] /\ OthersWait(t)
  BY GotoControl DEF OthersWait
<1>2. QED
  BY <1>1, Stutter DEF AbstractCall

(* Which operations may return where: an assignment once it is effective, a
   read of a proxy that wraps nothing, anything else at any time. *)
LEMMA MayReturn ==
  ASSUME IInv, NEW t \in Threads, pc[t] # "idle",
         \/ Effective(t)
         \/ op[t].kind \in {"delegate", "binary", "inplace"}
         \/ op[t].kind = "get" /\ Missing(op[t].left)
  PROVE  Atomic!MayRespond(t)
<1>1. Stages[t] = IF Effective(t) THEN "done" ELSE "called"
  BY DEF Stages, AbstractStage
<1>2. /\ op[t] \in Operation
      /\ Calls[t].kind = AbstractKind[op[t].kind] /\ Calls[t].target = op[t].left
  BY DEF IInv, TypeOK, Calls, AbstractCall
<1>3. CASE Effective(t)
  BY <1>1, <1>3 DEF Atomic!MayRespond
<1>4. CASE ~Effective(t) /\ op[t].kind \in {"delegate", "binary", "inplace"}
  <2>1. Calls[t].kind \in {"use", "inplace"}
    BY <1>2, <1>4 DEF AbstractKind
  <2>2. QED
    BY <1>1, <1>4, <2>1 DEF Atomic!MayRespond
<1>5. CASE ~Effective(t) /\ op[t].kind = "get" /\ Missing(op[t].left)
  <2>1. Calls[t].kind = "get"
    BY <1>2, <1>5 DEF AbstractKind
  <2>2. Fields[Calls[t].target] = NULL
    BY <1>2, <1>5 DEF Fields, Missing, Operation
  <2>3. QED
    BY <1>1, <1>5, <2>1, <2>2 DEF Atomic!MayRespond
<1>6. QED
  BY <1>3, <1>4, <1>5

(* Internal steps: each return answers, everything else is not seen. *)
LEMMA InternalStep ==
  ASSUME IInv, NEW t \in Threads, Internal(t)
  PROVE  Atomic!Respond(t) \/ UNCHANGED Atomic!registerVars
<1>1. FieldsKept /\ HandsKept
  BY InternalKeeps
<1>2. op[t] \in Operation /\ Flow(t) /\ pc[t] # "idle"
  BY DEF IInv, TypeOK, Internal, TestLeft, TestRight, TakeRight, UseOperands,
     InplaceResult, DropLeft, DropRight, AbandonLeft, TakeNew, DropOld, MarkInitCalled,
     TakeLeft
<1>3. ASSUME NEW label \in Labels, Goto(t, label), label # "idle",
             (op[t].kind \in {"set", "init"} /\ pc[t] \in {"takeNew", "swap"})
                <=> (op[t].kind \in {"set", "init"} /\ label \in {"takeNew", "swap"}),
             op[t].kind = "inplace" => ~Effective(t)
                                       /\ (label = "dropOld" => op[t].outcome # "replace")
      PROVE  UNCHANGED Atomic!registerVars
  <2>1. pc'[t] = label /\ op'[t] = op[t]
    BY <1>3, GotoControl
  <2>2. Effective(t)' <=> Effective(t)
    BY <1>2, <1>3, <2>1 DEF Effective
  <2>3. QED
    BY <1>1, <1>2, <1>3, <2>1, <2>2, GoingOn DEF AbstractStage
<1>4. ASSUME Return(t), op[t].kind # "get" \/ Missing(op[t].left),
             op[t].kind \in {"set", "init"} => pc[t] \notin {"takeNew", "swap"}
      PROVE  Atomic!Respond(t)
  <2>1. \/ Effective(t)
        \/ op[t].kind \in {"delegate", "binary", "inplace"}
        \/ op[t].kind = "get" /\ Missing(op[t].left)
    BY <1>2, <1>4 DEF Effective, Operation, Kinds
  <2>2. QED
    BY <1>1, <1>2, <1>4, <2>1, MayReturn, Response
<1>5. CASE TestLeft(t)
  <2>1. CASE Missing(op[t].left)
    BY <1>4, <1>5, <2>1 DEF TestLeft
  <2>2. CASE ~Missing(op[t].left)
    <3>1. PICK label \in {"testRight", "takeLeft"} : Goto(t, label)
      BY <1>5, <2>2 DEF TestLeft
    <3>2. QED
      BY <1>3, <1>5, <3>1 DEF TestLeft, Labels, Effective
  <2>3. QED
    BY <2>1, <2>2
<1>6. CASE TakeLeft(t) /\ op[t].kind # "get"
  <2>1. CASE Return(t)
    BY <1>4, <1>6, <2>1 DEF TakeLeft
  <2>2. CASE ~Return(t)
    <3>1. PICK label \in {"testRight", "use"} : Goto(t, label)
      BY <1>6, <2>2 DEF TakeLeft
    <3>2. QED
      BY <1>3, <1>6, <3>1 DEF TakeLeft, Labels, Effective
  <2>3. QED
    BY <2>1, <2>2
<1>7. CASE TestRight(t) \/ TakeRight(t)
  <2>1. op[t].kind \in {"binary", "inplace"} /\ pc[t] \in {"testRight", "takeRight"}
    BY <1>2, <1>7 DEF TestRight, TakeRight, Flow, Operator
  <2>2. CASE Return(t)
    BY <1>4, <2>1, <2>2
  <2>3. CASE ~Return(t)
    <3>1. PICK label \in {"abandon", "takeRight", "takeLeft", "use"} : Goto(t, label)
      BY <1>7, <2>3 DEF TestRight, TakeRight, RightMissing
    <3>2. QED
      BY <1>3, <2>1, <3>1 DEF Labels, Effective
  <2>4. QED
    BY <2>2, <2>3
<1>8. CASE UseOperands(t)
  BY <1>3, <1>8 DEF UseOperands, Labels
<1>9. CASE InplaceResult(t)
  <2>1. PICK outcome \in Outcomes : op' = [op EXCEPT ![t].outcome = outcome]
    BY <1>9 DEF InplaceResult
  <2>2. /\ op'[t].kind = op[t].kind /\ op'[t].left = op[t].left
        /\ op'[t].right = op[t].right
        /\ pc'[t] = "dropLeft" /\ OthersWait(t)
    BY <1>9, <2>1 DEF InplaceResult, OthersWait, IInv, TypeOK, Operation
  <2>3. AbstractCall(t)' = AbstractCall(t) /\ AbstractStage(t)' = AbstractStage(t)
    BY <1>9, <2>2 DEF InplaceResult, AbstractCall, AbstractStage, Effective
  <2>4. QED
    BY <1>1, <2>2, <2>3, Stutter
<1>10. CASE DropLeft(t)
  <2>1. CASE op[t].kind \in {"binary", "inplace"}
    BY <1>3, <1>10, <2>1 DEF DropLeft, Labels, Effective
  <2>2. CASE op[t].kind \notin {"binary", "inplace"}
    BY <1>2, <1>4, <1>10, <2>2 DEF DropLeft, Flow
  <2>3. QED
    BY <2>1, <2>2
<1>11. CASE DropRight(t)
  <2>1. op[t].kind \in {"binary", "inplace"} /\ pc[t] = "dropRight"
    BY <1>2, <1>11 DEF DropRight, Flow, Operator
  <2>2. CASE op[t].outcome = "none"
    BY <1>4, <1>11, <2>1, <2>2 DEF DropRight
  <2>3. CASE op[t].outcome = "replace"
    BY <1>2, <1>3, <1>11, <2>1, <2>3 DEF DropRight, Labels, Effective, Flow
  <2>4. CASE op[t].outcome = "proxy"
    BY <1>2, <1>3, <1>11, <2>1, <2>4 DEF DropRight, Labels, Effective, Flow
  <2>5. QED
    BY <1>2, <2>2, <2>3, <2>4 DEF Operation, Outcomes
<1>12. CASE AbandonLeft(t)
  BY <1>2, <1>4, <1>12 DEF AbandonLeft, Flow
<1>13. CASE TakeNew(t)
  BY <1>2, <1>3, <1>13 DEF TakeNew, Labels, Flow
<1>14. CASE DropOld(t)
  <2>1. CASE op[t].kind \in {"set", "init"}
    <3>1. PICK label \in {"testLeft", "mark"} : Goto(t, label)
      BY <1>14, <2>1 DEF DropOld
    <3>2. QED
      BY <1>3, <1>14, <2>1, <3>1 DEF DropOld, Labels
  <2>2. CASE op[t].kind \notin {"set", "init"}
    BY <1>2, <1>4, <1>14, <2>2 DEF DropOld, Flow
  <2>3. QED
    BY <2>1, <2>2
<1>15. CASE MarkInitCalled(t)
  BY <1>2, <1>4, <1>15 DEF MarkInitCalled, Flow
<1>16. QED
  BY <1>5, <1>6, <1>7, <1>8, <1>9, <1>10, <1>11, <1>12, <1>13, <1>14, <1>15 DEF Internal

(* The load of __wrapped__ is the instant at which the register is read. *)
LEMMA GetStep ==
  ASSUME IInv, NEW t \in Threads, TakeLeft(t), op[t].kind = "get"
  PROVE  Atomic!GetValue(t)
<1>1. PICK p \in Proxies : p = op[t].left
  BY DEF TakeLeft, IInv, Flow
<1>2. /\ Held(t, "user")' = Wrapped(p) /\ FieldsKept
      /\ \A u \in Threads \ {t} : Held(u, "user")' = Held(u, "user")
  BY <1>1, GetEffect
<1>3. /\ op' \in [Threads -> Operation] /\ pc'[t] = "idle" /\ OthersWait(t)
  BY ReturnControl DEF TakeLeft, OthersWait
<1>4. Calls[t].kind = "get" /\ Calls[t].target = p /\ Stages[t] = "called"
  BY <1>1 DEF Calls, AbstractCall, AbstractKind, Stages, AbstractStage, Effective, TakeLeft
<1>5. Fields[p] = Wrapped(p) /\ Wrapped(p) # NULL /\ Fields' = Fields
  BY <1>1, <1>2, ConstantsDistinct DEF Fields, FieldsKept, IInv, Tested, Missing, TakeLeft
<1>6. Hands' = [Hands EXCEPT ![t] = Wrapped(p)]
  BY <1>2 DEF Hands
<1>7. Stages' = [Stages EXCEPT ![t] = "idle"]
  BY <1>3, StageReplaced DEF AbstractStage
<1>8. QED
  BY <1>3, <1>4, <1>5, <1>6, <1>7, CallReplaced DEF Atomic!GetValue

(* The swap is the instant at which the register is written: with the value
   the caller passed, or with the result of an in-place operator. *)
LEMMA SwapStep ==
  ASSUME IInv, NEW t \in Threads, Swap(t)
  PROVE  Atomic!SetValue(t) \/ Atomic!UpdateValue(t)
<1>1. /\ pc[t] = "swap" /\ Flow(t) /\ Tested(t) /\ op[t] \in Operation
  BY DEF Swap, IInv, TypeOK
<1>2. PICK p \in Proxies : p = op[t].left
  BY <1>1 DEF Flow
<1>3. /\ Wrapped(p)' = Held(t, "new") /\ Held(t, "new") \in Objects
      /\ \A q \in Proxies \ {p} : Wrapped(q)' = Wrapped(q)
      /\ HandsKept
  BY <1>2, SwapEffect
<1>4. pc'[t] = "dropOld" /\ op'[t] = op[t] /\ OthersWait(t)
  BY GotoControl DEF Swap, Labels, OthersWait
<1>5. Fields' = [Fields EXCEPT ![p] = Held(t, "new")] /\ Hands' = Hands
  BY <1>3 DEF Fields, Hands, HandsKept
<1>6. Calls' = Calls
  BY <1>4 DEF Calls, AbstractCall, OthersWait
<1>7. ~Effective(t) /\ Effective(t)'
  BY <1>1, <1>4 DEF Effective, Flow
<1>8. Stages[t] = "called" /\ Stages' = [Stages EXCEPT ![t] = "done"]
  BY <1>1, <1>4, <1>7, StageReplaced DEF Stages, AbstractStage
<1>9. Calls[t].target = p /\ Calls[t].kind = AbstractKind[op[t].kind]
  BY <1>2 DEF Calls, AbstractCall
<1>10. CASE op[t].kind \in {"set", "init"}
  <2>1. Calls[t].kind = "set" /\ Hands[t] = Held(t, "new")
    BY <1>1, <1>9, <1>10 DEF AbstractKind, Hands, Tested
  <2>2. QED
    BY <1>5, <1>6, <1>8, <1>9, <2>1 DEF Atomic!SetValue
<1>11. CASE op[t].kind \notin {"set", "init"}
  <2>1. Calls[t].kind = "inplace"
    BY <1>1, <1>9, <1>11 DEF AbstractKind, Flow
  <2>2. QED
    BY <1>3, <1>5, <1>6, <1>8, <1>9, <2>1 DEF Atomic!UpdateValue
<1>12. QED
  BY <1>10, <1>11

(* What Python code does between two operations, and its calls. *)
LEMMA InvokeStep ==
  ASSUME IInv, NEW t \in Threads, NEW kind \in Kinds,
         NEW x \in Proxies \cup {Plain}, NEW y \in Proxies \cup {Plain},
         NEW label \in {"testLeft", "takeNew"},
         kind \in {"set", "init"} <=> label = "takeNew",
         Begin(t, kind, x, y, label)
  PROVE  Atomic!Invoke(t)
<1>1. /\ op' \in [Threads -> Operation] /\ OthersWait(t) /\ pc'[t] = label
      /\ op'[t] = [kind |-> kind, left |-> x, right |-> y, outcome |-> "none"]
  BY DEF Begin, IInv, TypeOK, Operation, Outcomes, OthersWait
<1>2. Fields' = Fields /\ Hands' = Hands
  BY NoWriteKeeps DEF Begin, Fields, Hands, FieldsKept, HandsKept
<1>3. AbstractStage(t)' = "called"
  BY <1>1 DEF AbstractStage, Effective
<1>4. Stages[t] = "idle" /\ Stages' = [Stages EXCEPT ![t] = "called"]
  BY <1>1, <1>3, StageReplaced DEF Begin, Stages, AbstractStage
<1>5. QED
  BY <1>1, <1>2, <1>4, CallReplaced DEF Atomic!Invoke

LEMMA CallerStep ==
  ASSUME IInv, NEW t \in Threads, Caller(t)
  PROVE  Atomic!Handle(t) \/ Atomic!Invoke(t)
<1>1. CASE CreateObject(t) \/ ForgetObject(t)
  <2>1. PICK v \in Objects \cup {NULL} : slot' = [slot EXCEPT ![<<t, "user">>] = v]
    BY <1>1 DEF CreateObject, ForgetObject, Acquire, Release
  <2>2. OnlyLocal(t, "user") /\ Held(t, "user")' = v
    BY <2>1, LocalWrite DEF Locals
  <2>3. Fields' = Fields /\ Hands' = [Hands EXCEPT ![t] = v]
    BY <2>2 DEF OnlyLocal, Fields, Hands, Locals
  <2>4. Calls' = Calls /\ Stages' = Stages /\ Stages[t] = "idle"
    BY <1>1 DEF CreateObject, ForgetObject, Calls, AbstractCall, Stages, AbstractStage,
       Effective
  <2>5. QED
    BY <2>3, <2>4 DEF Atomic!Handle
<1>2. CASE ~(CreateObject(t) \/ ForgetObject(t))
  <2>1. PICK kind \in Kinds, x, y \in Proxies \cup {Plain},
             label \in {"testLeft", "takeNew"} :
          /\ kind \in {"set", "init"} <=> label = "takeNew"
          /\ Begin(t, kind, x, y, label)
    <3>1. CASE CallDelegate(t)
      BY <3>1 DEF CallDelegate, Kinds
    <3>2. CASE CallGet(t)
      BY <3>2 DEF CallGet, Kinds
    <3>3. CASE CallSet(t)
      BY <3>3 DEF CallSet, Kinds
    <3>4. CASE CallInit(t)
      BY <3>4 DEF CallInit, Kinds
    <3>5. CASE CallBinary(t)
      BY <3>5 DEF CallBinary, Kinds
    <3>6. CASE CallInplace(t)
      BY <3>6 DEF CallInplace, Kinds
    <3>7. QED
      BY <1>2, <3>1, <3>2, <3>3, <3>4, <3>5, <3>6 DEF Caller
  <2>2. QED
    BY <2>1, InvokeStep
<1>3. QED
  BY <1>1, <1>2

LEMMA DeallocStep ==
  ASSUME IInv, NEW p \in Proxies, Dealloc(p)
  PROVE  Atomic!Forget(p)
<1>1. /\ Wrapped(p)' = NULL /\ HandsKept
      /\ \A q \in Proxies \ {p} : Wrapped(q)' = Wrapped(q)
  BY DeallocEffect
<1>2. Fields' = [Fields EXCEPT ![p] = NULL] /\ Hands' = Hands
  BY <1>1 DEF Fields, Hands, HandsKept
<1>3. Calls' = Calls /\ Stages' = Stages
  BY DEF Dealloc, Calls, AbstractCall, Stages, AbstractStage, Effective
<1>4. ASSUME NEW t \in Threads, Stages[t] # "idle"
      PROVE  p \notin {Calls[t].target, Calls[t].other}
  BY <1>4 DEF Dealloc, Busy, Stages, AbstractStage, Calls, AbstractCall
<1>5. QED
  BY <1>2, <1>3, <1>4 DEF Atomic!Forget

(* The proxy implements the register: the step of each action is given above. *)
THEOREM Refinement == Spec => ImplementsRegister
<1>1. Init => Atomic!Register
  <2> SUFFICES ASSUME Init PROVE Atomic!Register
    OBVIOUS
  <2>1. Fields = [p \in Proxies |-> NULL] /\ Hands = [t \in Threads |-> NULL]
    BY SlotNames DEF Init, Fields, Hands, Wrapped, Held, Locals
  <2>2. Stages = [t \in Threads |-> "idle"]
    BY DEF Init, Stages, AbstractStage
  <2>3. NoOp \in Operation
    BY DEF NoOp, Operation, Kinds, Outcomes
  <2>4. Calls \in [Threads -> Atomic!Call]
    BY <2>3, CallTyped DEF Init, Calls, AbstractCall
  <2>5. QED
    BY <2>1, <2>2, <2>4 DEF Atomic!Register
<1>2. IInv /\ [Next]_vars => [Atomic!RegisterStep]_(Atomic!registerVars)
  <2> SUFFICES ASSUME IInv, [Next]_vars
               PROVE  [Atomic!RegisterStep]_(Atomic!registerVars)
    OBVIOUS
  <2>1. ASSUME NEW t \in Threads, Caller(t) PROVE Atomic!RegisterStep
    BY <2>1, CallerStep DEF Atomic!RegisterStep
  <2>2. ASSUME NEW t \in Threads, Function(t)
        PROVE  Atomic!RegisterStep \/ UNCHANGED Atomic!registerVars
    <3>1. CASE Internal(t)
      BY <3>1, InternalStep DEF Atomic!RegisterStep
    <3>2. CASE TakeLeft(t) /\ op[t].kind = "get"
      BY <3>2, GetStep DEF Atomic!RegisterStep
    <3>3. CASE Swap(t)
      BY <3>3, SwapStep DEF Atomic!RegisterStep
    <3>4. QED
      BY <2>2, <3>1, <3>2, <3>3 DEF Function, Internal
  <2>3. ASSUME NEW p \in Proxies, Dealloc(p) PROVE Atomic!RegisterStep
    BY <2>3, DeallocStep DEF Atomic!RegisterStep
  <2>4. CASE UNCHANGED vars
    BY <2>4 DEF vars, Atomic!registerVars, Fields, Hands, Calls, Stages, Wrapped, Held,
       AbstractCall, AbstractStage, Effective
  <2>5. QED
    BY <2>1, <2>2, <2>3, <2>4 DEF Next
<1>3. QED
  BY <1>1, <1>2, Invariance, PTL DEF Spec, ImplementsRegister, Atomic!RegisterSpec
=============================================================================
