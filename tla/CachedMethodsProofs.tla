------------------------- MODULE CachedMethodsProofs -------------------------
(***************************************************************************)
(* The cache that a first call creates is the one that is kept, for any    *)
(* number of threads, methods, instances, copies and proxies.              *)
(***************************************************************************)
EXTENDS CachedMethods, TLAPS

TypeOK ==
  /\ cacheAt \in [Places -> Nat]
  /\ made \in Seq(Uses)
  /\ address \in [Wrappers -> Addresses \cup {NoAddress}]
  /\ owner \in [Wrappers -> Threads \cup {NoOne}]
  /\ copyOf \in [Instances -> Instances]
  /\ label \in [Frames -> Labels]
  /\ use \in [Frames -> Uses \cup {NotUsing}]
  /\ mine \in [Frames -> Nat]

(* A call in progress keeps its wrapper, and no two wrappers have one address. *)
Live ==
  /\ \A f \in Frames : label[f] # "idle" =>
       /\ use[f] \in Uses
       /\ address[use[f].wrapper] # NoAddress
       /\ Exists(use[f].receiver)
  /\ \A v, w \in Wrappers : address[v] = address[w] /\ address[v] # NoAddress => v = w

Inside(f) == label[f] \in {"lookAgain", "create", "leave"}

(* The lock of a wrapper is held by one frame. *)
LockHeld ==
  /\ \A f \in Frames : Inside(f) => owner[use[f].wrapper] = f[1]
  /\ \A f, g \in Frames : Inside(f) /\ Inside(g) /\ use[f].wrapper = use[g].wrapper => f = g

(* What has been looked for under the lock stays missing. *)
StillMissing == \A f \in Frames : label[f] = "create" => Seen(use[f]) = NoCache

IInv == TypeOK /\ Live /\ LockHeld /\ StillMissing /\ OneCache

-----------------------------------------------------------------------------
(* Lookups, for caches c and addresses a, as functions of both *)

PlaceIn(a, u) ==
  IF u.wrapper \in Shared THEN <<u.wrapper, NoAddress>> ELSE <<u.receiver, a[u.wrapper]>>

Inner(u) == [u EXCEPT !.receiver = Around[@]]

SeenIn(c, a, u) ==
  IF c[PlaceIn(a, u)] = NoCache /\ u.receiver \in DOMAIN Around
  THEN c[PlaceIn(a, Inner(u))]
  ELSE c[PlaceIn(a, u)]

Caches == [Places -> Nat]

Addressings ==
  {a \in [Wrappers -> Addresses \cup {NoAddress}] :
     \A v, w \in Wrappers : a[v] = a[w] /\ a[v] # NoAddress => v = w}

LiveUses(a) == {u \in Uses : a[u.wrapper] # NoAddress}

USE CachedAssumption

LEMMA SeenIsSeenIn == \A u : Seen(u) = SeenIn(cacheAt, address, u)
  BY DEF Seen, SeenIn, Place, PlaceIn, Inner

(* A use and the one of what its receiver wraps have places in memory. *)
LEMMA PlacesExist ==
  ASSUME NEW a \in Addressings, NEW u \in LiveUses(a)
  PROVE  /\ PlaceIn(a, u) \in Places
         /\ u.receiver \in DOMAIN Around => /\ Inner(u) \in LiveUses(a)
                                          /\ Inner(u).wrapper = u.wrapper
                                          /\ PlaceIn(a, Inner(u)) \in Places
<1>1. ASSUME NEW v \in LiveUses(a) PROVE PlaceIn(a, v) \in Places
  BY <1>1 DEF LiveUses, Addressings, Uses, Places, PlaceIn, Wrappers
<1>2. u.receiver \in DOMAIN Around => Inner(u) \in LiveUses(a) /\ Inner(u).wrapper = u.wrapper
  BY DEF LiveUses, Uses, Inner
<1> QED
  BY <1>1, <1>2

(* Only uses of one wrapper share a place. *)
LEMMA PlacesDiffer ==
  ASSUME NEW a \in Addressings, NEW u \in LiveUses(a), NEW v \in LiveUses(a),
         PlaceIn(a, u) = PlaceIn(a, v)
  PROVE  u.wrapper = v.wrapper /\ (u.wrapper \in Shared \/ u = v)
<1>1. u.wrapper \in Wrappers /\ v.wrapper \in Wrappers
      /\ a[u.wrapper] # NoAddress /\ a[v.wrapper] # NoAddress
  BY DEF LiveUses, Uses
<1>2. u.wrapper = v.wrapper
  BY <1>1 DEF PlaceIn, Addressings
<1>3. u.wrapper \notin Shared => u.receiver = v.receiver
  BY <1>2 DEF PlaceIn
<1> QED
  BY <1>2, <1>3 DEF LiveUses, Uses

(* Of uses of a shared wrapper all see the same. *)
LEMMA SharedSee ==
  ASSUME NEW c, NEW a, NEW u \in Uses, u.wrapper \in Shared
  PROVE  SeenIn(c, a, u) = c[<<u.wrapper, NoAddress>>]
BY DEF SeenIn, PlaceIn, Inner, Uses

Put(c, a, u, n) == [c EXCEPT ![PlaceIn(a, u)] = n]

(* A cache that is created where a use saw none is seen by it, and changes what
   others see only for uses of the same wrapper that saw none. *)
LEMMA CreationSeen ==
  ASSUME NEW c \in Caches, NEW a \in Addressings, NEW u \in LiveUses(a), NEW n \in Nat,
         NEW d \in Caches,
         n # NoCache, SeenIn(c, a, u) = NoCache, d = Put(c, a, u, n)
  PROVE  /\ SeenIn(d, a, u) = n
         /\ \A v \in LiveUses(a) :
              v.wrapper # u.wrapper \/ SeenIn(c, a, v) # NoCache =>
                SeenIn(d, a, v) = SeenIn(c, a, v)
<1>1. PlaceIn(a, u) \in Places /\ c[PlaceIn(a, u)] = NoCache
  BY PlacesExist DEF SeenIn
<1>2. SeenIn(d, a, u) = n
  BY <1>1 DEF SeenIn, Caches, Put
<1>3. ASSUME NEW v \in LiveUses(a), v.wrapper # u.wrapper \/ SeenIn(c, a, v) # NoCache
      PROVE  SeenIn(d, a, v) = SeenIn(c, a, v)
  <2>1. PlaceIn(a, v) # PlaceIn(a, u)
    <3> SUFFICES ASSUME PlaceIn(a, v) = PlaceIn(a, u) PROVE FALSE
      OBVIOUS
    <3>1. v.wrapper = u.wrapper /\ (u.wrapper \in Shared \/ v = u)
      BY PlacesDiffer
    <3>2. u.wrapper \in Shared => SeenIn(c, a, u) = SeenIn(c, a, v)
      BY <3>1, SharedSee DEF LiveUses
    <3> QED
      BY <1>3, <3>1, <3>2
  <2>2. CASE v.receiver \in DOMAIN Around /\ c[PlaceIn(a, v)] = NoCache
    <3>1. PlaceIn(a, Inner(v)) # PlaceIn(a, u)
      <4> SUFFICES ASSUME PlaceIn(a, Inner(v)) = PlaceIn(a, u) PROVE FALSE
        OBVIOUS
      <4>1. Inner(v).wrapper = u.wrapper
        BY <2>2, PlacesExist, PlacesDiffer
      <4>2. v.wrapper = u.wrapper
        BY <2>2, <4>1, PlacesExist
      <4>3. SeenIn(c, a, v) = NoCache
        BY <1>1, <2>2 DEF SeenIn
      <4> QED
        BY <1>3, <4>2, <4>3
    <3> QED
      BY <1>1, <2>1, <2>2, <3>1, PlacesExist DEF SeenIn, Caches, Put
  <2>3. CASE ~(v.receiver \in DOMAIN Around /\ c[PlaceIn(a, v)] = NoCache)
    BY <1>1, <2>1, <2>3, PlacesExist DEF SeenIn, Caches, Put
  <2> QED
    BY <2>2, <2>3
<1> QED
  BY <1>2, <1>3

-----------------------------------------------------------------------------
(* Steps *)

USE DEF Goto, Labels

Step(f) ==
  \/ Call(f) \/ Look(f) \/ Enter(f) \/ LookAgain(f) \/ Create(f) \/ Leave(f)
  \/ CallCache(f) \/ BodyEnds(f) \/ Return(f)

LEMMA InitEstablishes == Init => IInv
<1> SUFFICES ASSUME Init PROVE IInv
  OBVIOUS
<1>1. TypeOK
  BY DEF Init, TypeOK, NoCache
<1>2. Live /\ LockHeld /\ StillMissing /\ OneCache
  BY DEF Init, Live, LockHeld, Inside, StillMissing, OneCache, Wrappers
<1> QED
  BY <1>1, <1>2 DEF IInv

(* What frames in a call use, as the lemmas on lookups need it. *)
LEMMA InUse ==
  ASSUME IInv
  PROVE  /\ cacheAt \in Caches /\ address \in Addressings
         /\ \A f \in Frames : label[f] # "idle" => use[f] \in LiveUses(address)
BY DEF IInv, TypeOK, Live, Caches, Addressings, LiveUses

LEMMA SeenTyped ==
  ASSUME IInv, NEW f \in Frames, label[f] # "idle"
  PROVE  Seen(use[f]) \in Nat
BY InUse, SeenIsSeenIn, PlacesExist DEF SeenIn, Caches

(* Every step of a frame leaves the state well typed. *)
LEMMA KeepsType ==
  ASSUME IInv, NEW f \in Frames, Step(f)
  PROVE  TypeOK'
<1> USE DEF IInv, TypeOK
<1>1. CASE Call(f)
  BY <1>1 DEF Call
<1>2. CASE Look(f)
  BY <1>2, SeenTyped DEF Look
<1>3. CASE Enter(f)
  BY <1>3 DEF Enter, Frames
<1>4. CASE LookAgain(f)
  BY <1>4, SeenTyped DEF LookAgain
<1>5. CASE Create(f)
  <2>1. CASE /\ End(f)
             /\ owner' = [owner EXCEPT ![use[f].wrapper] = NoOne]
             /\ UNCHANGED <<cacheAt, made>>
    BY <1>5, <2>1 DEF Create, End, NoCache
  <2>2. CASE /\ made' = Append(made, use[f])
             /\ cacheAt' = [cacheAt EXCEPT ![Place(use[f])] = Len(made')]
             /\ mine' = [mine EXCEPT ![f] = Len(made')]
             /\ Goto(f, "leave")
             /\ UNCHANGED <<owner, use>>
    <3>1. use[f] \in Uses
      BY <1>5 DEF Create, Live
    <3>2. made' \in Seq(Uses) /\ Len(made') \in Nat
      BY <2>2, <3>1
    <3> QED
      BY <1>5, <2>2, <3>2 DEF Create
  <2> QED
    BY <1>5, <2>1, <2>2 DEF Create
<1>6. CASE Leave(f)
  BY <1>6 DEF Leave
<1>7. CASE CallCache(f)
  BY <1>7 DEF CallCache
<1>8. CASE BodyEnds(f)
  BY <1>8 DEF BodyEnds
<1>9. CASE Return(f)
  BY <1>9 DEF Return, End, NoCache
<1> QED
  BY <1>1, <1>2, <1>3, <1>4, <1>5, <1>6, <1>7, <1>8, <1>9 DEF Step

(* A call keeps its wrapper. *)
LEMMA KeepsLive ==
  ASSUME IInv, NEW f \in Frames, Step(f)
  PROVE  Live'
<1> USE DEF IInv, TypeOK, Live, Exists
<1>1. CASE Call(f)
  BY <1>1 DEF Call
<1>2. CASE \/ Look(f) \/ Enter(f) \/ LookAgain(f) \/ Leave(f) \/ CallCache(f) \/ BodyEnds(f)
  BY <1>2 DEF Look, Enter, LookAgain, Leave, CallCache, BodyEnds
<1>3. CASE Create(f)
  BY <1>3 DEF Create, End
<1>4. CASE Return(f)
  BY <1>4 DEF Return, End
<1> QED
  BY <1>1, <1>2, <1>3, <1>4 DEF Step

(* Every step of a frame keeps the locks. *)
LEMMA KeepsLock ==
  ASSUME IInv, NEW f \in Frames, Step(f)
  PROVE  LockHeld'
<1> USE DEF IInv, TypeOK, LockHeld, Inside
<1>1. CASE Call(f)
  BY <1>1 DEF Call
<1>2. CASE Look(f)
  BY <1>2 DEF Look
<1>3. CASE Enter(f)
  BY <1>3 DEF Enter, Frames, Live, Uses
<1>4. CASE LookAgain(f)
  BY <1>4 DEF LookAgain
<1>5. CASE Create(f)
  <2>1. CASE End(f) /\ owner' = [owner EXCEPT ![use[f].wrapper] = NoOne]
    BY <1>5, <2>1 DEF Create, End, Live, Uses
  <2>2. CASE Goto(f, "leave") /\ UNCHANGED <<owner, use>>
    BY <1>5, <2>2 DEF Create
  <2> QED
    BY <1>5, <2>1, <2>2 DEF Create
<1>6. CASE Leave(f)
  BY <1>6 DEF Leave, Live, Uses
<1>7. CASE CallCache(f)
  <2>1. CASE Goto(f, "body")
    BY <1>7, <2>1 DEF CallCache
  <2>2. CASE Goto(f, "return")
    BY <1>7, <2>2 DEF CallCache
  <2> QED
    BY <1>7, <2>1, <2>2 DEF CallCache
<1>8. CASE BodyEnds(f)
  BY <1>8 DEF BodyEnds
<1>9. CASE Return(f)
  BY <1>9 DEF Return, End
<1> QED
  BY <1>1, <1>2, <1>3, <1>4, <1>5, <1>6, <1>7, <1>8, <1>9 DEF Step

(* Where no cache is created and no wrapper comes or goes, all see the same. *)
LEMMA SeenUnchanged ==
  ASSUME UNCHANGED <<cacheAt, address>>
  PROVE  \A g \in Frames : use'[g] = use[g] => Seen(use[g])' = Seen(use[g])
BY DEF Seen, Place

(* No step of a frame makes another one lose or find a cache. *)
LEMMA KeepsCaches ==
  ASSUME IInv, NEW f \in Frames, Step(f)
  PROVE  StillMissing' /\ OneCache'
<1> USE DEF IInv, TypeOK, StillMissing, OneCache
<1>1. CASE Call(f)
  BY <1>1, SeenUnchanged DEF Call
<1>2. CASE Look(f)
  BY <1>2, SeenUnchanged DEF Look
<1>3. CASE Enter(f)
  BY <1>3, SeenUnchanged DEF Enter
<1>4. CASE LookAgain(f)
  BY <1>4, SeenUnchanged DEF LookAgain
<1>5. CASE Create(f)
  <2>1. CASE End(f) /\ UNCHANGED cacheAt
    BY <1>5, <2>1, SeenUnchanged DEF Create, End
  <2>2. CASE /\ made' = Append(made, use[f])
             /\ cacheAt' = [cacheAt EXCEPT ![Place(use[f])] = Len(made')]
             /\ mine' = [mine EXCEPT ![f] = Len(made')]
             /\ Goto(f, "leave")
             /\ UNCHANGED use
    <3>1. Len(made') \in Nat /\ Len(made') # NoCache
      BY <1>5, <2>2 DEF Create, Live, NoCache
    <3>2. /\ use[f] \in LiveUses(address) /\ cacheAt \in Caches /\ address \in Addressings
          /\ SeenIn(cacheAt, address, use[f]) = NoCache
          /\ cacheAt' = [cacheAt EXCEPT ![PlaceIn(address, use[f])] = Len(made')]
      BY <1>5, <2>2, InUse, SeenIsSeenIn DEF Create, Place, PlaceIn
    <3>3. /\ SeenIn(cacheAt', address, use[f]) = Len(made')
          /\ \A v \in LiveUses(address) :
               v.wrapper # use[f].wrapper \/ SeenIn(cacheAt, address, v) # NoCache =>
                 SeenIn(cacheAt', address, v) = SeenIn(cacheAt, address, v)
      <4>0. cacheAt' \in Caches
        BY <3>1, <3>2, PlacesExist DEF Caches
      <4>1. PICK c \in Caches, a \in Addressings, d \in Caches, n \in Nat :
              c = cacheAt /\ a = address /\ d = cacheAt' /\ n = Len(made')
        BY <3>1, <3>2, <4>0
      <4>2. PICK u \in LiveUses(a) : u = use[f]
        BY <3>2, <4>1
      <4>3. n # NoCache /\ SeenIn(c, a, u) = NoCache /\ d = Put(c, a, u, n)
        BY <3>1, <3>2, <4>1, <4>2 DEF Put
      <4>4. /\ SeenIn(d, a, u) = n
            /\ \A v \in LiveUses(a) :
                 v.wrapper # u.wrapper \/ SeenIn(c, a, v) # NoCache =>
                   SeenIn(d, a, v) = SeenIn(c, a, v)
        BY <4>1, <4>2, <4>3, CreationSeen
      <4> QED
        BY <4>1, <4>2, <4>4
    <3>4. \A g \in Frames : Seen(use[g])' = SeenIn(cacheAt', address, use[g])
      BY <1>5, <2>2 DEF Create, Seen, SeenIn, Place, PlaceIn, Inner
    <3>5. ASSUME NEW g \in Frames \ {f}, label[g] # "idle",
                 label[g] = "create" \/ Seen(use[g]) # NoCache
          PROVE  Seen(use[g])' = Seen(use[g])
      <4>1. use[g].wrapper # use[f].wrapper \/ SeenIn(cacheAt, address, use[g]) # NoCache
        BY <1>5, <3>5, SeenIsSeenIn DEF Create, LockHeld, Inside
      <4> QED
        BY <3>3, <3>4, <3>5, <4>1, InUse, SeenIsSeenIn
    <3>6. Seen(use[f])' = Len(made')
      BY <3>3, <3>4
    <3> QED
      BY <1>5, <2>2, <3>1, <3>5, <3>6 DEF Create
  <2> QED
    BY <1>5, <2>1, <2>2 DEF Create
<1>6. CASE Leave(f)
  BY <1>6, SeenUnchanged DEF Leave
<1>7. CASE CallCache(f)
  BY <1>7, SeenUnchanged DEF CallCache
<1>8. CASE BodyEnds(f)
  BY <1>8, SeenUnchanged DEF BodyEnds
<1>9. CASE Return(f)
  BY <1>9, SeenUnchanged DEF Return, End
<1> QED
  BY <1>1, <1>2, <1>3, <1>4, <1>5, <1>6, <1>7, <1>8, <1>9 DEF Step

(* No cache of a use in progress is in the instance that a copy becomes. *)
LEMMA KeepsCopy ==
  ASSUME IInv, NEW i \in Instances, NEW j \in Instances, Copy(i, j)
  PROVE  IInv'
<1> USE DEF IInv, TypeOK
<1>1. j \in Copies /\ copyOf[j] = j /\ i # j
  BY DEF Copy, Exists
<1>2. TypeOK'
  <2>1. \A a \in Addresses : <<i, a>> \in Places
    BY DEF Places
  <2>2. \A p \in Places : p[1] = j => p[2] \in Addresses
    BY DEF Places
  <2> QED
    BY <2>1, <2>2 DEF Copy
<1>3. Live' /\ LockHeld'
  BY <1>1 DEF Copy, Live, LockHeld, Inside, Exists
<1>4. ASSUME NEW f \in Frames, label[f] # "idle" PROVE Seen(use[f])' = Seen(use[f])
  <2>1. \A u \in LiveUses(address) : u.receiver # j => PlaceIn(address, u)[1] # j
    BY <1>1 DEF PlaceIn, LiveUses, Uses
  <2>2. use[f] \in LiveUses(address) /\ address \in Addressings /\ use[f].receiver # j
    BY <1>1, <1>4, InUse DEF Live, Exists
  <2>3. use[f].receiver \in DOMAIN Around => Inner(use[f]).receiver # j
    BY <1>1, <2>2 DEF Inner, LiveUses, Uses
  <2>4. \A p \in Places : p[1] # j => cacheAt'[p] = cacheAt[p]
    BY DEF Copy
  <2>5. SeenIn(cacheAt', address, use[f]) = SeenIn(cacheAt, address, use[f])
    BY <2>1, <2>2, <2>3, <2>4, PlacesExist DEF SeenIn
  <2>6. Seen(use[f])' = SeenIn(cacheAt', address, use[f])
    BY DEF Copy, Seen, SeenIn, Place, PlaceIn, Inner
  <2> QED
    BY <2>5, <2>6, SeenIsSeenIn
<1>5. StillMissing' /\ OneCache'
  BY <1>4 DEF Copy, StillMissing, OneCache
<1> QED
  BY <1>2, <1>3, <1>5

(* No use in progress is of a wrapper that goes or comes. *)
LEMMA KeepsRedefine ==
  ASSUME IInv, NEW v \in Wrappers, NEW w \in Wrappers, Redefine(v, w)
  PROVE  IInv'
<1> USE DEF IInv, TypeOK
<1>1. PICK a \in Addresses : /\ \A u \in Wrappers \ {v} : address[u] # a
                            /\ address' = [address EXCEPT ![v] = NoAddress, ![w] = a]
  BY DEF Redefine
<1>2. v # w /\ address[w] = NoAddress /\ a # NoAddress
  BY DEF Redefine
<1>3. TypeOK'
  BY <1>1 DEF Redefine
<1>4. ASSUME NEW f \in Frames, label[f] # "idle"
      PROVE  use[f].wrapper \in Wrappers \ {v, w}
  BY <1>2, <1>4 DEF Redefine, Live, Uses
<1>5. \A u \in Wrappers \ {v, w} : address'[u] = address[u]
  BY <1>1
<1>6. Live'
  <2>1. \A f \in Frames : label'[f] # "idle" =>
          /\ use'[f] \in Uses /\ address'[use'[f].wrapper] # NoAddress
          /\ use'[f].receiver \in Copies => copyOf'[use'[f].receiver] # use'[f].receiver
    BY <1>4, <1>5 DEF Redefine, Live, Exists
  <2>2. \A x, y \in Wrappers : address'[x] = address'[y] /\ address'[x] # NoAddress => x = y
    BY <1>1, <1>2 DEF Live
  <2> QED
    BY <2>1, <2>2 DEF Live, Exists
<1>7. LockHeld'
  BY DEF Redefine, LockHeld, Inside
<1>8. ASSUME NEW f \in Frames, label[f] # "idle" PROVE Seen(use[f])' = Seen(use[f])
  <2>1. use[f] \in Uses /\ address'[use[f].wrapper] = address[use[f].wrapper]
    BY <1>4, <1>5, <1>8 DEF Live
  <2>2. [use[f] EXCEPT !.receiver = Around[@]].wrapper = use[f].wrapper
    BY <2>1 DEF Uses
  <2>3. /\ PlaceIn(address', use[f]) = PlaceIn(address, use[f])
        /\ PlaceIn(address', Inner(use[f])) = PlaceIn(address, Inner(use[f]))
    BY <2>1, <2>2 DEF PlaceIn, Inner
  <2>4. SeenIn(cacheAt, address', use[f]) = SeenIn(cacheAt, address, use[f])
    BY <2>3 DEF SeenIn
  <2>5. Seen(use[f])' = SeenIn(cacheAt, address', use[f])
    BY DEF Redefine, Seen, SeenIn, Place, PlaceIn, Inner
  <2> QED
    BY <2>4, <2>5, SeenIsSeenIn
<1>9. StillMissing' /\ OneCache'
  BY <1>8 DEF Redefine, StillMissing, OneCache
<1> QED
  BY <1>3, <1>6, <1>7, <1>9

(* The invariant holds. *)
THEOREM Invariance == Spec => []IInv
<1>1. IInv /\ [Next]_vars => IInv'
  <2> SUFFICES ASSUME IInv, [Next]_vars PROVE IInv'
    OBVIOUS
  <2>1. CASE UNCHANGED vars
    BY <2>1 DEF vars, IInv, TypeOK, Live, Exists, LockHeld, Inside, StillMissing, OneCache,
                Seen, Place
  <2>2. ASSUME NEW f \in Frames, Step(f) PROVE IInv'
    BY <2>2, KeepsType, KeepsLive, KeepsLock, KeepsCaches DEF IInv
  <2>3. ASSUME NEW i \in Instances, NEW j \in Instances, Copy(i, j) PROVE IInv'
    BY <2>3, KeepsCopy
  <2>4. ASSUME NEW v \in Wrappers, NEW w \in Wrappers, Redefine(v, w) PROVE IInv'
    BY <2>4, KeepsRedefine
  <2> QED
    BY <2>1, <2>2, <2>3, <2>4 DEF Next, Step
<1> QED
  BY <1>1, InitEstablishes, PTL DEF Spec

(* For any number of threads that make the first call of a cached method at the
   same time, on instances, copies and proxies around them, there is one cache, and
   every call uses it (the check, lock and check again of caching.py). *)
THEOREM OneCacheForAll == Spec => []OneCache
<1>1. IInv => OneCache
  BY DEF IInv
<1> QED
  BY <1>1, Invariance, PTL
-----------------------------------------------------------------------------
(* Whose caches they are *)

(* A cache in an instance is that of a wrapper that has its address still, or had it,
   and calls the bound method of the instance or of one that it comes from. *)
Owns ==
  \A p \in Instances \X Addresses :
    cacheAt[p] # NoCache =>
      /\ cacheAt[p] \in 1 .. Len(made)
      /\ p[2] \in past \/ address[made[cacheAt[p]].wrapper] = p[2]
      /\ made[cacheAt[p]].receiver \in Lineage(p[1])

LEMMA LineageReaches ==
  ASSUME NEW i \in Instances
  PROVE  /\ i \in Lineage(i)
         /\ i \in DOMAIN Around => Lineage(Around[i]) \subseteq Lineage(i)
BY DEF Lineage

(* What an instance comes from stays so when nothing is copied. *)
LEMMA LineageKept ==
  ASSUME UNCHANGED copyOf
  PROVE  \A i \in Instances : Lineage(i)' = Lineage(i)
BY DEF Lineage

(* A copy comes from what its source comes from; what others come from remains. *)
LEMMA LineageCopied ==
  ASSUME IInv, NEW i \in Instances, NEW j \in Instances, Copy(i, j)
  PROVE  /\ \A o \in Lineage(i) : o \in Lineage(j)'
         /\ \A x \in Instances : \A o \in Lineage(x) : o \in Lineage(x)'
<1>1. copyOf[j] = j /\ copyOf' = [copyOf EXCEPT ![j] = i] /\ copyOf \in [Instances -> Instances]
  BY DEF IInv, TypeOK, Copy, Exists
<1>2. ASSUME NEW S \in SUBSET Instances,
             \A x \in S : copyOf'[x] \in S /\ (x \in DOMAIN Around => Around[x] \in S)
      PROVE  /\ \A x \in S : copyOf[x] \in S /\ (x \in DOMAIN Around => Around[x] \in S)
             /\ j \in S => i \in S
  BY <1>1, <1>2
<1> QED
  BY <1>2 DEF Lineage

(* Each step of a frame leaves caches where they are, or puts one of its own use. *)
LEMMA StepOwns ==
  ASSUME IInv, Owns, NEW f \in Frames, Step(f)
  PROVE  Owns'
<1> USE DEF IInv, TypeOK
<1>1. UNCHANGED copyOf
  BY DEF Step, Call, Look, Enter, LookAgain, Create, Leave, CallCache, BodyEnds, Return
<1>2. ASSUME UNCHANGED <<cacheAt, made, address, past>> PROVE Owns'
  BY <1>1, <1>2, LineageKept DEF Owns
<1>3. CASE Create(f) /\ made' # made
  <2>1. /\ made' = Append(made, use[f]) /\ UNCHANGED <<address, past>>
        /\ cacheAt' = [cacheAt EXCEPT ![Place(use[f])] = Len(made')]
        /\ use[f] \in Uses
    BY <1>3 DEF Create, Live
  <2>2. PICK s \in Seq(Uses) : s = made
    OBVIOUS
  <2>3. PICK u \in Uses : u = use[f]
    BY <2>1
  <2>4. /\ Len(made') = Len(s) + 1 /\ made'[Len(s) + 1] = u
        /\ \A n \in 1 .. Len(s) : made'[n] = s[n]
    BY <2>1, <2>2, <2>3
  <2> SUFFICES ASSUME NEW p \in Instances \X Addresses, cacheAt'[p] # NoCache
               PROVE  /\ cacheAt'[p] \in 1 .. Len(made')
                      /\ p[2] \in past' \/ address'[made'[cacheAt'[p]].wrapper] = p[2]
                      /\ made'[cacheAt'[p]].receiver \in Lineage(p[1])'
    BY DEF Owns
  <2>5. p \in Places /\ cacheAt \in [Places -> Nat]
    BY DEF Places
  <2>6. CASE p = Place(use[f])
    <3>1. cacheAt'[p] = Len(s) + 1
      BY <2>1, <2>4, <2>5, <2>6
    <3>2. p = <<u.receiver, address[u.wrapper]>>
      BY <2>3, <2>6, CachedAssumption DEF Place
    <3>3. u.receiver \in Lineage(p[1])
      BY <3>2, LineageReaches
    <3>4. Len(s) + 1 \in 1 .. Len(made')
      BY <2>2, <2>4
    <3> QED
      BY <1>1, <2>1, <2>4, <3>1, <3>2, <3>3, <3>4, LineageKept
  <2>7. CASE p # Place(use[f])
    <3>1. cacheAt'[p] = cacheAt[p]
      BY <2>1, <2>5, <2>7
    <3>2. cacheAt[p] \in 1 .. Len(s)
      BY <2>2, <3>1 DEF Owns
    <3>3. made'[cacheAt[p]] = made[cacheAt[p]] /\ cacheAt[p] \in 1 .. Len(made')
      BY <2>2, <2>4, <3>2
    <3> QED
      <4>1. Lineage(p[1])' = Lineage(p[1])
        BY <1>1, LineageKept
      <4>2. /\ p[2] \in past \/ address[made[cacheAt[p]].wrapper] = p[2]
            /\ made[cacheAt[p]].receiver \in Lineage(p[1])
        BY <3>1 DEF Owns
      <4> QED
        BY <2>1, <3>1, <3>3, <4>1, <4>2
  <2> QED
    BY <2>6, <2>7
<1>4. CASE Create(f) /\ made' = made
  <2>1. made' # Append(made, use[f])
    <3>1. use[f] \in Uses
      BY <1>4 DEF Create, Live
    <3> QED
      BY <1>4, <3>1
  <2>2. UNCHANGED <<cacheAt, made, address, past>>
    BY <1>4, <2>1 DEF Create
  <2> QED
    BY <1>2, <2>2
<1>5. CASE \/ Call(f) \/ Look(f) \/ Enter(f) \/ LookAgain(f) \/ Leave(f)
           \/ CallCache(f) \/ BodyEnds(f) \/ Return(f)
  BY <1>2, <1>5 DEF Call, Look, Enter, LookAgain, Leave, CallCache, BodyEnds, Return
<1> QED
  BY <1>3, <1>4, <1>5 DEF Step

(* A copy has the caches of its source. *)
LEMMA CopyOwns ==
  ASSUME IInv, Owns, NEW i \in Instances, NEW j \in Instances, Copy(i, j)
  PROVE  Owns'
<1> SUFFICES ASSUME NEW p \in Instances \X Addresses, cacheAt'[p] # NoCache
             PROVE  /\ cacheAt'[p] \in 1 .. Len(made')
                    /\ p[2] \in past' \/ address'[made'[cacheAt'[p]].wrapper] = p[2]
                    /\ made'[cacheAt'[p]].receiver \in Lineage(p[1])'
  BY DEF Owns
<1>1. p \in Places /\ UNCHANGED <<made, address, past>>
  BY DEF Copy, Places
<1>2. cacheAt'[p] = IF p[1] = j THEN cacheAt[<<i, p[2]>>] ELSE cacheAt[p]
  BY <1>1 DEF Copy
<1>3. CASE p[1] = j
  <2>1. PICK q \in Instances \X Addresses : q = <<i, p[2]>>
    OBVIOUS
  <2>2. cacheAt'[p] = cacheAt[q] /\ q[1] = i /\ q[2] = p[2]
    BY <1>2, <1>3, <2>1
  <2> QED
    BY <1>1, <1>3, <2>2, LineageCopied DEF Owns
<1>4. CASE p[1] # j
  BY <1>1, <1>2, <1>4, LineageCopied DEF Owns
<1> QED
  BY <1>3, <1>4

(* A wrapper that goes leaves its address to the past. *)
LEMMA RedefineOwns ==
  ASSUME IInv, Owns, NEW v \in Wrappers, NEW w \in Wrappers, Redefine(v, w)
  PROVE  Owns'
<1> SUFFICES ASSUME NEW p \in Instances \X Addresses, cacheAt[p] # NoCache
             PROVE  p[2] \in past' \/ address'[made[cacheAt[p]].wrapper] = p[2]
  BY LineageKept DEF Owns, Redefine
<1>1. p[2] \in past \/ address[made[cacheAt[p]].wrapper] = p[2]
  BY DEF Owns
<1>2. CASE p[2] \in past
  BY <1>2 DEF Redefine
<1>3. CASE address[made[cacheAt[p]].wrapper] = p[2]
  <2>1. PICK x \in Wrappers : x = made[cacheAt[p]].wrapper
    <3>1. cacheAt[p] \in 1 .. Len(made) /\ made \in Seq(Uses)
      BY DEF Owns, IInv, TypeOK
    <3>2. made[cacheAt[p]] \in Uses
      BY <3>1
    <3> QED
      BY <3>2 DEF Uses
  <2>2. address[x] = p[2] /\ p[2] # NoAddress
    BY <1>3, <2>1
  <2>3. CASE x = v
    BY <2>2, <2>3 DEF Redefine
  <2>4. CASE x # v
    BY <2>1, <2>2, <2>4 DEF Redefine, IInv, TypeOK
  <2> QED
    BY <2>3, <2>4
<1> QED
  BY <1>1, <1>2, <1>3

(* A cached method, for any number of instances, copies of copies, proxies and
   overrides, returns what its own function returned for its own receiver or one that
   the receiver comes from, until it has the id of a method that is gone. *)
THEOREM ResultsAreOwn == Spec => []ResultIsOwn
<1>1. Init => Owns
  BY DEF Init, Owns, Places
<1>2. IInv /\ Owns /\ [Next]_vars => Owns'
  <2> SUFFICES ASSUME IInv, Owns, [Next]_vars PROVE Owns'
    OBVIOUS
  <2>1. CASE UNCHANGED vars
    BY <2>1, LineageKept DEF vars, Owns
  <2>2. CASE Next
    BY <2>2, StepOwns, CopyOwns, RedefineOwns DEF Next, Step
  <2> QED
    BY <2>1, <2>2
<1>3. IInv /\ Owns => ResultIsOwn
  <2> SUFFICES ASSUME IInv, Owns, NEW f \in Frames, label[f] = "return",
                      use[f].wrapper \in Methods, address[use[f].wrapper] \notin past
               PROVE  /\ made[mine[f]].wrapper = use[f].wrapper
                      /\ made[mine[f]].receiver \in Lineage(use[f].receiver)
    BY DEF ResultIsOwn
  <2>1. PICK u \in LiveUses(address) : u = use[f]
    BY InUse
  <2>2. /\ u.wrapper \in Methods /\ u.receiver \in Instances
        /\ address[u.wrapper] \in Addresses \ past
        /\ mine[f] # NoCache /\ mine[f] = SeenIn(cacheAt, address, u)
    BY <2>1, SeenIsSeenIn, CachedAssumption
       DEF LiveUses, Uses, IInv, OneCache, TypeOK, Wrappers
  <2>3. PICK i \in {u.receiver} \cup {Around[x] : x \in {u.receiver} \cap DOMAIN Around} :
          mine[f] = cacheAt[<<i, address[u.wrapper]>>]
    BY <2>1, <2>2, CachedAssumption DEF SeenIn, PlaceIn, Inner, LiveUses, Uses
  <2>4. i \in Instances /\ Lineage(i) \subseteq Lineage(u.receiver)
    BY <2>2, <2>3, CachedAssumption, LineageReaches
  <2>5. PICK p \in Instances \X Addresses : p = <<i, address[u.wrapper]>>
    BY <2>2, <2>4
  <2>6. /\ mine[f] \in 1 .. Len(made)
        /\ address[made[mine[f]].wrapper] = address[u.wrapper]
        /\ made[mine[f]].receiver \in Lineage(i)
    BY <2>2, <2>3, <2>5 DEF Owns
  <2>7. made[mine[f]].wrapper \in Wrappers
    <3>1. made[mine[f]] \in Uses
      BY <2>6 DEF IInv, TypeOK
    <3> QED
      BY <3>1 DEF Uses
  <2>8. made[mine[f]].wrapper = u.wrapper
    BY <2>2, <2>6, <2>7, CachedAssumption DEF IInv, Live, Wrappers
  <2> QED
    BY <2>1, <2>4, <2>6, <2>8
<1> QED
  BY <1>1, <1>2, <1>3, Invariance, PTL DEF Spec
=============================================================================
