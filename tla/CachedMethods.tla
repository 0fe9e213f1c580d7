---------------------------- MODULE CachedMethods ----------------------------
(***************************************************************************)
(* wrapt.lru_cache (src/src/wrapt/caching.py): a functools.lru_cache for   *)
(* every instance that a decorated method is called on, kept in an         *)
(* attribute of the instance, and one for all in the wrapper of a function,*)
(* class method or static method.  A cache is created on first use: looked *)
(* up, and when missing looked up again and created under a lock of the    *)
(* wrapper.  The attribute is named after the id of the wrapper.           *)
(*                                                                         *)
(* What a cache holds is left to functools: a call runs the body that the  *)
(* cache was created with, or returns what that body returned before for   *)
(* the same arguments.  cache_clear only makes the next call run the body, *)
(* which a call with new arguments does as well.                           *)
(***************************************************************************)
EXTENDS Naturals, Sequences, FiniteSets

CONSTANTS
  Threads, MaxDepth,  \* bound: cached calls from the bodies of cached methods
  MaxCalls,           \* bound: calls in all
  Instances,          \* the objects that methods are called on
  Copies,             \* those of them that do not exist until one is copied
  Frozen,             \* those that take no attributes; None, for a call through the class
  Around,             \* Around[p]: what an instance that is an object proxy wraps
  Methods,            \* the wrappers of methods, of one name
  Shared,             \* the wrappers of functions, class methods and static methods
  Defined,            \* the wrappers there are at first; others replace them
  Addresses, NoAddress, NoOne

ASSUME CachedAssumption ==
  /\ Methods \cap Shared = {} /\ Defined \subseteq Methods \cup Shared
  /\ Copies \cup Frozen \cup DOMAIN Around \subseteq Instances /\ Copies \cap DOMAIN Around = {}
  /\ \A p \in DOMAIN Around : Around[p] \in Instances \ (DOMAIN Around \cup Copies)
  /\ Shared \cap Instances = {}
  /\ NoAddress \notin Addresses /\ NoOne \notin Threads
  /\ MaxDepth \in Nat \ {0} /\ MaxCalls \in Nat

VARIABLES
  cacheAt,  \* the cache in an attribute of an instance, or of a wrapper itself
  made,     \* made[c]: whose bound method cache c calls
  address,  \* address[w]: the id of a wrapper, while it exists
  owner,    \* owner[w]: the thread that holds synchronized(w)
  copyOf,   \* copyOf[i]: what i was copied from
  label,    \* label[f]: where frame f is
  use,      \* use[f]: the wrapper that f calls and the receiver
  mine,     \* mine[f]: the cache that f found or created
  calls,    \* the calls made so far
  past      \* the ids that wrappers had that are gone

vars == <<cacheAt, made, address, owner, copyOf, label, use, mine, calls, past>>

Wrappers == Methods \cup Shared

Frames == Threads \X (1 .. MaxDepth)

NoCache == 0

Uses == [wrapper : Wrappers, receiver : Instances]

NotUsing == [wrapper |-> NoOne, receiver |-> NoOne]

Labels == {"idle", "look", "enter", "lookAgain", "create", "leave", "call", "body", "return"}

(* Mutant: named after the method. *)
PlaceOfName(u) ==
  IF u.wrapper \in Shared THEN <<u.wrapper, NoAddress>>
  ELSE <<u.receiver, CHOOSE a \in Addresses : TRUE>>

(* _self_cache_attr of the receiver, or _self_cache of the wrapper. *)
Place(u) ==
  IF u.wrapper \in Shared THEN <<u.wrapper, NoAddress>> ELSE <<u.receiver, address[u.wrapper]>>

Places == (Instances \X Addresses) \cup (Shared \X {NoAddress})

(* getattr asks what a proxy wraps when the proxy has no such attribute. *)
Seen(u) ==
  IF cacheAt[Place(u)] = NoCache /\ u.receiver \in DOMAIN Around
  THEN cacheAt[Place([u EXCEPT !.receiver = Around[@]])]
  ELSE cacheAt[Place(u)]

Init ==
  /\ cacheAt = [p \in Places |-> NoCache]
  /\ made = <<>>
  /\ address \in [Wrappers -> Addresses \cup {NoAddress}]
  /\ \A w \in Wrappers : address[w] = NoAddress <=> w \notin Defined
  /\ \A v, w \in Defined : v # w => address[v] # address[w]
  /\ owner = [w \in Wrappers |-> NoOne]
  /\ copyOf = [i \in Instances |-> i]
  /\ label = [f \in Frames |-> "idle"]
  /\ use = [f \in Frames |-> NotUsing]
  /\ mine = [f \in Frames |-> NoCache]
  /\ calls = 0 /\ past = {}

Goto(f, l) == label' = [label EXCEPT ![f] = l]

InnerIdle(f) == f[2] < MaxDepth => label[<<f[1], f[2] + 1>>] = "idle"

End(f) ==
  /\ Goto(f, "idle")
  /\ use' = [use EXCEPT ![f] = NotUsing]
  /\ mine' = [mine EXCEPT ![f] = NoCache]

Exists(i) == i \in Copies => copyOf[i] # i

(***************************************************************************)
(* A call of a bound method or function, from a program or from a body:    *)
(* the body of an override calls the method that it overrides.             *)
(***************************************************************************)
Call(f) ==
  /\ label[f] = "idle" /\ calls < MaxCalls
  /\ f[2] > 1 => label[<<f[1], f[2] - 1>>] = "body"
  /\ \E u \in Uses :
       /\ address[u.wrapper] # NoAddress /\ Exists(u.receiver)
       /\ use' = [use EXCEPT ![f] = u]
  /\ calls' = calls + 1
  /\ Goto(f, "look")
  /\ UNCHANGED <<cacheAt, made, address, owner, copyOf, mine, past>>

Look(f) ==
  /\ label[f] = "look"
  /\ mine' = [mine EXCEPT ![f] = Seen(use[f])]
  /\ Goto(f, IF Seen(use[f]) = NoCache THEN "enter" ELSE "call")
  /\ UNCHANGED <<cacheAt, made, address, owner, copyOf, use, calls, past>>

(* with synchronized(parent) *)
Enter(f) ==
  /\ label[f] = "enter" /\ owner[use[f].wrapper] = NoOne
  /\ owner' = [owner EXCEPT ![use[f].wrapper] = f[1]]
  /\ Goto(f, "lookAgain")
  /\ UNCHANGED <<cacheAt, made, address, copyOf, use, mine, calls, past>>

(* Mutant: the first look was enough. *)
LookOnce(f) ==
  /\ label[f] = "lookAgain"
  /\ Goto(f, "create")
  /\ UNCHANGED <<cacheAt, made, address, owner, copyOf, use, mine, calls, past>>

LookAgain(f) ==
  /\ label[f] = "lookAgain"
  /\ mine' = [mine EXCEPT ![f] = Seen(use[f])]
  /\ Goto(f, IF Seen(use[f]) = NoCache THEN "create" ELSE "leave")
  /\ UNCHANGED <<cacheAt, made, address, owner, copyOf, use, calls, past>>

(* The cache calls this receiver's bound method ever after.  A receiver that *)
(* takes no attributes makes setattr raise, out of the lock.                 *)
Create(f) ==
  /\ label[f] = "create"
  /\ IF use[f].receiver \in Frozen /\ use[f].wrapper \in Methods
     THEN /\ owner' = [owner EXCEPT ![use[f].wrapper] = NoOne]
          /\ End(f)
          /\ UNCHANGED <<cacheAt, made>>
     ELSE /\ made' = Append(made, use[f])
          /\ cacheAt' = [cacheAt EXCEPT ![Place(use[f])] = Len(made')]
          /\ mine' = [mine EXCEPT ![f] = Len(made')]
          /\ Goto(f, "leave")
          /\ UNCHANGED <<owner, use>>
  /\ UNCHANGED <<address, copyOf, calls, past>>

Leave(f) ==
  /\ label[f] = "leave"
  /\ owner' = [owner EXCEPT ![use[f].wrapper] = NoOne]
  /\ Goto(f, "call")
  /\ UNCHANGED <<cacheAt, made, address, copyOf, use, mine, calls, past>>

(* cache( *args): functools runs the body or knows the result. *)
CallCache(f) ==
  /\ label[f] = "call"
  /\ Goto(f, "body") \/ Goto(f, "return")
  /\ UNCHANGED <<cacheAt, made, address, owner, copyOf, use, mine, calls, past>>

BodyEnds(f) ==
  /\ label[f] = "body" /\ InnerIdle(f)
  /\ Goto(f, "return")
  /\ UNCHANGED <<cacheAt, made, address, owner, copyOf, use, mine, calls, past>>

Return(f) ==
  /\ label[f] = "return"
  /\ End(f)
  /\ UNCHANGED <<cacheAt, made, address, owner, copyOf, calls, past>>

(***************************************************************************)
(* What else a program does to instances and methods                       *)
(***************************************************************************)
(* copy.copy: the __dict__ of the copy has the same entries. *)
Copy(i, j) ==
  /\ j \in Copies /\ ~Exists(j)
  /\ Exists(i) /\ i \notin Frozen \cup DOMAIN Around
  /\ cacheAt' = [p \in Places |-> IF p[1] = j THEN cacheAt[<<i, p[2]>>] ELSE cacheAt[p]]
  /\ copyOf' = [copyOf EXCEPT ![j] = i]
  /\ UNCHANGED <<made, address, owner, label, use, mine, calls, past>>

(* The method is replaced by another decorated function of its name; the new *)
(* wrapper may get the memory of the old one.                                *)
Redefine(v, w) ==
  /\ address[v] # NoAddress /\ w \notin Defined /\ address[w] = NoAddress
  /\ {v, w} \subseteq Methods
  /\ \A f \in Frames : use[f].wrapper # v
  /\ \E a \in Addresses :
       /\ \A u \in Wrappers \ {v} : address[u] # a
       /\ address' = [address EXCEPT ![v] = NoAddress, ![w] = a]
  /\ past' = past \cup {address[v]}
  /\ UNCHANGED <<cacheAt, made, owner, copyOf, label, use, mine, calls>>

Next ==
  \/ \E f \in Frames : \/ Call(f) \/ Look(f) \/ Enter(f) \/ LookAgain(f) \/ Create(f)
                       \/ Leave(f) \/ CallCache(f) \/ BodyEnds(f) \/ Return(f)
  \/ \E i, j \in Instances : Copy(i, j)
  \/ \E v, w \in Wrappers : Redefine(v, w)

Spec == Init /\ [][Next]_vars

-----------------------------------------------------------------------------
(* The instances that i is a copy of, directly or not, or a proxy around: i is in
   every set from which neither leads out, and so are they. *)
Lineage(i) ==
  {o \in Instances :
     \A S \in SUBSET Instances :
       /\ i \in S
       /\ \A x \in S : copyOf[x] \in S /\ (x \in DOMAIN Around => Around[x] \in S)
       => o \in S}

(* A cached method returns what its own function returned, not that of a method it
   overrides or replaces, and for its own receiver, or one that the receiver is a
   copy of or a proxy around; unless its wrapper got the id of one that is gone. *)
ResultIsOwn ==
  \A f \in Frames :
    LET u == use[f] IN
    label[f] = "return" /\ u.wrapper \in Methods /\ address[u.wrapper] \notin past =>
      /\ made[mine[f]].wrapper = u.wrapper
      /\ made[mine[f]].receiver \in Lineage(u.receiver)

(* However many threads make the first call, all use the one cache that is kept:
   none works on a cache that later calls cannot find. *)
OneCache ==
  \A f \in Frames :
    label[f] \in {"leave", "call", "body", "return"} =>
      mine[f] # NoCache /\ mine[f] = Seen(use[f])
=============================================================================
