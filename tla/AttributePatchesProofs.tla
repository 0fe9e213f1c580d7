----------------------- MODULE AttributePatchesProofs -----------------------
(***************************************************************************)
(* What monkey patches keep without a lock, for any number of threads, of  *)
(* calls in calls, of patches and of classes: permanent ones stay, those   *)
(* for one call go, and those that wait for an import arrive.              *)
(***************************************************************************)
EXTENDS AttributePatches, FiniteSetTheorems, WellFoundedInduction, TLAPS

Busy == {"test", "register", "lookup", "write", "body"}

(* A frame has a job where it is busy with one; nothing is patched before the body
   of the module has been run, once; a hook is called for all that waited. *)
Flow ==
  /\ \A f \in Frames :
       /\ label[f] \in Busy <=> job[f] # NoJob
       /\ label[f] \in {"test", "register"} => job[f].patch \in Permanent
       /\ label[f] = "body" => job[f].patch \in Transient
       /\ label[f] = "load" => module = "found"
       /\ label[f] = "exec" => module = "partial"
  /\ \A f, g \in Frames :
       label[f] \in {"load", "exec"} /\ label[g] \in {"load", "exec"} => f = g
  /\ module # "loaded" =>
       /\ \A p \in Parents : own[p] = Missing
       /\ DOMAIN done = {}
       /\ \A f \in Frames : label[f] \notin {"write", "body", "fire"} /\ firing[f] = <<>>
  /\ module = "loaded" =>
       /\ \A p \in Home \cap Parents : own[p] # Missing
       /\ hooked => pending = <<>>

In(s, k) == \E i \in DOMAIN s : s[i].patch = k

Distinct(s) == \A i, j \in DOMAIN s : s[i].patch = s[j].patch => i = j

Waiting(k) == In(pending, k) \/ \E f \in Frames : In(firing[f], k)

(* A patch is in one place, as it is asked for once: with a frame, or waiting for the
   import, or on its class. *)
OnePlace(k) ==
  /\ \A f, g \in Frames : job[f].patch = k /\ job[g].patch = k => f = g
  /\ (\E f \in Frames : job[f].patch = k) => ~Waiting(k) /\ k \notin DOMAIN done /\ k \in used
  /\ Waiting(k) => k \notin DOMAIN done /\ k \in used /\ k \in Permanent
  /\ k \in DOMAIN done => k \in used

Places ==
  /\ Distinct(pending) /\ \A f \in Frames : Distinct(firing[f])
  /\ \A f, g \in Frames : firing[f] # <<>> => pending = <<>> /\ (firing[g] # <<>> => f = g)
  /\ \A k \in Patches : OnePlace(k)

(* What a frame has found it keeps until it has assigned it. *)
Looked == \A f \in Frames : label[f] \notin {"write", "body"} => original[f] = <<>>

(* Patch k has not been made. *)
Unmade(k) ==
  IF k \in Permanent THEN k \notin DOMAIN done
  ELSE k \notin used \/ \E f \in Frames : label[f] \in {"lookup", "write"} /\ job[f].patch = k

(* Before a patch is made nobody has found it anywhere. *)
Unseen ==
  \A k \in Patches : Unmade(k) =>
    /\ \A p \in Parents : own[p] # Missing => k \notin Range(own[p])
    /\ \A f \in Frames : k \notin Range(original[f])

Once(s, k) == \E i \in DOMAIN s : s[i] = k /\ \A j \in DOMAIN s : s[j] = k => j = i

(* After that, while it is in force, it is on its class, and in what others are about
   to assign there, unless it was made since they looked. *)
Landed ==
  \A k \in Patches \ excused, p \in Parents : InForce(k, p) =>
    /\ own[p] # Missing /\ Once(own[p], k)
    /\ \A f \in Frames :
         label[f] \in {"write", "body"} /\ job[f].parent = p /\ job[f].patch # k =>
           k \in since[f] \/ Once(original[f], k)

(* A transient patch is on a class only during its call, and known to those that
   have found it; its own call has not. *)
Passing ==
  \A k \in Transient \ lingering :
    /\ \A p \in Parents : own[p] # Missing /\ k \in Range(own[p]) =>
         \E f \in Frames : label[f] = "body" /\ job[f] = [patch |-> k, parent |-> p]
    /\ \A f \in Frames : k \in Range(original[f]) => k \in seen[f] /\ job[f].patch # k

(* A deferred patch is not lost on its way. *)
Kept ==
  /\ module = "absent" \/ hooked \/ \A k \in early : ~Waiting(k)
  /\ \A k \in early :
       \/ k \in DOMAIN done \/ Waiting(k)
       \/ \E f \in Frames :
            module = "loaded" /\ label[f] \in {"lookup", "write"} /\ job[f].patch = k

IInv == TypeOK /\ Flow /\ Places /\ Looked /\ Unseen /\ Landed /\ Passing /\ Kept

Action(f) ==
  \/ Wrap(f) \/ WrapDeferred(f) \/ Test(f) \/ Register(f) \/ Lookup(f) \/ Write(f)
  \/ CallWithTransient(f) \/ Restore(f)
  \/ Import(f) \/ Load(f) \/ Exec(f) \/ Fire(f)

-----------------------------------------------------------------------------
USE PatchesAssumption DEF Goto, programVars, history

LEMMA NoJobIsNone ==
  /\ NoJob \notin Jobs
  /\ NoJob.patch \notin Patches
  /\ \A j \in Jobs : j.patch \in Patches /\ j.parent \in Parents
BY DEF NoJob, Jobs, Patches

(* The least of some numbers, without induction: of the intervals from 1 to one of
   them there is one that contains no other. *)
LEMMA MinExists ==
  ASSUME NEW T \in SUBSET Nat, T # {}
  PROVE  Min(T) \in T
<1> DEFINE Upto == {1 .. i : i \in T}
<1>1. Upto \subseteq FiniteSubsetsOf(Nat) /\ Upto # {}
  <2>1. ASSUME NEW i \in T PROVE 1 .. i \in FiniteSubsetsOf(Nat)
    BY FS_Interval DEF FiniteSubsetsOf
  <2> QED
    BY <2>1
<1>2. PICK I \in Upto : \A J \in Upto : <<J, I>> \notin StrictSubsetOrdering(Nat)
  <2> HIDE DEF Upto
  <2> QED
    BY <1>1, WFMin, FS_StrictSubsetOrderingWellFounded
<1>3. PICK m \in T : I = 1 .. m
  OBVIOUS
<1>4. ASSUME NEW i \in T PROVE m <= i
  <2> SUFFICES ASSUME i < m PROVE FALSE
    OBVIOUS
  <2>1. 1 .. i \in Upto /\ 1 .. i \subseteq 1 .. m /\ m \in 1 .. m /\ m \notin 1 .. i
    OBVIOUS
  <2>2. <<1 .. i, I>> \in StrictSubsetOrdering(Nat)
    BY <1>3, <2>1 DEF StrictSubsetOrdering
  <2> QED
    BY <1>2, <2>1, <2>2
<1> QED
  BY <1>4 DEF Min

(* The lookup finds what some class has, the class itself before its bases, and
   finds something when a base has the attribute. *)
LEMMA LookupFinds ==
  ASSUME NEW p \in Parents
  PROVE  /\ Found(p) = Missing \/ \E q \in Parents : own[q] # Missing /\ Found(p) = own[q]
         /\ own[p] # Missing => Found(p) = own[p]
         /\ Found(p) = Missing => \A q \in Range(Mro[p]) : own[q] = Missing
<1>1. Mro[p] \in Seq(Parents) /\ Mro[p] # <<>> /\ Mro[p][1] = p
  <2>1. Range(<<>>) = {}
    BY DEF Range
  <2> QED
    BY <2>1
<1>2. 1 \in DOMAIN Mro[p] /\ DOMAIN Mro[p] \subseteq Nat
  BY <1>1
<1>3. \A i \in DOMAIN Mro[p] : Mro[p][i] \in Parents
  BY <1>1
<1>4. Holders(p) \in SUBSET Nat
  BY <1>2 DEF Holders
<1>5. CASE Holders(p) = {}
  BY <1>1, <1>2, <1>5 DEF Found, Holders, Range
<1>6. CASE Holders(p) # {}
  <2>1. Min(Holders(p)) \in Holders(p)
    BY <1>4, <1>6, MinExists
  <2>2. PICK i \in DOMAIN Mro[p] :
          i = Min(Holders(p)) /\ own[Mro[p][i]] # Missing
    BY <2>1 DEF Holders
  <2>3. Found(p) = own[Mro[p][i]]
    BY <1>6, <2>2 DEF Found
  <2>4. ASSUME own[p] # Missing PROVE i = 1
    <3>1. 1 \in Holders(p) /\ \A j \in Holders(p) : 1 <= j
      BY <1>1, <1>2, <2>4 DEF Holders
    <3>2. \A j \in Holders(p) : i <= j
      BY <2>2, <3>1 DEF Min
    <3> QED
      BY <2>2, <3>1, <3>2, <2>1
  <2> QED
    BY <1>1, <1>3, <2>2, <2>3, <2>4
<1> QED
  BY <1>5, <1>6

LEMMA FoundTyped ==
  ASSUME TypeOK, NEW p \in Parents, Found(p) # Missing
  PROVE  Found(p) \in Seq(Patches)
BY LookupFinds DEF TypeOK

(* The initial state. *)
LEMMA InitEstablishes == Init => IInv
<1> SUFFICES ASSUME Init PROVE IInv
  OBVIOUS
<1>0. Range(done) = {} /\ \A f \in Frames : Range(original[f]) = {}
  BY DEF Init, Range
<1>1. TypeOK
  <2>1. <<>> \in Seq(Patches) /\ <<>> \in Seq(Jobs) /\ DOMAIN done = {}
    BY DEF Init
  <2>2. /\ own \in [Parents -> Seq(Patches) \cup {Missing}]
        /\ pending \in Seq(Jobs) /\ firing \in [Frames -> Seq(Jobs)]
        /\ original \in [Frames -> Seq(Patches)]
    BY <2>1 DEF Init
  <2>3. label \in [Frames -> Labels] /\ job \in [Frames -> Jobs \cup {NoJob}]
    BY DEF Init, Labels
  <2> QED
    BY <1>0, <2>1, <2>2, <2>3 DEF Init, TypeOK
<1>2. Flow
  BY DEF Init, Flow, Busy
<1>3. Places
  BY NoJobIsNone DEF Init, Places, OnePlace, Distinct, Waiting, In
<1>4. Looked /\ Unseen /\ Landed /\ Passing
  BY <1>0 DEF Init, Looked, Unseen, Landed, Passing, InForce
<1>5. Kept
  BY DEF Init, Kept
<1> QED
  BY <1>1, <1>2, <1>3, <1>4, <1>5 DEF IInv

-----------------------------------------------------------------------------
(* A step is one frame's own. *)
LEMMA Elsewhere ==
  ASSUME TypeOK, NEW f \in Frames, Action(f), NEW g \in Frames \ {f}
  PROVE  UNCHANGED <<label[g], job[g], original[g], firing[g], seen[g]>>
<1> USE DEF TypeOK
<1>1. label'[g] = label[g]
  BY DEF Action, Wrap, WrapDeferred, Begin, Test, Register, Lookup, Write, CallWithTransient,
     Restore, Import, Load, Exec, Fire, End
<1>2. job'[g] = job[g]
  BY DEF Action, Wrap, WrapDeferred, Begin, Test, Register, Lookup, Write, CallWithTransient,
     Restore, Import, Load, Exec, Fire, End
<1>3. original'[g] = original[g]
  BY DEF Action, Wrap, WrapDeferred, Begin, Test, Register, Lookup, Write, CallWithTransient,
     Restore, Import, Load, Exec, Fire, End
<1>4. firing'[g] = firing[g]
  BY DEF Action, Wrap, WrapDeferred, Begin, Test, Register, Lookup, Write, CallWithTransient,
     Restore, Import, Load, Exec, Fire, End
<1>5. seen'[g] = seen[g]
  BY DEF Action, Wrap, WrapDeferred, Begin, Test, Register, Lookup, Write, CallWithTransient,
     Restore, Import, Load, Exec, Fire, End
<1> QED
  BY <1>1, <1>2, <1>3, <1>4, <1>5

LEMMA EndTyped ==
  ASSUME TypeOK, NEW f \in Frames, End(f)
  PROVE  /\ job' \in [Frames -> Jobs \cup {NoJob}] /\ job'[f] = NoJob
         /\ original' \in [Frames -> Seq(Patches)] /\ original'[f] = <<>>
         /\ label' \in [Frames -> Labels]
         /\ label'[f] = IF firing[f] # <<>> THEN "fire" ELSE "idle"
<1>1. <<>> \in Seq(Patches)
  OBVIOUS
<1> QED
  BY <1>1 DEF TypeOK, End, Labels

(* A frame in a job has one that says what to do. *)
LEMMA BusyHasJob ==
  ASSUME IInv, NEW f \in Frames, label[f] \in Busy
  PROVE  job[f] \in Jobs /\ job[f].patch \in Patches /\ job[f].parent \in Parents
BY NoJobIsNone DEF IInv, TypeOK, Flow

LEMMA BeginTyped ==
  ASSUME TypeOK, NEW f \in Frames, NEW K \in SUBSET Patches, NEW l \in Labels, Begin(f, K, l)
  PROVE  TypeOK'
<1>1. PICK k \in K \ used, p \in Parents :
        job' = [job EXCEPT ![f] = [patch |-> k, parent |-> p]] /\ used' = used \cup {k}
  BY DEF Begin
<1>2. [patch |-> k, parent |-> p] \in Jobs
  BY DEF Jobs
<1> QED
  BY <1>1, <1>2 DEF TypeOK, Begin

LEMMA KeepsType ==
  ASSUME IInv, NEW f \in Frames, Action(f)
  PROVE  TypeOK'
<1> USE DEF IInv, TypeOK
<1>1. CASE Wrap(f) \/ WrapDeferred(f) \/ CallWithTransient(f)
  <2>1. \E K \in SUBSET Patches : \E l \in Labels : Begin(f, K, l)
    BY <1>1 DEF Wrap, WrapDeferred, CallWithTransient, Patches, Labels
  <2> QED
    BY <2>1, BeginTyped
<1>2. CASE Test(f)
  BY <1>2 DEF Test, Labels
<1>3. CASE Register(f) /\ InModules
  <2>1. job[f] \in Jobs /\ job[f].patch \in Permanent
    BY <1>3, BusyHasJob DEF Register, Flow, Busy
  <2>2. early' \subseteq Permanent
    BY <1>3, <2>1 DEF Register, AskedFor
  <2> QED
    BY <1>3, <2>2 DEF Register, Labels
<1>4. CASE Register(f) /\ ~InModules
  <2>1. job[f] \in Jobs /\ job[f].patch \in Permanent
    BY <1>4, BusyHasJob DEF Register, Flow, Busy
  <2>2. pending' \in Seq(Jobs) /\ early' \subseteq Permanent
    <3>1. pending' = Append(pending, job[f])
      BY <1>4 DEF Register
    <3>2. early' \subseteq early \cup {job[f].patch}
      BY <1>4 DEF Register, AskedFor
    <3> QED
      BY <2>1, <3>1, <3>2
  <2> QED
    BY <1>4, <2>2, EndTyped DEF Register
<1>5. CASE Lookup(f)
  <2>1. CASE End(f) /\ UNCHANGED <<since, seen>>
    BY <1>5, <2>1, EndTyped DEF Lookup
  <2>2. CASE Found(job[f].parent) # Missing
    <3>1. Found(job[f].parent) \in Seq(Patches)
      BY <1>5, <2>2, BusyHasJob, FoundTyped DEF Lookup, Busy
    <3>2. Installed \cap Range(Found(job[f].parent)) \in SUBSET Transient
      BY DEF Installed, Flow
    <3> QED
      <4>1. original' \in [Frames -> Seq(Patches)]
        BY <1>5, <2>2, <3>1 DEF Lookup
      <4>2. since' \in [Frames -> SUBSET Patches] /\ seen' \in [Frames -> SUBSET Transient]
        <5>1. PICK S \in SUBSET Transient : S = Installed \cap Range(Found(job[f].parent))
          BY <3>2
        <5>2. since' = [since EXCEPT ![f] = {}] /\ seen' = [seen EXCEPT ![f] = S]
          BY <1>5, <2>2, <5>1 DEF Lookup
        <5> QED
          BY <5>2
      <4> QED
        BY <1>5, <2>2, <4>1, <4>2 DEF Lookup, Labels
  <2> QED
    BY <1>5, <2>1, <2>2 DEF Lookup
<1>6. CASE Write(f)
  <2>1. job[f].patch \in Patches /\ job[f].parent \in Parents
    BY <1>6, BusyHasJob DEF Write, Busy
  <2>2. <<job[f].patch>> \o original[f] \in Seq(Patches)
    BY <2>1
  <2>3. own' \in [Parents -> Seq(Patches) \cup {Missing}]
    BY <1>6, <2>1, <2>2 DEF Write
  <2>4. excused' \subseteq Patches /\ lingering' \subseteq Transient
    BY <1>6 DEF Write, Disturb
  <2>5. since' \in [Frames -> SUBSET Patches]
    BY <1>6, <2>1 DEF Write
  <2>6. CASE job[f].patch \in Permanent
    <3>1. DOMAIN done' \subseteq Permanent /\ Range(done') \subseteq Parents
      BY <1>6, <2>1, <2>6 DEF Write, Range
    <3> QED
      BY <1>6, <2>3, <2>4, <2>5, <2>6, <3>1, EndTyped DEF Write
  <2>7. CASE job[f].patch \notin Permanent
    BY <1>6, <2>3, <2>4, <2>5, <2>7 DEF Write, Labels
  <2> QED
    BY <2>6, <2>7
<1>7. CASE Restore(f)
  <2>1. own' \in [Parents -> Seq(Patches) \cup {Missing}]
    BY <1>7, BusyHasJob DEF Restore, Busy
  <2>2. excused' \subseteq Patches /\ lingering' \subseteq Transient
    BY <1>7 DEF Restore, Disturb
  <2>3. since' \in [Frames -> SUBSET Patches]
    BY <1>7 DEF Restore
  <2> QED
    BY <1>7, <2>1, <2>2, <2>3, EndTyped DEF Restore
<1>8. CASE Import(f) \/ Load(f)
  BY <1>8 DEF Import, Load, Labels
<1>9. CASE Exec(f)
  <2>1. <<>> \in Seq(Patches) /\ <<>> \in Seq(Jobs)
    OBVIOUS
  <2> QED
    BY <1>9, <2>1 DEF Exec, Labels
<1>10. CASE Fire(f) /\ firing[f] = <<>>
  BY <1>10 DEF Fire, Labels
<1>11. CASE Fire(f) /\ firing[f] # <<>>
  <2>1. Head(firing[f]) \in Jobs /\ Tail(firing[f]) \in Seq(Jobs)
    BY <1>11
  <2> QED
    BY <1>11, <2>1 DEF Fire, Labels
<1> QED
  BY <1>1, <1>2, <1>3, <1>4, <1>5, <1>6, <1>7, <1>8, <1>9, <1>10, <1>11 DEF Action

(* A step of one frame keeps the flow of control if the new label of f fits. *)
LEMMA FlowMoves ==
  ASSUME IInv, NEW f \in Frames, Action(f),
         UNCHANGED <<module, hooked>>,
         label'[f] \in Busy <=> job'[f] # NoJob,
         label'[f] \in {"test", "register"} => job'[f].patch \in Permanent,
         label'[f] = "body" => job'[f].patch \in Transient,
         label'[f] \notin {"load", "exec"},
         module # "loaded" => /\ UNCHANGED own /\ DOMAIN done' = {}
                              /\ label'[f] \notin {"write", "body", "fire"}
                              /\ firing'[f] = <<>>,
         module = "loaded" => /\ \A p \in Home \cap Parents : own'[p] # Missing
                              /\ hooked => pending' = <<>>
  PROVE  Flow'
<1>1. \A g \in Frames \ {f} : UNCHANGED <<label[g], job[g], firing[g]>>
  BY Elsewhere DEF IInv
<1> QED
  BY <1>1 DEF IInv, Flow

LEMMA EndFlows ==
  ASSUME IInv, NEW f \in Frames, Action(f), End(f),
         UNCHANGED <<module, hooked, firing>>,
         module # "loaded" => UNCHANGED <<own, done>>,
         module = "loaded" => /\ \A p \in Home \cap Parents : own'[p] # Missing
                              /\ hooked => pending' = <<>>
  PROVE  Flow'
<1>1. /\ label'[f] = IF firing[f] # <<>> THEN "fire" ELSE "idle"
      /\ job'[f] = NoJob
  BY EndTyped DEF IInv
<1>2. module # "loaded" => firing[f] = <<>> /\ DOMAIN done = {}
  BY DEF IInv, Flow
<1> QED
  BY <1>1, <1>2, FlowMoves DEF Busy

LEMMA KeepsFlow ==
  ASSUME IInv, NEW f \in Frames, Action(f)
  PROVE  Flow'
<1> USE DEF IInv, TypeOK
<1>a. /\ module = "loaded" => /\ \A p \in Home \cap Parents : own[p] # Missing
                              /\ hooked => pending = <<>>
      /\ module # "loaded" => /\ DOMAIN done = {} /\ firing[f] = <<>>
                              /\ label[f] \notin {"write", "body", "fire"}
      /\ label[f] \in Busy <=> job[f] # NoJob
  BY DEF Flow
<1>b. \A s \in Seq(Patches) : s # Missing
  BY DEF Patches
<1>1. ASSUME NEW K \in SUBSET Patches, NEW l \in {"lookup", "test"}, Begin(f, K, l),
             l = "test" => K \subseteq Permanent
      PROVE  Flow'
  <2>1. PICK k \in K, p \in Parents : job' = [job EXCEPT ![f] = [patch |-> k, parent |-> p]]
    BY <1>1 DEF Begin
  <2>2. job'[f] \in Jobs /\ job'[f].patch = k
    BY <2>1 DEF Jobs
  <2> QED
    BY <1>1, <1>a, <2>2, FlowMoves, NoJobIsNone DEF Begin, Busy
<1>2. CASE Wrap(f) \/ WrapDeferred(f) \/ CallWithTransient(f)
  BY <1>1, <1>2 DEF Wrap, WrapDeferred, CallWithTransient, Patches
<1>3. CASE Test(f)
  BY <1>3, <1>a, FlowMoves DEF Test, Flow, Busy
<1>4. CASE Register(f) /\ InModules
  BY <1>4, <1>a, FlowMoves DEF Register, Busy
<1>5. CASE Register(f) /\ ~InModules
  BY <1>5, <1>a, EndFlows DEF Register, InModules
<1>6. CASE Lookup(f)
  <2>1. job[f] \in Jobs /\ job[f].parent \in Parents
    BY <1>6, BusyHasJob DEF Lookup, Busy
  <2>2. CASE Found(job[f].parent) = Missing
    BY <1>6, <1>a, <2>2, EndFlows DEF Lookup
  <2>3. CASE Found(job[f].parent) # Missing
    <3>1. module = "loaded"
      BY <2>1, <2>3, LookupFinds DEF Flow
    <3> QED
      BY <1>6, <1>a, <2>3, <3>1, FlowMoves DEF Lookup, Busy
  <2> QED
    BY <2>2, <2>3
<1>7. CASE Write(f)
  <2>1. job[f] \in Jobs /\ job[f].patch \in Patches /\ job[f].parent \in Parents
    BY <1>7, BusyHasJob DEF Write, Busy
  <2>2. <<job[f].patch>> \o original[f] \in Seq(Patches)
    BY <2>1
  <2>3. module = "loaded" /\ \A p \in Home \cap Parents : own'[p] # Missing
    BY <1>7, <1>a, <1>b, <2>1, <2>2 DEF Write
  <2>4. CASE job[f].patch \in Permanent
    BY <1>7, <1>a, <2>3, <2>4, EndFlows DEF Write
  <2>5. CASE job[f].patch \notin Permanent
    BY <1>7, <1>a, <2>1, <2>3, <2>5, FlowMoves DEF Write, Busy, Patches
  <2> QED
    BY <2>4, <2>5
<1>8. CASE Restore(f)
  <2>1. module = "loaded" /\ \A p \in Home \cap Parents : own'[p] # Missing
    BY <1>8, <1>a, <1>b, BusyHasJob DEF Restore, Busy
  <2> QED
    BY <1>8, <1>a, <2>1, EndFlows DEF Restore
<1>9. CASE Import(f)
  BY <1>9 DEF Import, CanCall, Flow, Busy
<1>10. CASE Load(f)
  BY <1>10 DEF Load, Flow, Busy
<1>11. CASE Exec(f)
  <2>1. /\ module = "partial" /\ label' = [label EXCEPT ![f] = "fire"] /\ UNCHANGED <<job, hooked>>
        /\ module' = "loaded" /\ (hooked => pending' = <<>>)
        /\ label[f] = "exec"
    BY <1>11 DEF Exec, Flow
  <2>2. \A p \in Home \cap Parents : own'[p] # Missing
    <3>1. <<>> \in Seq(Patches)
      OBVIOUS
    <3> QED
      BY <1>11, <1>b, <3>1 DEF Exec
  <2> QED
    BY <2>1, <2>2 DEF Flow, Busy
<1>12. CASE Fire(f) /\ firing[f] = <<>>
  BY <1>12, <1>a, FlowMoves DEF Fire, Busy
<1>13. CASE Fire(f) /\ firing[f] # <<>>
  <2>1. Head(firing[f]) \in Jobs
    BY <1>13
  <2> QED
    BY <1>13, <1>a, <2>1, FlowMoves, NoJobIsNone DEF Fire, Busy
<1> QED
  BY <1>2, <1>3, <1>4, <1>5, <1>6, <1>7, <1>8, <1>9, <1>10, <1>11, <1>12, <1>13 DEF Action

-----------------------------------------------------------------------------
(* Jobs that wait *)

LEMMA NoneWait == Distinct(<<>>) /\ \A k : ~In(<<>>, k)
BY DEF Distinct, In

LEMMA OneMoreWaits ==
  ASSUME NEW s \in Seq(Jobs), NEW j \in Jobs
  PROVE  /\ \A k : In(Append(s, j), k) <=> In(s, k) \/ j.patch = k
         /\ Distinct(s) /\ ~In(s, j.patch) => Distinct(Append(s, j))
<1>1. /\ DOMAIN Append(s, j) = DOMAIN s \cup {Len(s) + 1}
      /\ Append(s, j)[Len(s) + 1] = j
      /\ \A i \in DOMAIN s : Append(s, j)[i] = s[i]
  OBVIOUS
<1>2. PICK a : a = Append(s, j)
  OBVIOUS
<1>3. /\ DOMAIN a = DOMAIN s \cup {Len(s) + 1} /\ a[Len(s) + 1] = j
      /\ \A i \in DOMAIN s : a[i] = s[i]
  BY <1>1, <1>2
<1>4. /\ \A k : In(a, k) <=> In(s, k) \/ j.patch = k
      /\ Distinct(s) /\ ~In(s, j.patch) => Distinct(a)
  BY <1>3 DEF In, Distinct
<1> QED
  BY <1>2, <1>4

LEMMA OneLessWaits ==
  ASSUME NEW s \in Seq(Jobs), s # <<>>
  PROVE  /\ \A k : In(s, k) <=> In(Tail(s), k) \/ Head(s).patch = k
         /\ Distinct(s) => Distinct(Tail(s)) /\ ~In(Tail(s), Head(s).patch)
<1>0. Tail(s) \in Seq(Jobs)
  OBVIOUS
<1>1. PICK r \in Seq(Jobs) : r = Tail(s)
  BY <1>0
<1>2. /\ Len(s) \in Nat \ {0} /\ DOMAIN s = 1 .. Len(s) /\ DOMAIN r = 1 .. (Len(s) - 1)
      /\ Head(s) = s[1] /\ \A i \in DOMAIN r : r[i] = s[i + 1]
  BY <1>1
<1>3. ASSUME NEW k PROVE In(s, k) <=> In(r, k) \/ Head(s).patch = k
  <2>1. ASSUME NEW i \in DOMAIN s, s[i].patch = k, i # 1 PROVE In(r, k)
    <3>1. i - 1 \in DOMAIN r /\ r[i - 1] = s[i]
      BY <1>2, <2>1
    <3> QED
      BY <2>1, <3>1 DEF In
  <2>2. ASSUME NEW i \in DOMAIN r, r[i].patch = k PROVE In(s, k)
    <3>1. i + 1 \in DOMAIN s /\ r[i] = s[i + 1]
      BY <1>2
    <3> QED
      BY <2>2, <3>1 DEF In
  <2>3. Head(s).patch = k => In(s, k)
    BY <1>2 DEF In
  <2> QED
    BY <1>2, <2>1, <2>2, <2>3 DEF In
<1>4. ASSUME Distinct(s) PROVE Distinct(r) /\ ~In(r, Head(s).patch)
  <2>1. \A i \in DOMAIN r : i + 1 \in DOMAIN s /\ r[i] = s[i + 1] /\ i + 1 # 1 /\ 1 \in DOMAIN s
    BY <1>2
  <2>2. ~In(r, Head(s).patch)
    BY <1>2, <1>4, <2>1 DEF In, Distinct
  <2>3. ASSUME NEW i \in DOMAIN r, NEW j \in DOMAIN r, r[i].patch = r[j].patch PROVE i = j
    <3>1. i + 1 = j + 1
      BY <1>4, <2>1, <2>3 DEF Distinct
    <3> QED
      BY <1>2, <3>1
  <2> QED
    BY <2>2, <2>3 DEF Distinct
<1> QED
  BY <1>1, <1>3, <1>4

(* A step that leaves the hooks alone, and f without a patch or with the one it had,
   leaves every other patch in its place. *)
LEMMA StaysPut ==
  ASSUME IInv, NEW f \in Frames, Action(f), NEW k \in Patches, UNCHANGED <<pending, firing>>,
         job'[f].patch = k => job[f].patch = k,
         k \in DOMAIN done' <=> k \in DOMAIN done, used \subseteq used'
  PROVE  OnePlace(k)'
<1>1. \A g \in Frames \ {f} : job'[g] = job[g]
  BY Elsewhere DEF IInv
<1>2. OnePlace(k)
  BY DEF IInv, Places
<1> QED
  BY <1>1, <1>2 DEF OnePlace, Waiting

LEMMA NoHooksMove ==
  ASSUME IInv, UNCHANGED <<pending, firing>>, \A k \in Patches : OnePlace(k)'
  PROVE  Places'
BY DEF IInv, Places

LEMMA BeginKeepsPlaces ==
  ASSUME IInv, NEW f \in Frames, Action(f), NEW K \in SUBSET Patches, NEW l, Begin(f, K, l)
  PROVE  Places'
<1> USE DEF IInv, TypeOK
<1>1. PICK k \in K \ used, p \in Parents :
        job' = [job EXCEPT ![f] = [patch |-> k, parent |-> p]] /\ used' = used \cup {k}
  BY DEF Begin
<1>2. job[f] = NoJob /\ job'[f].patch = k /\ UNCHANGED <<pending, firing, done>>
  BY <1>1 DEF Begin, CanCall, Flow, Busy
<1>3. \A n \in Patches \ {k} : OnePlace(n)'
  BY <1>1, <1>2, StaysPut, NoJobIsNone
<1>4. OnePlace(k)'
  <2>1. OnePlace(k) /\ k \notin used
    BY <1>1 DEF Places
  <2>2. (\A g \in Frames : job[g].patch # k) /\ ~Waiting(k) /\ k \notin DOMAIN done
    BY <2>1 DEF OnePlace
  <2>3. \A g \in Frames : job'[g].patch = k => g = f
    BY <1>1, <2>2
  <2>4. ~Waiting(k)' /\ k \notin DOMAIN done' /\ k \in used'
    BY <1>1, <1>2, <2>2 DEF Waiting
  <2> QED
    BY <2>3, <2>4 DEF OnePlace
<1> QED
  BY <1>2, <1>3, <1>4, NoHooksMove

LEMMA RegisterKeepsPlaces ==
  ASSUME IInv, NEW f \in Frames, Action(f), Register(f), ~InModules
  PROVE  Places'
<1> USE DEF IInv, TypeOK
<1>1. job[f] \in Jobs /\ job[f].patch \in Patches
  BY BusyHasJob DEF Register, Busy
<1>2. /\ pending' = Append(pending, job[f]) /\ UNCHANGED <<firing, done, used>>
      /\ job'[f].patch \notin Patches
      /\ \A g \in Frames \ {f} : job'[g] = job[g]
  BY Elsewhere, EndTyped, NoJobIsNone DEF Register
<1>3. PICK s \in Seq(Jobs), r \in Seq(Jobs), j \in Jobs :
        s = pending /\ j = job[f] /\ r = Append(s, j) /\ r = pending'
  <2>1. Append(pending, job[f]) \in Seq(Jobs)
    BY <1>1
  <2> QED
    BY <1>1, <1>2, <2>1
<1>4. /\ \A k : In(r, k) <=> In(s, k) \/ j.patch = k
      /\ Distinct(s) /\ ~In(s, j.patch) => Distinct(r)
  <2>1. /\ \A k : In(Append(s, j), k) <=> In(s, k) \/ j.patch = k
        /\ Distinct(s) /\ ~In(s, j.patch) => Distinct(Append(s, j))
    BY OneMoreWaits
  <2>2. r = Append(s, j)
    BY <1>3
  <2> QED
    BY <2>1, <2>2, Zenon
<1>5. \A g \in Frames : firing[g] = <<>>
  BY DEF Flow, InModules
<1>6. ~Waiting(j.patch) /\ j.patch \notin DOMAIN done /\ j.patch \in used
      /\ \A g \in Frames : job[g].patch = j.patch => g = f
  BY <1>1, <1>3 DEF Places, OnePlace
<1>7. Distinct(r)
  BY <1>3, <1>4, <1>6 DEF Places, Waiting
<1>8. \A k : Waiting(k)' <=> Waiting(k) \/ k = j.patch
  BY <1>2, <1>3, <1>4 DEF Waiting
<1>9. ASSUME NEW k \in Patches PROVE OnePlace(k)'
  <2>1. OnePlace(k)
    BY DEF Places
  <2>2. CASE k = j.patch
    <3>1. \A g \in Frames : job'[g].patch # k
      BY <1>2, <1>6, <2>2
    <3>2. k \in Permanent
      BY <1>3, <2>2 DEF Register, Flow
    <3> QED
      BY <1>2, <1>6, <1>8, <2>2, <3>1, <3>2 DEF OnePlace
  <2>3. CASE k # j.patch
    BY <1>2, <1>8, <2>1, <2>3 DEF OnePlace
  <2> QED
    BY <2>2, <2>3
<1> QED
  BY <1>2, <1>3, <1>5, <1>7, <1>9 DEF Places

LEMMA WriteKeepsPlaces ==
  ASSUME IInv, NEW f \in Frames, Action(f), Write(f)
  PROVE  Places'
<1> USE DEF IInv, TypeOK
<1>1. job[f] \in Jobs /\ job[f].patch \in Patches /\ UNCHANGED <<pending, firing, used>>
  BY BusyHasJob DEF Write, Busy
<1>2. CASE job[f].patch \in Permanent
  <2>1. job'[f].patch \notin Patches /\ DOMAIN done' = DOMAIN done \cup {job[f].patch}
    BY <1>2, EndTyped, NoJobIsNone DEF Write
  <2>2. \A k \in Patches \ {job[f].patch} : OnePlace(k)'
    BY <1>1, <2>1, StaysPut
  <2>3. OnePlace(job[f].patch)
    BY <1>1 DEF Places
  <2>4. PICK k \in Patches : k = job[f].patch
    BY <1>1
  <2>5. \A g \in Frames : job'[g].patch # k
    <3>1. job'[f].patch # k
      BY <2>1, <2>4
    <3>2. ASSUME NEW g \in Frames \ {f} PROVE job'[g].patch # k
      <4>1. job'[g] = job[g] /\ job[g].patch # k
        BY <2>3, <2>4, Elsewhere DEF OnePlace
      <4> QED
        BY <4>1
    <3> QED
      BY <3>1, <3>2
  <2>6. ~Waiting(k) /\ k \in used
    BY <2>3, <2>4 DEF OnePlace
  <2>7. OnePlace(k)'
    BY <1>1, <2>5, <2>6 DEF OnePlace, Waiting
  <2> QED
    BY <1>1, <2>2, <2>4, <2>7, NoHooksMove
<1>3. CASE job[f].patch \notin Permanent
  <2>1. UNCHANGED <<job, done>>
    BY <1>3 DEF Write
  <2> QED
    BY <1>1, <2>1, StaysPut, NoHooksMove
<1> QED
  BY <1>2, <1>3

(* The hooks that are taken out when the body has been run are to be called. *)
LEMMA ExecMovesHooks ==
  ASSUME IInv, NEW f \in Frames, Exec(f)
  PROVE  /\ \A k : Waiting(k)' <=> Waiting(k)
         /\ UNCHANGED <<job, done, used>> /\ \A g \in Frames \ {f} : firing'[g] = <<>>
         /\ \/ firing'[f] = pending /\ pending' = <<>>
            \/ firing'[f] = <<>> /\ pending' = pending
<1> USE DEF IInv, TypeOK
<1>1. \A g \in Frames : firing[g] = <<>>
  BY DEF Exec, Flow
<1>2. UNCHANGED <<job, done, used>> /\ \A g \in Frames \ {f} : firing'[g] = <<>>
  BY <1>1 DEF Exec
<1>3. \/ hooked /\ firing'[f] = pending /\ pending' = <<>>
      \/ ~hooked /\ firing'[f] = <<>> /\ pending' = pending
  BY DEF Exec
<1>4. \A k : Waiting(k)' <=> Waiting(k)
  <2> SUFFICES ASSUME NEW k PROVE Waiting(k)' <=> Waiting(k)
    OBVIOUS
  <2>1. Waiting(k) <=> In(pending, k)
    BY <1>1, NoneWait DEF Waiting
  <2>2. Waiting(k)' <=> In(pending', k) \/ In(firing'[f], k)
    BY <1>2, NoneWait DEF Waiting
  <2> QED
    BY <1>3, <2>1, <2>2, NoneWait
<1> QED
  BY <1>2, <1>3, <1>4

LEMMA ExecKeepsPlaces ==
  ASSUME IInv, NEW f \in Frames, Exec(f)
  PROVE  Places'
<1> USE ExecMovesHooks DEF IInv
<1>1. ASSUME NEW k \in Patches PROVE OnePlace(k)'
  BY DEF Places, OnePlace
<1>2. Distinct(pending)' /\ \A g \in Frames : Distinct(firing[g])'
  BY NoneWait DEF Places
<1> QED
  BY <1>1, <1>2 DEF Places

(* The hook that is called waits no longer. *)
LEMMA FireMovesHooks ==
  ASSUME IInv, NEW f \in Frames, Action(f), Fire(f), firing[f] # <<>>
  PROVE  /\ \E n : /\ n = job'[f].patch /\ ~Waiting(n)'
                   /\ \A k : Waiting(k) <=> Waiting(k)' \/ n = k
         /\ Distinct(firing'[f])
         /\ UNCHANGED <<pending, done, used>> /\ pending = <<>>
         /\ \A g \in Frames \ {f} : job'[g] = job[g] /\ firing'[g] = <<>>
<1> USE DEF IInv, TypeOK
<1>1. PICK s \in Seq(Jobs), r \in Seq(Jobs), j \in Jobs :
        s = firing[f] /\ r = Tail(s) /\ j = Head(s)
  <2>1. Tail(firing[f]) \in Seq(Jobs) /\ Head(firing[f]) \in Jobs
    OBVIOUS
  <2> QED
    BY <2>1
<1>2. /\ firing'[f] = r /\ job'[f] = j /\ UNCHANGED <<pending, done, used>>
      /\ \A g \in Frames \ {f} : job'[g] = job[g] /\ firing'[g] = firing[g]
  BY <1>1, Elsewhere DEF Fire
<1>3. /\ \A k : In(s, k) <=> In(r, k) \/ j.patch = k
      /\ Distinct(r) /\ ~In(r, j.patch)
  BY <1>1, OneLessWaits DEF Places
<1>4. pending = <<>> /\ \A g \in Frames \ {f} : firing[g] = <<>>
  BY DEF Places
<1>5. \A k : (Waiting(k) <=> In(s, k)) /\ (Waiting(k)' <=> In(r, k))
  <2> SUFFICES ASSUME NEW k PROVE (Waiting(k) <=> In(s, k)) /\ (Waiting(k)' <=> In(r, k))
    OBVIOUS
  <2>1. Waiting(k) <=> In(s, k)
    BY <1>1, <1>4, NoneWait DEF Waiting
  <2>2. /\ pending' = <<>> /\ firing'[f] = r
        /\ \A g \in Frames \ {f} : firing'[g] = <<>>
    BY <1>2, <1>4
  <2>3. Waiting(k)' <=> In(r, k)
    BY <2>2, NoneWait DEF Waiting
  <2> QED
    BY <2>1, <2>3
<1>6. PICK n : n = job'[f].patch
  OBVIOUS
<1>7. ~Waiting(n)'
  BY <1>2, <1>3, <1>5, <1>6
<1> QED
  BY <1>2, <1>3, <1>4, <1>5, <1>6, <1>7

LEMMA FireKeepsPlaces ==
  ASSUME IInv, NEW f \in Frames, Action(f), Fire(f), firing[f] # <<>>
  PROVE  Places'
<1> USE FireMovesHooks DEF IInv
<1>1. PICK n : n = job'[f].patch /\ ~Waiting(n)' /\ \A k : Waiting(k) <=> Waiting(k)' \/ n = k
  OBVIOUS
<1>2. ASSUME NEW k \in Patches PROVE OnePlace(k)'
  <2>1. OnePlace(k) /\ job[f].patch # k
    BY NoJobIsNone DEF Fire, Flow, Busy, Places
  <2>2. CASE k = n
    <3>1. (\A g \in Frames : job[g].patch # k) /\ k \notin DOMAIN done /\ k \in used
      BY <1>1, <2>1, <2>2 DEF OnePlace
    <3>2. \A g \in Frames : job'[g].patch = k => g = f
      BY <3>1
    <3> QED
      BY <1>1, <2>2, <3>1, <3>2 DEF OnePlace
  <2>3. CASE k # n
    <3>1. \A g \in Frames : job'[g].patch = k <=> job[g].patch = k
      BY <1>1, <2>1, <2>3
    <3> QED
      BY <1>1, <2>1, <2>3, <3>1 DEF OnePlace
  <2> QED
    BY <2>2, <2>3
<1>3. \A g \in Frames : Distinct(firing[g])'
  BY NoneWait
<1> QED
  BY <1>2, <1>3, NoneWait DEF Places

LEMMA KeepsPlaces ==
  ASSUME IInv, NEW f \in Frames, Action(f)
  PROVE  Places'
<1> USE DEF IInv, TypeOK
<1>1. CASE Wrap(f) \/ WrapDeferred(f) \/ CallWithTransient(f)
  BY <1>1, BeginKeepsPlaces DEF Wrap, WrapDeferred, CallWithTransient, Patches
<1>2. CASE Test(f) \/ (Register(f) /\ InModules) \/ Import(f) \/ Load(f)
  <2>1. UNCHANGED <<pending, firing, job, done, used>>
    BY <1>2 DEF Test, Register, Import, Load
  <2> QED
    BY <2>1, StaysPut, NoHooksMove
<1>3. CASE Lookup(f) \/ Restore(f)
  <2>1. UNCHANGED <<pending, firing, done, used>> /\ (UNCHANGED job \/ End(f))
    BY <1>3 DEF Lookup, Restore
  <2>2. UNCHANGED job \/ job'[f].patch \notin Patches
    BY <2>1, EndTyped, NoJobIsNone
  <2> QED
    BY <2>1, <2>2, StaysPut, NoHooksMove
<1>4. CASE Fire(f) /\ firing[f] = <<>>
  <2>1. UNCHANGED <<pending, firing, job, done, used>>
    BY <1>4 DEF Fire
  <2> QED
    BY <2>1, StaysPut, NoHooksMove
<1> QED
  BY <1>1, <1>2, <1>3, <1>4, RegisterKeepsPlaces, WriteKeepsPlaces, ExecKeepsPlaces,
     FireKeepsPlaces DEF Action

-----------------------------------------------------------------------------
(* What is found and assigned *)

LEMMA RangeOfNone == Range(<<>>) = {}
BY DEF Range

LEMMA OnTop ==
  ASSUME NEW s \in Seq(Patches), NEW k \in Patches
  PROVE  /\ <<k>> \o s \in Seq(Patches) /\ <<k>> \o s # Missing
         /\ Range(<<k>> \o s) = {k} \cup Range(s)
         /\ k \notin Range(s) => Once(<<k>> \o s, k)
         /\ \A n : n # k /\ Once(s, n) => Once(<<k>> \o s, n)
<1>0. <<k>> \o s \in Seq(Patches)
  OBVIOUS
<1>1. PICK r \in Seq(Patches) : r = <<k>> \o s
  BY <1>0
<1>2. /\ Len(r) = Len(s) + 1 /\ DOMAIN r = 1 .. Len(r) /\ DOMAIN s = 1 .. Len(s)
      /\ Len(s) \in Nat /\ r[1] = k /\ \A i \in DOMAIN s : r[i + 1] = s[i]
  BY <1>1
<1>3. /\ 1 \in DOMAIN r /\ \A i \in DOMAIN s : i + 1 \in DOMAIN r
      /\ \A i \in DOMAIN r : i = 1 \/ (i - 1 \in DOMAIN s /\ r[i] = s[i - 1])
  <2>1. ASSUME NEW i \in DOMAIN r, i # 1 PROVE i - 1 \in DOMAIN s /\ r[i] = s[i - 1]
    <3>1. i - 1 \in DOMAIN s /\ (i - 1) + 1 = i
      BY <1>2, <2>1
    <3> QED
      BY <1>2, <3>1
  <2> QED
    BY <1>2, <2>1
<1>4. Range(r) = {k} \cup Range(s)
  BY <1>2, <1>3 DEF Range
<1>5. ASSUME k \notin Range(s) PROVE Once(r, k)
  BY <1>2, <1>3, <1>5 DEF Once, Range
<1>6. ASSUME NEW n, n # k, Once(s, n) PROVE Once(r, n)
  <2>1. PICK i \in DOMAIN s : s[i] = n /\ \A j \in DOMAIN s : s[j] = n => j = i
    BY <1>6 DEF Once
  <2>2. i + 1 \in DOMAIN r /\ r[i + 1] = n
    BY <1>2, <1>3, <2>1
  <2>3. ASSUME NEW j \in DOMAIN r, r[j] = n PROVE j = i + 1
    <3>1. j - 1 \in DOMAIN s /\ s[j - 1] = n
      BY <1>2, <1>3, <1>6, <2>3
    <3> QED
      BY <1>2, <2>1, <3>1
  <2> QED
    BY <2>2, <2>3 DEF Once
<1>7. <<k>> \o s # Missing
  BY <1>0 DEF Patches
<1> QED
  BY <1>0, <1>1, <1>4, <1>5, <1>6, <1>7

(* Steps that neither look up nor assign. *)
Quiet(f) ==
  /\ UNCHANGED <<own, done, since, seen, excused, lingering, original>>
  /\ label[f] \notin {"write", "body"} /\ label'[f] \notin {"write", "body"}

LEMMA QuietSteps ==
  ASSUME IInv, NEW f \in Frames, Action(f)
  PROVE  Quiet(f) \/ Lookup(f) \/ Write(f) \/ Restore(f) \/ Exec(f)
<1> USE DEF IInv, TypeOK, Quiet
<1>1. CASE Wrap(f) \/ WrapDeferred(f) \/ CallWithTransient(f)
  BY <1>1 DEF Wrap, WrapDeferred, CallWithTransient, Begin, CanCall
<1>2. CASE Test(f) \/ Import(f) \/ Load(f) \/ Fire(f)
  BY <1>2 DEF Test, Import, Load, Fire, CanCall
<1>3. CASE Register(f) /\ InModules
  BY <1>3 DEF Register
<1>4. CASE Register(f) /\ ~InModules
  <2>1. original[f] = <<>> /\ End(f)
    BY <1>4 DEF Register, Looked
  <2>2. original' = original
    BY <2>1 DEF End
  <2> QED
    BY <1>4, <2>1, <2>2, EndTyped DEF Register
<1> QED
  BY <1>1, <1>2, <1>3, <1>4 DEF Action

(* A lookup that finds nothing changes nothing but the frame's own job. *)
LEMMA LookupFails ==
  ASSUME IInv, NEW f \in Frames, Lookup(f), Found(job[f].parent) = Missing
  PROVE  Quiet(f)
<1> USE DEF IInv, TypeOK
<1>1. original[f] = <<>> /\ End(f) /\ UNCHANGED <<own, done, since, seen, excused, lingering>>
  BY DEF Lookup, Looked
<1>2. original' = original
  BY <1>1 DEF End
<1> QED
  BY <1>1, <1>2, EndTyped DEF Lookup, Quiet

(* One that finds something. *)
LEMMA LookupSucceeds ==
  ASSUME IInv, NEW f \in Frames, Lookup(f), Found(job[f].parent) # Missing
  PROVE  \E s \in Seq(Patches), q \in Parents :
           /\ original'[f] = s /\ s = own[q] /\ own[q] # Missing
           /\ own[job[f].parent] # Missing => s = own[job[f].parent]
           /\ label'[f] = "write" /\ seen'[f] = Installed \cap Range(s)
           /\ UNCHANGED <<own, done, used, excused, lingering, job>> /\ job[f] \in Jobs
           /\ \A g \in Frames \ {f} : UNCHANGED <<label[g], original[g], seen[g], since[g]>>
<1> USE DEF IInv, TypeOK
<1>1. job[f] \in Jobs /\ job[f].parent \in Parents
  BY BusyHasJob DEF Lookup, Busy
<1>2. PICK s \in Seq(Patches), q \in Parents :
        /\ s = Found(job[f].parent) /\ s = own[q] /\ own[q] # Missing
        /\ own[job[f].parent] # Missing => s = own[job[f].parent]
  BY <1>1, LookupFinds, FoundTyped
<1>3. PICK S : S = Installed \cap Range(s)
  OBVIOUS
<1>4. /\ original' = [original EXCEPT ![f] = s] /\ seen' = [seen EXCEPT ![f] = S]
      /\ since' = [since EXCEPT ![f] = {}] /\ label' = [label EXCEPT ![f] = "write"]
      /\ UNCHANGED <<own, done, used, excused, lingering, job>>
  BY <1>2, <1>3 DEF Lookup
<1> QED
  BY <1>1, <1>2, <1>3, <1>4

(* What Write and Restore put on f's target, and what they disturb. *)
LEMMA Assigns ==
  ASSUME IInv, NEW f \in Frames, Write(f) \/ Restore(f)
  PROVE  /\ own'[job[f].parent] =
              IF Write(f) THEN <<job[f].patch>> \o original[f] ELSE original[f]
         /\ own'[job[f].parent] # Missing
         /\ \A p \in Parents \ {job[f].parent} : own'[p] = own[p]
         /\ Disturb(f) /\ UNCHANGED <<used, seen>>
         /\ job[f] \in Jobs /\ job[f].patch \in Patches /\ job[f].parent \in Parents
         /\ original[f] \in Seq(Patches)
<1> USE DEF IInv, TypeOK
<1>1. /\ job[f] \in Jobs /\ job[f].patch \in Patches /\ job[f].parent \in Parents
      /\ original[f] \in Seq(Patches) /\ original[f] # Missing
  <2>1. label[f] \in Busy
    BY DEF Write, Restore, Busy
  <2> QED
    BY <2>1, BusyHasJob DEF Patches
<1>2. CASE Write(f)
  BY <1>1, <1>2, OnTop DEF Write
<1>3. CASE ~Write(f)
  BY <1>1, <1>3 DEF Restore
<1> QED
  BY <1>1, <1>2, <1>3

(* How an assignment leaves the frames. *)
LEMMA AfterWrite ==
  ASSUME IInv, NEW f \in Frames, Write(f)
  PROVE  /\ job[f].patch \in Permanent =>
              /\ label'[f] \notin {"write", "body"} /\ original'[f] = <<>>
              /\ DOMAIN done' = DOMAIN done \cup {job[f].patch}
              /\ done'[job[f].patch] = job[f].parent
              /\ \A k \in DOMAIN done \ {job[f].patch} : done'[k] = done[k]
         /\ job[f].patch \notin Permanent =>
              /\ label'[f] = "body" /\ UNCHANGED <<original, done, job>>
         /\ \A g \in Frames \ {f} : since[g] \subseteq since'[g]
         /\ \A g \in Frames \ {f} :
              job[g].parent = job[f].parent => job[f].patch \in since'[g]
<1> USE DEF IInv, TypeOK
<1>0. /\ \A g \in Frames \ {f} : since[g] \subseteq since'[g]
      /\ \A g \in Frames \ {f} :
           job[g].parent = job[f].parent => job[f].patch \in since'[g]
  BY DEF Write
<1>1. CASE job[f].patch \in Permanent
  <2>1. label'[f] \notin {"write", "body"} /\ original'[f] = <<>>
    BY <1>1, EndTyped DEF Write
  <2>2. done' = [j \in DOMAIN done \cup {job[f].patch} |->
                   IF j = job[f].patch THEN job[f].parent ELSE done[j]]
    BY <1>1 DEF Write
  <2> QED
    BY <1>0, <1>1, <2>1, <2>2
<1>2. CASE job[f].patch \notin Permanent
  BY <1>0, <1>2 DEF Write
<1> QED
  BY <1>1, <1>2

LEMMA AfterRestore ==
  ASSUME IInv, NEW f \in Frames, Restore(f)
  PROVE  /\ label'[f] \notin {"write", "body"} /\ original'[f] = <<>>
         /\ UNCHANGED done
         /\ \A g \in Frames \ {f} : since'[g] = since[g] \ {job[f].patch}
BY EndTyped DEF IInv, Restore

LEMMA KeepsLooked ==
  ASSUME IInv, NEW f \in Frames, Action(f)
  PROVE  Looked'
<1> USE DEF IInv
<1>1. \A g \in Frames \ {f} : UNCHANGED <<label[g], original[g]>>
  BY Elsewhere
<1>2. label'[f] \notin {"write", "body"} => original'[f] = <<>>
  <2>1. CASE Quiet(f)
    BY <2>1 DEF Quiet, Looked
  <2>2. CASE Lookup(f)
    BY <2>2, LookupFails, LookupSucceeds DEF Quiet, Looked
  <2>3. CASE Write(f)
    BY <2>3, AfterWrite
  <2>4. CASE Restore(f)
    BY <2>4, AfterRestore
  <2>5. CASE Exec(f)
    BY <2>5 DEF Exec, Looked, TypeOK
  <2> QED
    BY <2>1, <2>2, <2>3, <2>4, <2>5, QuietSteps
<1> QED
  BY <1>1, <1>2 DEF Looked

LEMMA AfterExec ==
  ASSUME IInv, NEW f \in Frames, Exec(f)
  PROVE  /\ \A p \in Parents : own'[p] # Missing => own'[p] = <<>>
         /\ UNCHANGED <<original, job, done, used, since, seen, excused, lingering>>
         /\ DOMAIN done = {}
         /\ label[f] = "exec" /\ label'[f] = "fire" /\ \A g \in Frames \ {f} : label'[g] = label[g]
         /\ \A g \in Frames : label[g] \notin {"write", "body"}
BY DEF IInv, TypeOK, Flow, Exec

(* A patch that is made stays made. *)
LEMMA StaysDone ==
  ASSUME IInv, NEW f \in Frames, Action(f)
  PROVE  /\ DOMAIN done \subseteq DOMAIN done'
         /\ \A k \in DOMAIN done : done'[k] = done[k]
<1>1. CASE UNCHANGED done
  BY <1>1
<1>2. CASE Write(f) /\ done' # done
  <2>1. job[f].patch \in Permanent
    BY <1>2 DEF Write
  <2>2. done' = [j \in DOMAIN done \cup {job[f].patch} |->
                   IF j = job[f].patch THEN job[f].parent ELSE done[j]]
    BY <1>2, <2>1 DEF Write
  <2>3. job[f].patch \notin DOMAIN done
    <3>1. label[f] \in Busy
      BY <1>2 DEF Write, Busy
    <3> QED
      BY <3>1, BusyHasJob DEF IInv, Places, OnePlace
  <2> QED
    BY <2>2, <2>3
<1>3. Write(f) \/ UNCHANGED done
  <2>1. CASE Lookup(f)
    BY <2>1 DEF Lookup
  <2>2. CASE Restore(f)
    BY <2>2 DEF Restore
  <2>3. CASE Exec(f)
    BY <2>3 DEF Exec
  <2> QED
    BY <2>1, <2>2, <2>3, QuietSteps DEF Quiet
<1> QED
  BY <1>1, <1>2, <1>3

(* A patch that is made does not become one that has not been. *)
LEMMA StaysMade ==
  ASSUME IInv, NEW f \in Frames, Action(f), NEW k \in Patches, Unmade(k)'
  PROVE  Unmade(k) /\ (Write(f) => job[f].patch # k)
<1> USE DEF IInv, TypeOK
<1>1. CASE k \in Permanent
  <2>1. k \notin DOMAIN done'
    BY <1>1 DEF Unmade
  <2>2. k \notin DOMAIN done
    BY <2>1, StaysDone
  <2>3. ASSUME Write(f), job[f].patch = k PROVE FALSE
    <3>1. DOMAIN done' = DOMAIN done \cup {job[f].patch}
      BY <1>1, <2>3, AfterWrite
    <3> QED
      BY <2>1, <2>3, <3>1
  <2> QED
    BY <1>1, <2>2, <2>3 DEF Unmade
<1>2. CASE k \notin Permanent
  <2>0. OnePlace(k)
    BY DEF Places
  <2>1. used \subseteq used'
    BY DEF Action, Wrap, WrapDeferred, CallWithTransient, Begin, Test, Register, Lookup,
           Write, Restore, Import, Load, Exec, Fire
  <2>2. CASE k \notin used'
    <3>1. k \notin used
      BY <2>1, <2>2
    <3> QED
      BY <1>2, <2>0, <3>1 DEF Unmade, OnePlace
  <2>3. CASE k \in used'
    <3>1. PICK g \in Frames : label'[g] \in {"lookup", "write"} /\ job'[g].patch = k
      BY <1>2, <2>3 DEF Unmade
    <3>2. CASE g # f
      <4>1. UNCHANGED <<label[g], job[g]>>
        BY <3>2, Elsewhere
      <4>2. label[g] \in {"lookup", "write"} /\ job[g].patch = k
        BY <3>1, <4>1
      <4>3. job[f].patch # k
        BY <2>0, <3>2, <4>2 DEF OnePlace
      <4> QED
        BY <1>2, <4>2, <4>3 DEF Unmade
    <3>3. CASE g = f
      <4>1. Wrap(f) \/ WrapDeferred(f) \/ CallWithTransient(f) \/ Lookup(f)
            \/ Test(f) \/ Register(f) \/ Fire(f)
        <5>1. CASE Write(f)
          <6>1. job[f].patch \in Permanent => label'[f] \notin {"lookup", "write"}
            BY <5>1, EndTyped DEF Write
          <6>2. job[f].patch \notin Permanent => label'[f] = "body"
            BY <5>1, AfterWrite
          <6> QED
            BY <3>1, <3>3, <6>1, <6>2
        <5>2. CASE Restore(f)
          BY <3>1, <3>3, <5>2, EndTyped DEF Restore
        <5>3. CASE Import(f) \/ Load(f) \/ Exec(f)
          BY <3>1, <3>3, <5>3 DEF Import, Load, Exec
        <5> QED
          BY <5>1, <5>2, <5>3 DEF Action
      <4>2. CASE Wrap(f) \/ WrapDeferred(f) \/ CallWithTransient(f)
        <5>1. \E K \in SUBSET Patches : \E l : Begin(f, K, l)
          BY <4>2 DEF Wrap, WrapDeferred, CallWithTransient, Patches
        <5>2. PICK n \in Patches \ used, p \in Parents :
                job' = [job EXCEPT ![f] = [patch |-> n, parent |-> p]]
          BY <5>1 DEF Begin
        <5>3. n = k
          BY <3>1, <3>3, <5>2
        <5>4. label[f] = "idle"
          BY <4>2 DEF Wrap, WrapDeferred, CallWithTransient, Begin, CanCall
        <5> QED
          BY <1>2, <5>2, <5>3, <5>4 DEF Unmade, Write
      <4>3. CASE Lookup(f)
        <5>1. UNCHANGED job
          <6>1. CASE End(f)
            BY <3>1, <3>3, <6>1, EndTyped
          <6> QED
            BY <4>3, <6>1 DEF Lookup
        <5> QED
          BY <1>2, <3>1, <3>3, <4>3, <5>1 DEF Unmade, Lookup, Write
      <4>4. CASE Test(f)
        <5>1. k \in Permanent
          BY <3>1, <3>3, <4>4 DEF Test, Flow
        <5> QED
          BY <1>2, <5>1
      <4>5. CASE Register(f)
        <5>1. CASE End(f)
          BY <3>1, <3>3, <5>1, EndTyped
        <5>2. CASE ~End(f)
          BY <1>2, <3>1, <3>3, <4>5, <5>2 DEF Register, Flow
        <5> QED
          BY <5>1, <5>2
      <4>6. CASE Fire(f)
        <5>1. firing[f] # <<>>
          BY <3>1, <3>3, <4>6 DEF Fire
        <5>2. Waiting(k)
          BY <3>1, <3>3, <4>6, <5>1, FireMovesHooks
        <5> QED
          BY <1>2, <2>0, <5>2 DEF OnePlace
      <4> QED
        BY <4>1, <4>2, <4>3, <4>4, <4>5, <4>6
    <3> QED
      BY <3>2, <3>3
  <2> QED
    BY <2>2, <2>3
<1> QED
  BY <1>1, <1>2

LEMMA KeepsUnseen ==
  ASSUME IInv, NEW f \in Frames, Action(f)
  PROVE  Unseen'
<1>1. \A g \in Frames \ {f} : original'[g] = original[g]
  BY Elsewhere DEF IInv
<1> SUFFICES ASSUME NEW k \in Patches, Unmade(k)'
             PROVE  /\ \A p \in Parents : own'[p] # Missing => k \notin Range(own'[p])
                    /\ \A g \in Frames : k \notin Range(original'[g])
  BY DEF Unseen
<1>2. Unmade(k) /\ (Write(f) => job[f].patch # k)
  BY StaysMade
<1>3. /\ \A p \in Parents : own[p] # Missing => k \notin Range(own[p])
      /\ \A g \in Frames : k \notin Range(original[g])
  BY <1>2 DEF IInv, Unseen
<1>4. CASE Quiet(f)
  BY <1>3, <1>4 DEF Quiet
<1>5. CASE Lookup(f)
  <2>1. CASE Found(job[f].parent) = Missing
    BY <1>4, <1>5, <2>1, LookupFails
  <2>2. CASE Found(job[f].parent) # Missing
    <3>1. UNCHANGED own /\ k \notin Range(original'[f])
      BY <1>3, <1>5, <2>2, LookupSucceeds
    <3> QED
      BY <1>1, <1>3, <3>1
  <2> QED
    BY <2>1, <2>2
<1>6. CASE Write(f)
  <2>1. k \notin Range(own'[job[f].parent])
    <3>1. PICK s \in Seq(Patches), n \in Patches : s = original[f] /\ n = job[f].patch
      BY <1>6, Assigns
    <3>2. own'[job[f].parent] = <<n>> \o s
      BY <1>6, <3>1, Assigns
    <3>3. Range(<<n>> \o s) = {n} \cup Range(s)
      BY OnTop
    <3> QED
      BY <1>2, <1>3, <1>6, <3>1, <3>2, <3>3
  <2>2. k \notin Range(original'[f])
    BY <1>3, <1>6, AfterWrite, RangeOfNone
  <2>3. \A p \in Parents \ {job[f].parent} : own'[p] = own[p]
    BY <1>6, Assigns
  <2> QED
    BY <1>1, <1>3, <2>1, <2>2, <2>3
<1>7. CASE Restore(f)
  <2>1. own'[job[f].parent] = original[f]
    BY <1>7, Assigns DEF Write, Restore
  <2>2. k \notin Range(original'[f])
    BY <1>7, AfterRestore, RangeOfNone
  <2>3. \A p \in Parents \ {job[f].parent} : own'[p] = own[p]
    BY <1>7, Assigns
  <2> QED
    BY <1>1, <1>3, <2>1, <2>2, <2>3
<1>8. CASE Exec(f)
  BY <1>3, <1>8, AfterExec, RangeOfNone
<1> QED
  BY <1>4, <1>5, <1>6, <1>7, <1>8, QuietSteps

(* A patch in force was so before, or is the one that is being assigned. *)
LEMMA WhatIsInForce ==
  ASSUME IInv, NEW f \in Frames, Action(f), NEW k \in Patches, NEW p \in Parents,
         InForce(k, p)'
  PROVE  IF Write(f) /\ k = job[f].patch
         THEN p = job[f].parent /\ Unmade(k)
         ELSE InForce(k, p) /\ (Write(f) \/ Restore(f) => job[f].patch # k)
<1>0. OnePlace(k)
  BY DEF IInv, Places
<1>1. CASE Write(f) /\ k = job[f].patch
  <2>0. /\ k \in Permanent => done'[k] = job[f].parent
        /\ k \notin Permanent => UNCHANGED <<done, job>>
    BY <1>1, AfterWrite
  <2>1. label[f] = "write"
    BY <1>1 DEF Write
  <2>2. k \notin DOMAIN done /\ \A g \in Frames : job[g].patch = k => g = f
    BY <1>0, <1>1 DEF OnePlace
  <2>3. Unmade(k)
    BY <1>1, <2>1, <2>2 DEF Unmade
  <2>4. CASE k \in DOMAIN done' /\ done'[k] = p
    BY <1>1, <2>0, <2>2, <2>3, <2>4
  <2>5. CASE \E g \in Frames : label'[g] = "body" /\ job'[g].patch = k /\ job'[g].parent = p
    <3>1. PICK g \in Frames : label'[g] = "body" /\ job'[g].patch = k /\ job'[g].parent = p
      BY <2>5
    <3>2. g = f
      <4>1. g # f => job[g] = job'[g]
        BY Elsewhere DEF IInv
      <4> QED
        BY <2>2, <3>1, <4>1
    <3>3. k \notin Permanent
      BY <1>1, <3>1, <3>2, AfterWrite
    <3> QED
      BY <1>1, <2>0, <2>3, <3>1, <3>2, <3>3
  <2> QED
    BY <1>1, <2>3, <2>4, <2>5 DEF InForce
<1>2. CASE ~(Write(f) /\ k = job[f].patch)
  <2>1. CASE k \in DOMAIN done' /\ done'[k] = p
    <3>1. k \in DOMAIN done
      <4>1. CASE Write(f)
        <5>1. PICK n : n = job[f].patch
          OBVIOUS
        <5>2. n \in Permanent => DOMAIN done' = DOMAIN done \cup {n}
          BY <4>1, <5>1, AfterWrite
        <5>3. n \notin Permanent => done' = done
          BY <4>1, <5>1, AfterWrite
        <5> QED
          BY <1>2, <2>1, <4>1, <5>1, <5>2, <5>3
      <4>2. CASE ~Write(f)
        BY <2>1, <4>2, LookupFails, LookupSucceeds, AfterRestore, AfterExec, QuietSteps
           DEF Quiet
      <4> QED
        BY <4>1, <4>2
    <3>2. done[k] = p /\ job[f].patch # k
      BY <1>0, <2>1, <3>1, StaysDone DEF OnePlace
    <3> QED
      BY <1>2, <3>1, <3>2 DEF InForce
  <2>2. CASE \E g \in Frames : label'[g] = "body" /\ job'[g].patch = k /\ job'[g].parent = p
    <3>1. PICK g \in Frames : label'[g] = "body" /\ job'[g].patch = k /\ job'[g].parent = p
      BY <2>2
    <3>2. g # f
      <4>1. ASSUME label'[f] = "body" PROVE Write(f) /\ job'[f].patch = job[f].patch
        <5>1. Write(f)
          BY <4>1, LookupFails, LookupSucceeds, AfterRestore, AfterExec, QuietSteps DEF Quiet
        <5> QED
          BY <4>1, <5>1, AfterWrite
      <4> QED
        BY <1>2, <3>1, <4>1
    <3>3. label[g] = "body" /\ job[g].patch = k /\ job[g].parent = p
      <4>1. UNCHANGED <<label[g], job[g]>>
        BY <3>2, Elsewhere DEF IInv
      <4> QED
        BY <3>1, <4>1
    <3>4. job[f].patch # k
      BY <1>0, <3>2, <3>3 DEF OnePlace
    <3> QED
      BY <1>2, <3>3, <3>4 DEF InForce
  <2> QED
    BY <2>1, <2>2 DEF InForce
<1> QED
  BY <1>1, <1>2

(* A patch in force outlasts what f assigns. *)
LEMMA OutlastsAssignment ==
  ASSUME IInv, NEW f \in Frames, Write(f) \/ Restore(f), NEW k \in Patches, NEW p \in Parents,
         InForce(k, p), job[f].patch # k, k \notin excused'
  PROVE  /\ own'[p] # Missing /\ Once(own'[p], k)
         /\ job[f].parent = p => Once(original[f], k)
<1>1. k \notin excused /\ k \notin since[f]
  <2>1. excused' = excused \cup since[f]
    BY Assigns DEF Disturb
  <2> QED
    BY <2>1
<1>2. own[p] # Missing /\ Once(own[p], k)
  BY <1>1 DEF IInv, Landed
<1>3. CASE p # job[f].parent
  <2>1. own'[p] = own[p]
    BY <1>3, Assigns
  <2> QED
    BY <1>2, <1>3, <2>1
<1>4. CASE p = job[f].parent
  <2>1. label[f] \in {"write", "body"}
    BY DEF Write, Restore
  <2>2. Once(original[f], k)
    BY <1>1, <1>4, <2>1 DEF IInv, Landed
  <2>3. PICK s \in Seq(Patches), n \in Patches : s = original[f] /\ n = job[f].patch
    BY Assigns
  <2>4. Once(<<n>> \o s, k)
    BY <2>2, <2>3, OnTop
  <2>5. own'[job[f].parent] # Missing
    BY Assigns
  <2>6. own'[job[f].parent] = IF Write(f) THEN <<n>> \o s ELSE s
    BY <2>3, Assigns
  <2> QED
    BY <1>4, <2>2, <2>3, <2>4, <2>5, <2>6
<1> QED
  BY <1>3, <1>4

LEMMA KeepsLanded ==
  ASSUME IInv, NEW f \in Frames, Action(f)
  PROVE  Landed'
<1>1. \A g \in Frames \ {f} : UNCHANGED <<label[g], job[g], original[g]>>
  BY Elsewhere DEF IInv
<1> SUFFICES ASSUME NEW k \in Patches, k \notin excused', NEW p \in Parents, InForce(k, p)'
             PROVE  /\ own'[p] # Missing /\ Once(own'[p], k)
                    /\ \A g \in Frames :
                         /\ label'[g] \in {"write", "body"}
                         /\ job'[g].parent = p /\ job'[g].patch # k
                         => k \in since'[g] \/ Once(original'[g], k)
  BY DEF Landed
<1>2. ASSUME InForce(k, p), k \notin excused
      PROVE  /\ own[p] # Missing /\ Once(own[p], k)
             /\ \A g \in Frames :
                  label[g] \in {"write", "body"} /\ job[g].parent = p /\ job[g].patch # k =>
                    k \in since[g] \/ Once(original[g], k)
  BY <1>2 DEF IInv, Landed
<1>3. CASE Quiet(f)
  BY <1>1, <1>2, <1>3, WhatIsInForce DEF Quiet, Write
<1>4. CASE Lookup(f) /\ Found(job[f].parent) # Missing
  <2>1. PICK s \in Seq(Patches) :
          /\ original'[f] = s /\ (own[job[f].parent] # Missing => s = own[job[f].parent])
          /\ UNCHANGED <<own, done, excused, job>>
          /\ \A g \in Frames \ {f} : UNCHANGED <<label[g], original[g], since[g]>>
    BY <1>4, LookupSucceeds
  <2>2. InForce(k, p)
    BY <1>4, WhatIsInForce DEF Lookup, Write
  <2>3. job[f].parent = p => Once(original'[f], k)
    BY <1>2, <2>1, <2>2
  <2> QED
    BY <1>2, <2>1, <2>2, <2>3
<1>5. CASE (Write(f) \/ Restore(f)) /\ ~(Write(f) /\ k = job[f].patch)
  <2>1. InForce(k, p) /\ job[f].patch # k
    BY <1>5, WhatIsInForce
  <2>2. /\ own'[p] # Missing /\ Once(own'[p], k)
        /\ job[f].parent = p => Once(original[f], k)
    BY <1>5, <2>1, OutlastsAssignment
  <2>3. k \notin excused
    BY <1>5, Assigns DEF Disturb
  <2>4. ASSUME NEW g \in Frames \ {f}, k \in since[g] PROVE k \in since'[g]
    <3>1. CASE Write(f)
      BY <2>4, <3>1, AfterWrite
    <3>2. CASE Restore(f)
      BY <2>1, <2>4, <3>2, AfterRestore
    <3> QED
      BY <1>5, <3>1, <3>2
  <2>5. \/ label'[f] \notin {"write", "body"}
        \/ UNCHANGED <<original, job>>
    BY <1>5, AfterWrite, AfterRestore
  <2>6. \A g \in Frames \ {f} :
          label'[g] \in {"write", "body"} /\ job'[g].parent = p /\ job'[g].patch # k =>
            k \in since'[g] \/ Once(original'[g], k)
    BY <1>1, <1>2, <2>1, <2>3, <2>4
  <2> QED
    BY <2>2, <2>5, <2>6
<1>6. CASE Write(f) /\ k = job[f].patch
  <2>1. p = job[f].parent /\ Unmade(k)
    BY <1>6, WhatIsInForce
  <2>2. PICK s \in Seq(Patches) : s = original[f]
    BY <1>6, Assigns
  <2>3. own'[p] # Missing /\ own'[p] = <<k>> \o s
    BY <1>6, <2>1, <2>2, Assigns
  <2>4. k \notin Range(s)
    BY <2>1, <2>2 DEF IInv, Unseen
  <2>5. Once(<<k>> \o s, k)
    BY <2>4, OnTop
  <2>6. label'[f] \in {"write", "body"} => job'[f].patch = k
    BY <1>6, AfterWrite
  <2>7. \A g \in Frames \ {f} : job'[g].parent = p => k \in since'[g]
    <3>1. \A g \in Frames \ {f} : job[g].parent = job[f].parent => job[f].patch \in since'[g]
      BY <1>6, AfterWrite
    <3> QED
      BY <1>1, <1>6, <2>1, <3>1
  <2> QED
    BY <2>3, <2>5, <2>6, <2>7
<1>7. CASE Exec(f)
  <2>1. InForce(k, p)
    BY <1>7, WhatIsInForce DEF Exec, Write
  <2>2. DOMAIN done = {} /\ \A g \in Frames : label[g] # "body"
    BY <1>7, AfterExec
  <2> QED
    BY <2>1, <2>2 DEF InForce
<1> QED
  BY <1>3, <1>4, <1>5, <1>6, <1>7, QuietSteps, LookupFails

(* What f puts back of the calls with transient patches is still going on there. *)
LEMMA PutsBackInstalled ==
  ASSUME IInv, NEW f \in Frames, Write(f) \/ Restore(f),
         NEW k \in Transient, k \notin lingering', k \in Range(original[f])
  PROVE  \E h \in Frames \ {f} :
           label[h] = "body" /\ job[h] = [patch |-> k, parent |-> job[f].parent]
<1>1. lingering' = lingering \cup
        {n \in seen[f] : \A g \in Frames : ~(/\ label[g] = "body" /\ job[g].patch = n
                                            /\ job[g].parent = job[f].parent)}
  BY Assigns DEF Disturb
<1>2. k \in seen[f] /\ job[f].patch # k
  BY <1>1 DEF IInv, Passing
<1>3. k \notin {n \in seen[f] : \A g \in Frames : ~(/\ label[g] = "body" /\ job[g].patch = n
                                                  /\ job[g].parent = job[f].parent)}
  BY <1>1
<1>4. PICK h \in Frames :
        label[h] = "body" /\ job[h].patch = k /\ job[h].parent = job[f].parent
  BY <1>2, <1>3
<1>5. job[h] \in Jobs
  BY <1>4, BusyHasJob DEF Busy
<1> QED
  BY <1>2, <1>4, <1>5 DEF Jobs

LEMMA KeepsPassing ==
  ASSUME IInv, NEW f \in Frames, Action(f)
  PROVE  Passing'
<1>1. \A g \in Frames \ {f} : UNCHANGED <<label[g], job[g], original[g], seen[g]>>
  BY Elsewhere DEF IInv
<1> SUFFICES ASSUME NEW k \in Transient, k \notin lingering'
             PROVE  /\ \A p \in Parents : own'[p] # Missing /\ k \in Range(own'[p]) =>
                         \E g \in Frames :
                           label'[g] = "body" /\ job'[g] = [patch |-> k, parent |-> p]
                    /\ \A g \in Frames :
                         k \in Range(original'[g]) => k \in seen'[g] /\ job'[g].patch # k
  BY DEF Passing
<1>2. ASSUME k \notin lingering
      PROVE  /\ \A p \in Parents : own[p] # Missing /\ k \in Range(own[p]) =>
                  \E g \in Frames : label[g] = "body" /\ job[g] = [patch |-> k, parent |-> p]
             /\ \A g \in Frames : k \in Range(original[g]) => k \in seen[g] /\ job[g].patch # k
  BY <1>2 DEF IInv, Passing
<1>3. CASE Quiet(f)
  <2>1. k \notin Range(original'[f])
    BY <1>3, RangeOfNone DEF Quiet, IInv, Looked
  <2> QED
    BY <1>1, <1>2, <1>3, <2>1 DEF Quiet
<1>4. CASE Lookup(f) /\ Found(job[f].parent) # Missing
  <2>1. PICK s \in Seq(Patches), q \in Parents :
          /\ original'[f] = s /\ s = own[q] /\ own[q] # Missing
          /\ seen'[f] = Installed \cap Range(s) /\ UNCHANGED <<own, lingering, job>>
    BY <1>4, LookupSucceeds
  <2>2. ASSUME k \in Range(s) PROVE k \in seen'[f] /\ job'[f].patch # k
    <3>1. PICK h \in Frames : label[h] = "body" /\ job[h] = [patch |-> k, parent |-> q]
      BY <1>2, <2>1, <2>2
    <3>2. k \in Installed
      BY <3>1 DEF Installed
    <3>3. h # f /\ job[h].patch = k
      BY <1>4, <3>1 DEF Lookup
    <3>4. job[f].patch # k
      BY <3>3 DEF IInv, Places, OnePlace, Patches
    <3> QED
      BY <2>1, <2>2, <3>2, <3>4
  <2>3. label[f] # "body"
    BY <1>4 DEF Lookup
  <2> QED
    BY <1>1, <1>2, <2>1, <2>2, <2>3
<1>5. CASE Write(f) \/ Restore(f)
  <2>1. k \notin lingering
    BY <1>5, Assigns DEF Disturb
  <2>2. ASSUME NEW p \in Parents \ {job[f].parent}, own'[p] # Missing, k \in Range(own'[p])
        PROVE  \E g \in Frames : label'[g] = "body" /\ job'[g] = [patch |-> k, parent |-> p]
    <3>1. own'[p] = own[p]
      BY <1>5, Assigns
    <3>2. PICK h \in Frames : label[h] = "body" /\ job[h] = [patch |-> k, parent |-> p]
      BY <1>2, <2>1, <2>2, <3>1
    <3>3. h # f
      BY <3>2
    <3> QED
      BY <1>1, <3>2, <3>3
  <2>3. k \in Range(original[f]) =>
          \E g \in Frames :
            label'[g] = "body" /\ job'[g] = [patch |-> k, parent |-> job[f].parent]
    <3> SUFFICES ASSUME k \in Range(original[f])
                 PROVE  \E g \in Frames :
                          label'[g] = "body" /\ job'[g] = [patch |-> k, parent |-> job[f].parent]
      OBVIOUS
    <3>1. PICK h \in Frames \ {f} :
            label[h] = "body" /\ job[h] = [patch |-> k, parent |-> job[f].parent]
      BY <1>5, PutsBackInstalled
    <3> QED
      BY <1>1, <3>1
  <2>4. /\ k \in Range(own'[job[f].parent]) =>
             \E g \in Frames :
               label'[g] = "body" /\ job'[g] = [patch |-> k, parent |-> job[f].parent]
        /\ k \in Range(original'[f]) => k \in seen'[f] /\ job'[f].patch # k
    <3>1. CASE Write(f)
      <4>1. PICK s \in Seq(Patches), n \in Patches : s = original[f] /\ n = job[f].patch
        BY <3>1, Assigns
      <4>2. own'[job[f].parent] = <<n>> \o s /\ UNCHANGED seen /\ job[f] \in Jobs
        BY <3>1, <4>1, Assigns
      <4>3. Range(<<n>> \o s) = {n} \cup Range(s)
        BY OnTop
      <4>4. CASE n \in Permanent
        BY <2>3, <3>1, <4>1, <4>2, <4>3, <4>4, AfterWrite, RangeOfNone
      <4>5. CASE n \notin Permanent
        <5>1. label'[f] = "body" /\ UNCHANGED <<original, job>>
          BY <3>1, <4>1, <4>5, AfterWrite
        <5>2. job'[f] = [patch |-> n, parent |-> job[f].parent]
          BY <4>1, <4>2, <5>1 DEF Jobs
        <5> QED
          BY <1>2, <2>1, <2>3, <4>1, <4>2, <4>3, <5>1, <5>2
      <4> QED
        BY <4>4, <4>5
    <3>2. CASE Restore(f)
      <4>1. own'[job[f].parent] = original[f]
        BY <3>2, Assigns DEF Write, Restore
      <4> QED
        BY <2>3, <3>2, <4>1, AfterRestore, RangeOfNone
    <3> QED
      BY <1>5, <3>1, <3>2
  <2>5. UNCHANGED seen
    BY <1>5, Assigns
  <2> QED
    BY <1>1, <1>2, <2>1, <2>2, <2>4, <2>5
<1>6. CASE Exec(f)
  <2>1. \A p \in Parents : own'[p] # Missing => k \notin Range(own'[p])
    BY <1>6, AfterExec, RangeOfNone
  <2> QED
    BY <1>2, <1>6, <2>1, AfterExec
<1> QED
  BY <1>3, <1>4, <1>5, <1>6, QuietSteps, LookupFails

-----------------------------------------------------------------------------
(* The patches that waited *)

(* A hook that is registered waits with those before it. *)
LEMMA RegisterMovesHooks ==
  ASSUME IInv, NEW f \in Frames, Register(f), ~InModules
  PROVE  /\ \A k : Waiting(k) => Waiting(k)'
         /\ \E n : n = job[f].patch /\ Waiting(n)'
         /\ pending' # <<>>
<1>1. PICK s \in Seq(Jobs), j \in Jobs : s = pending /\ j = job[f] /\ pending' = Append(s, j)
  <2>1. job[f] \in Jobs
    BY BusyHasJob DEF Register, Busy
  <2> QED
    BY <2>1 DEF IInv, TypeOK, Register
<1>2. firing' = firing
  BY DEF Register
<1>3. \A k : In(Append(s, j), k) <=> In(s, k) \/ j.patch = k
  BY OneMoreWaits
<1>4. \A k : In(pending, k) => In(pending', k)
  BY <1>1, <1>3
<1>5. PICK n : n = job[f].patch
  OBVIOUS
<1>6. In(pending', n)
  BY <1>1, <1>3, <1>5
<1>7. pending' # <<>>
  BY <1>6, NoneWait
<1> QED
  BY <1>2, <1>4, <1>5, <1>6, <1>7 DEF Waiting

(* A base of the class has the attribute when the body of the module has been run. *)
LEMMA LoadedFinds ==
  ASSUME IInv, NEW f \in Frames, Lookup(f), module = "loaded"
  PROVE  Found(job[f].parent) # Missing
<1>1. job[f].parent \in Parents
  BY BusyHasJob DEF Lookup, Busy
<1>2. PICK p \in Parents : p = job[f].parent
  BY <1>1
<1>3. PICK q : q \in Range(Mro[p]) /\ q \in Home
  OBVIOUS
<1>4. q \in Parents
  BY <1>3 DEF Range
<1>5. own[q] # Missing
  BY <1>3, <1>4 DEF IInv, Flow
<1> QED
  BY <1>2, <1>3, <1>5, LookupFinds

(* Nothing that waits for the import is forgotten by it. *)
LEMMA KeepsHooked ==
  ASSUME IInv, NEW f \in Frames, Action(f)
  PROVE  (module = "absent" \/ hooked \/ \A k \in early : ~Waiting(k))'
<1>1. module = "absent" \/ hooked \/ \A k \in early : ~Waiting(k)
  BY DEF IInv, Kept
<1>2. ASSUME UNCHANGED <<module, hooked, pending, firing, early>>
      PROVE  (module = "absent" \/ hooked \/ \A k \in early : ~Waiting(k))'
  BY <1>1, <1>2 DEF Waiting
<1>3. CASE Wrap(f) \/ WrapDeferred(f) \/ CallWithTransient(f) \/ Test(f) \/ Lookup(f)
           \/ Write(f) \/ Restore(f)
  BY <1>2, <1>3 DEF Wrap, WrapDeferred, CallWithTransient, Begin, Test, Lookup, Write, Restore
<1>4. CASE Register(f) /\ InModules
  <2>1. UNCHANGED <<module, hooked, pending, firing>>
    BY <1>4 DEF Register
  <2>2. PICK n \in Patches : n = job[f].patch
    BY <1>4, BusyHasJob DEF Register, Busy
  <2>3. ~Waiting(n)
    BY <2>2 DEF IInv, Places, OnePlace
  <2>4. early' \subseteq early \cup {n}
    BY <1>4, <2>2 DEF Register, AskedFor
  <2>5. \A k : Waiting(k)' <=> Waiting(k)
    BY <2>1 DEF Waiting
  <2> QED
    BY <1>1, <2>1, <2>3, <2>4, <2>5
<1>5. CASE Register(f) /\ ~InModules
  <2>1. UNCHANGED <<module, hooked>> /\ module \in {"absent", "found"}
    BY <1>5 DEF Register, InModules, IInv, TypeOK
  <2>2. CASE module = "absent" \/ hooked
    BY <2>1, <2>2
  <2>3. CASE module = "found" /\ ~hooked
    <3>1. early' = early
      BY <1>5, <2>3 DEF Register, AskedFor
    <3>2. PICK n \in Patches, j \in Jobs : n = job[f].patch /\ j = job[f]
      BY <1>5, BusyHasJob DEF Register, Busy
    <3>3. n \notin early
      <4>1. label[f] = "register" /\ ~Waiting(n) /\ n \notin DOMAIN done
        BY <1>5, <3>2 DEF Register, IInv, Places, OnePlace
      <4>2. \A g \in Frames : job[g].patch = n => g = f
        BY <3>2 DEF IInv, Places, OnePlace
      <4> QED
        BY <4>1, <4>2 DEF IInv, Kept
    <3>4. \A k : Waiting(k)' => Waiting(k) \/ k = n
      <4>1. PICK s \in Seq(Jobs) : s = pending /\ pending' = Append(s, j)
        BY <1>5, <3>2 DEF IInv, TypeOK, Register
      <4>2. \A k : In(pending', k) => In(pending, k) \/ k = n
        BY <3>2, <4>1, OneMoreWaits
      <4>3. firing' = firing
        BY <1>5 DEF Register
      <4> QED
        BY <4>2, <4>3 DEF Waiting
    <3> QED
      BY <1>1, <2>3, <3>1, <3>3, <3>4
  <2> QED
    BY <2>1, <2>2, <2>3
<1>6. CASE Import(f)
  <2>1. UNCHANGED <<pending, firing, early>> /\ module # "loaded"
    BY <1>6 DEF Import
  <2>2. \A g \in Frames : firing[g] = <<>>
    BY <2>1 DEF IInv, Flow
  <2>3. CASE pending # <<>>
    BY <1>6, <2>3 DEF Import
  <2>4. CASE pending = <<>>
    <3>1. \A k : ~Waiting(k)
      BY <2>2, <2>4, NoneWait DEF Waiting
    <3>2. \A k : Waiting(k)' <=> Waiting(k)
      BY <2>1 DEF Waiting
    <3> QED
      BY <3>1, <3>2
  <2> QED
    BY <2>3, <2>4
<1>7. CASE Load(f)
  <2>1. module # "absent" /\ UNCHANGED <<hooked, pending, firing, early>>
    BY <1>7 DEF Load, IInv, Flow
  <2>2. \A k : Waiting(k)' <=> Waiting(k)
    BY <2>1 DEF Waiting
  <2> QED
    BY <1>1, <2>1, <2>2
<1>8. CASE Exec(f)
  <2>1. module # "absent" /\ UNCHANGED <<hooked, early>>
    BY <1>8 DEF Exec, IInv, Flow
  <2> QED
    BY <1>1, <1>8, <2>1, ExecMovesHooks
<1>9. CASE Fire(f) /\ firing[f] = <<>>
  BY <1>2, <1>9 DEF Fire
<1>10. CASE Fire(f) /\ firing[f] # <<>>
  <2>1. UNCHANGED <<module, hooked, early>>
    BY <1>10 DEF Fire
  <2>2. \A k : Waiting(k)' => Waiting(k)
    BY <1>10, FireMovesHooks
  <2> QED
    BY <1>1, <2>1, <2>2
<1> QED
  BY <1>3, <1>4, <1>5, <1>6, <1>7, <1>8, <1>9, <1>10 DEF Action

(* The frame that is about to make the patch k. *)
OnItsWay(k) ==
  \E f \in Frames : module = "loaded" /\ label[f] \in {"lookup", "write"} /\ job[f].patch = k

LEMMA NotLost ==
  ASSUME IInv, NEW f \in Frames, Action(f), NEW k \in early
  PROVE  (k \in DOMAIN done \/ Waiting(k) \/ OnItsWay(k))'
<1>1. \A g \in Frames \ {f} : UNCHANGED <<label[g], job[g]>>
  BY Elsewhere DEF IInv
<1>2. k \in Permanent /\ (k \in DOMAIN done \/ Waiting(k) \/ OnItsWay(k))
  BY DEF IInv, TypeOK, Kept, OnItsWay
<1>3. DOMAIN done \subseteq DOMAIN done'
  BY StaysDone
<1>4. ASSUME label[f] \notin {"lookup", "write"} \/ module # "loaded",
             UNCHANGED <<module, pending, firing>>
      PROVE  (k \in DOMAIN done \/ Waiting(k) \/ OnItsWay(k))'
  <2>1. Waiting(k)' <=> Waiting(k)
    BY <1>4 DEF Waiting
  <2>2. OnItsWay(k) => OnItsWay(k)'
    BY <1>1, <1>4 DEF OnItsWay
  <2> QED
    BY <1>2, <1>3, <2>1, <2>2
<1>5. CASE Wrap(f) \/ WrapDeferred(f) \/ CallWithTransient(f)
  <2>1. label[f] = "idle" /\ UNCHANGED <<module, pending, firing>>
    BY <1>5 DEF Wrap, WrapDeferred, CallWithTransient, Begin, CanCall
  <2> QED
    BY <1>4, <2>1
<1>6. CASE Test(f) \/ Restore(f) \/ (Register(f) /\ InModules)
  <2>1. label[f] \in {"test", "body", "register"} /\ UNCHANGED <<module, pending, firing>>
    BY <1>6 DEF Test, Restore, Register
  <2> QED
    BY <1>4, <2>1
<1>7. CASE Register(f) /\ ~InModules
  BY <1>2, <1>3, <1>7, RegisterMovesHooks DEF InModules, OnItsWay
<1>8. CASE Lookup(f)
  <2>1. UNCHANGED <<module, pending, firing>>
    BY <1>8 DEF Lookup
  <2>2. CASE module # "loaded"
    BY <1>4, <2>1, <2>2
  <2>3. CASE module = "loaded"
    <3>1. label'[f] = "write" /\ UNCHANGED job
      BY <1>8, <2>3, LoadedFinds, LookupSucceeds
    <3>2. OnItsWay(k) => OnItsWay(k)'
      BY <1>1, <2>1, <3>1 DEF OnItsWay
    <3>3. Waiting(k)' <=> Waiting(k)
      BY <2>1 DEF Waiting
    <3> QED
      BY <1>2, <1>3, <3>2, <3>3
  <2> QED
    BY <2>2, <2>3
<1>9. CASE Write(f)
  <2>1. UNCHANGED <<module, pending, firing>>
    BY <1>9 DEF Write
  <2>2. Waiting(k)' <=> Waiting(k)
    BY <2>1 DEF Waiting
  <2>3. CASE job[f].patch = k
    <3>1. DOMAIN done' = DOMAIN done \cup {job[f].patch}
      BY <1>2, <1>9, <2>3, AfterWrite
    <3> QED
      BY <2>3, <3>1
  <2>4. CASE job[f].patch # k
    <3>1. OnItsWay(k) => OnItsWay(k)'
      BY <1>1, <2>1, <2>4 DEF OnItsWay
    <3> QED
      BY <1>2, <1>3, <2>2, <3>1
  <2> QED
    BY <2>3, <2>4
<1>10. CASE Import(f) \/ Load(f)
  <2>1. module # "loaded" /\ UNCHANGED <<pending, firing>>
    BY <1>10 DEF Import, Load, IInv, Flow
  <2>2. Waiting(k)' <=> Waiting(k)
    BY <2>1 DEF Waiting
  <2> QED
    BY <1>2, <1>3, <2>1, <2>2 DEF OnItsWay
<1>11. CASE Exec(f)
  <2>1. module # "loaded"
    BY <1>11 DEF Exec, IInv, Flow
  <2> QED
    BY <1>2, <1>3, <1>11, <2>1, ExecMovesHooks DEF OnItsWay
<1>12. CASE Fire(f) /\ firing[f] = <<>>
  BY <1>4, <1>12 DEF Fire
<1>13. CASE Fire(f) /\ firing[f] # <<>>
  <2>1. PICK n : n = job'[f].patch /\ \A j : Waiting(j) <=> Waiting(j)' \/ n = j
    BY <1>13, FireMovesHooks
  <2>2. module' = "loaded" /\ module = "loaded" /\ label[f] = "fire" /\ label'[f] = "lookup"
    BY <1>13 DEF Fire, IInv, TypeOK, Flow
  <2>3. OnItsWay(k) => OnItsWay(k)'
    BY <1>1, <2>2 DEF OnItsWay
  <2>4. Waiting(k) => Waiting(k)' \/ OnItsWay(k)'
    BY <2>1, <2>2 DEF OnItsWay
  <2> QED
    BY <1>2, <1>3, <2>3, <2>4
<1> QED
  BY <1>5, <1>6, <1>7, <1>8, <1>9, <1>10, <1>11, <1>12, <1>13 DEF Action

LEMMA KeepsKept ==
  ASSUME IInv, NEW f \in Frames, Action(f)
  PROVE  Kept'
<1>1. (module = "absent" \/ hooked \/ \A k \in early : ~Waiting(k))'
  BY KeepsHooked
<1>2. ASSUME NEW k \in early' PROVE (k \in DOMAIN done \/ Waiting(k) \/ OnItsWay(k))'
  <2>1. CASE k \in early
    BY <2>1, NotLost
  <2>2. CASE k \notin early
    <3>1. Register(f)
      BY <1>2, <2>2 DEF Action, Wrap, WrapDeferred, Begin, Test, Lookup, Write,
         CallWithTransient, Restore, Import, Load, Exec, Fire
    <3>2. k = job[f].patch /\ (module \in {"absent", "loaded"} \/ (module = "found" /\ hooked))
      BY <1>2, <2>2, <3>1 DEF Register, AskedFor
    <3>3. CASE InModules
      <4>1. module = "loaded" /\ UNCHANGED <<module, job>> /\ label'[f] = "lookup"
        BY <3>1, <3>2, <3>3 DEF Register, InModules, IInv, TypeOK
      <4> QED
        BY <3>2, <4>1 DEF OnItsWay
    <3>4. CASE ~InModules
      BY <3>1, <3>2, <3>4, RegisterMovesHooks
    <3> QED
      BY <3>3, <3>4
  <2> QED
    BY <2>1, <2>2
<1> QED
  BY <1>1, <1>2 DEF Kept, OnItsWay

-----------------------------------------------------------------------------
LEMMA StepPreserves == IInv /\ [Next]_vars => IInv'
<1> SUFFICES ASSUME IInv, [Next]_vars PROVE IInv'
  OBVIOUS
<1>1. ASSUME NEW f \in Frames, Action(f) PROVE IInv'
  BY <1>1, KeepsType, KeepsFlow, KeepsPlaces, KeepsLooked, KeepsUnseen, KeepsLanded,
     KeepsPassing, KeepsKept DEF IInv
<1>2. CASE Next
  BY <1>1, <1>2 DEF Next, Action
<1>3. CASE UNCHANGED vars
  <2> USE <1>3 DEF vars
  <2>1. TypeOK' /\ Flow'
    BY DEF IInv, TypeOK, Flow
  <2>2. Places' /\ Looked' /\ Kept'
    BY DEF IInv, Places, OnePlace, Waiting, Looked, Kept
  <2>3. Unseen' /\ Landed' /\ Passing'
    BY DEF IInv, Unseen, Unmade, Landed, InForce, Passing
  <2> QED
    BY <2>1, <2>2, <2>3 DEF IInv
<1> QED
  BY <1>2, <1>3

(* The invariant of the patches: the flow of control, the place of each patch, and
   what frames that are about to assign hold. *)
THEOREM Invariance == Spec => []IInv
<1>1. Init => IInv
  BY InitEstablishes
<1>2. IInv /\ [Next]_vars => IInv'
  BY StepPreserves
<1> QED
  BY <1>1, <1>2, PTL DEF Spec

(* The variables of the patches have their types. *)
THEOREM TypeCorrectness == Spec => []TypeOK
<1>1. IInv => TypeOK
  BY DEF IInv
<1> QED
  BY <1>1, Invariance, PTL

(* A permanent patch (patches.py, wrap_object) is found through its class from then
   on, one for a call for as long as the call lasts, and once, whatever other patches
   come or go: at the end of a call in a call the patch of the outer one is back.
   That is if no assignment was looked up before the patch and made after it. *)
THEOREM PatchesAreKept == Spec => []PatchesStay
<1>1. IInv => PatchesStay
  <2> SUFFICES ASSUME IInv, NEW k \in Patches \ excused, NEW p \in Parents, InForce(k, p)
               PROVE  Cardinality({i \in DOMAIN Found(p) : Found(p)[i] = k}) = 1
    BY DEF PatchesStay
  <2>1. own[p] # Missing /\ Once(own[p], k)
    BY DEF IInv, Landed
  <2>2. Found(p) = own[p]
    BY <2>1, LookupFinds
  <2>3. PICK i \in DOMAIN own[p] :
          own[p][i] = k /\ \A j \in DOMAIN own[p] : own[p][j] = k => j = i
    BY <2>1 DEF Once
  <2>4. {j \in DOMAIN Found(p) : Found(p)[j] = k} = {i}
    BY <2>2, <2>3
  <2> QED
    BY <2>4, FS_Singleton
<1> QED
  BY <1>1, Invariance, PTL

(* A patch for one call (patches.py, transient_function_wrapper) is on no class when
   the call is over, if nothing is assigned after that, or in another class, that was
   looked up during the call. *)
THEOREM TransientsAreGone == Spec => []TransientsGo
<1>1. IInv => TransientsGo
  <2> SUFFICES ASSUME IInv, NEW k \in (Transient \cap used) \ lingering,
                      \A f \in Frames : job[f].patch # k,
                      NEW p \in Parents, own[p] # Missing, k \in Range(own[p])
               PROVE  FALSE
    BY DEF TransientsGo
  <2>1. PICK f \in Frames : job[f] = [patch |-> k, parent |-> p]
    BY DEF IInv, Passing
  <2>2. job[f].patch = k
    BY <2>1
  <2> QED
    BY <2>2
<1> QED
  BY <1>1, Invariance, PTL

(* A patch that waited for its module (patches.py, the targets named with "?") is on
   its class when the import is over. *)
THEOREM DeferredPatchesLand == Spec => []DeferredLands
<1>1. IInv => DeferredLands
  <2> SUFFICES ASSUME IInv, module = "loaded", NEW k \in early,
                      \A f \in Frames : firing[f] = <<>> /\ label[f] = "idle"
               PROVE  k \in DOMAIN done
    BY DEF DeferredLands
  <2>1. hooked \/ ~Waiting(k)
    BY DEF IInv, Kept
  <2>2. ~Waiting(k)
    <3>1. CASE hooked
      <4>1. pending = <<>>
        BY <3>1 DEF IInv, Flow
      <4> QED
        BY <4>1, NoneWait DEF Waiting
    <3> QED
      BY <2>1, <3>1
  <2> QED
    BY <2>2 DEF IInv, Kept
<1> QED
  BY <1>1, Invariance, PTL
=============================================================================
