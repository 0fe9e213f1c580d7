------------------------ MODULE ProxyAttributesProofs ------------------------
(***************************************************************************)
(* What the optional methods of a shared proxy and its in-place operators  *)
(* keep without a lock, for any number of threads, objects and methods;    *)
(* and that an assignment which overlaps with no other change repairs what *)
(* overlapping ones have left.                                             *)
(***************************************************************************)
EXTENDS ProxyAttributes, TLAPS

(* A method that all wrapped objects have: the wrapped object has it, so has the
   proxy's class; what is about to be stored has it; fixups that found an object
   without the method they are at are at another one; and no use of it failed. *)
Kept(m) ==
  Always(m) =>
    /\ wrapped \in Having(m)
    /\ m \in Provided
    /\ \A t \in Threads :
         /\ label[t] = "store" => job[t].value \in Having(m)
         /\ label[t] \in {"check", "drop"} => Current(t) # m
         /\ label[t] = "refused" => Methods[job[t].method] # m

MethodsKept == \A m \in Range(Methods) : Kept(m)

(* An in-place operator that no assignment has come in between: it has passed the
   test and still would, and what it is about to replace is what it was applied to. *)
Uncut ==
  \A t \in Threads \ outrun :
    /\ label[t] = "compute" => wrapped \in Mutable
    /\ label[t] = "store" => operand[t] \in {NoObject} \cup (Mutable \cap {wrapped})

(* What is stored otherwise is not the result of an operator. *)
Applied == \A t \in Threads : label[t] # "store" => operand[t] = NoObject

(* What a thread needs for its next step is there. *)
Flow ==
  \A t \in Threads :
    /\ label[t] \in {"store", "unname", "rename"} => job[t].value \in Objects
    /\ label[t] \in {"add", "check", "drop"} => job[t].visited < Len(Methods)
    /\ label[t] \in {"visit", "add", "check", "drop"} => Static \subseteq job[t].found
    /\ label[t] = "add" => Current(t) \notin job[t].found

IInv == TypeOK /\ Flow /\ MethodsKept /\ Uncut /\ Applied

Step(t) ==
  \/ Assign(t) \/ Store(t) \/ Unname(t) \/ Rename(t)
  \/ Fixups(t) \/ Visit(t) \/ Add(t) \/ Check(t) \/ Drop(t) \/ Assigned(t)
  \/ Inplace(t) \/ HasOperator(t) \/ Compute(t)
  \/ SetName(t) \/ SetWrappedName(t) \/ SetMirror(t) \/ DelName(t) \/ DelWrappedName(t)
  \/ Use(t) \/ Find(t) \/ Delegate(t)

-----------------------------------------------------------------------------
USE AttributesAssumption DEF Goto, Changing, Labels, GoOn, Resting, proxyVars, history

(* The jobs that steps give to a thread. *)
LEMMA NoJobTyped == NoJob \in Jobs
  BY DEF Jobs, NoJob

LEMMA JobsTyped ==
  ASSUME TypeOK, NEW t \in Threads
  PROVE  /\ \A v \in Objects : [job EXCEPT ![t].value = v] \in [Threads -> Jobs]
         /\ \A n \in Names : [job EXCEPT ![t].name = n] \in [Threads -> Jobs]
         /\ \A F \in SUBSET Range(Methods) : [job EXCEPT ![t].found = F] \in [Threads -> Jobs]
         /\ \A i \in DOMAIN Methods : [job EXCEPT ![t].method = i] \in [Threads -> Jobs]
         /\ job[t].visited < Len(Methods) =>
              [job EXCEPT ![t].visited = @ + 1] \in [Threads -> Jobs]
<1>0. job[t] \in Jobs /\ job \in [Threads -> Jobs]
  BY DEF TypeOK
<1>1. ASSUME NEW v \in Objects PROVE [job EXCEPT ![t].value = v] \in [Threads -> Jobs]
  BY <1>0 DEF Jobs
<1>2. ASSUME NEW n \in Names PROVE [job EXCEPT ![t].name = n] \in [Threads -> Jobs]
  BY <1>0 DEF Jobs
<1>3. ASSUME NEW F \in SUBSET Range(Methods)
      PROVE  [job EXCEPT ![t].found = F] \in [Threads -> Jobs]
  BY <1>0 DEF Jobs
<1>4. ASSUME NEW i \in DOMAIN Methods PROVE [job EXCEPT ![t].method = i] \in [Threads -> Jobs]
  BY <1>0 DEF Jobs
<1>5. ASSUME job[t].visited < Len(Methods)
      PROVE  [job EXCEPT ![t].visited = @ + 1] \in [Threads -> Jobs]
  <2>1. Len(Methods) \in Nat
    OBVIOUS
  <2>2. job[t].visited + 1 \in 0 .. Len(Methods)
    BY <1>0, <1>5, <2>1 DEF Jobs
  <2> QED
    BY <1>0, <2>2 DEF Jobs
<1> QED
  BY <1>1, <1>2, <1>3, <1>4, <1>5

(* A well-typed proxy starts out. *)
LEMMA InitEstablishes == Init => IInv
<1> SUFFICES ASSUME Init PROVE IInv
  OBVIOUS
<1> USE DEF Init, Created
<1>1. TypeOK
  BY NoJobTyped DEF TypeOK
<1>2. MethodsKept
  BY DEF MethodsKept, Kept, Always, Having, Provided
<1>3. Flow /\ Uncut /\ Applied
  BY DEF Flow, Uncut, Applied
<1> QED
  BY <1>1, <1>2, <1>3 DEF IInv

(* Every step leaves each thread with a job of the right type. *)
LEMMA KeepsJobs ==
  ASSUME IInv, NEW t \in Threads, Step(t)
  PROVE  job' \in [Threads -> Jobs]
<1>0. TypeOK /\ Flow /\ job \in [Threads -> Jobs] /\ wrapped \in Objects
  BY DEF IInv, TypeOK
<1>a. CASE \E v \in Objects : job' = [job EXCEPT ![t].value = v]
  <2>1. PICK v \in Objects : job' = [job EXCEPT ![t].value = v]
    BY <1>a
  <2> QED
    BY <1>0, <2>1, JobsTyped
<1>b. CASE \E n \in Names : job' = [job EXCEPT ![t].name = n]
  <2>1. PICK n \in Names : job' = [job EXCEPT ![t].name = n]
    BY <1>b
  <2> QED
    BY <1>0, <2>1, JobsTyped
<1>c. CASE job' = [job EXCEPT ![t].found = Provided]
  <2>1. Provided \in SUBSET Range(Methods)
    BY <1>0 DEF TypeOK, Provided
  <2> QED
    BY <1>0, <1>c, <2>1, JobsTyped
<1>d. CASE \E i \in DOMAIN Methods : job' = [job EXCEPT ![t].method = i]
  <2>1. PICK i \in DOMAIN Methods : job' = [job EXCEPT ![t].method = i]
    BY <1>d
  <2> QED
    BY <1>0, <2>1, JobsTyped
<1>e. CASE job[t].visited < Len(Methods) /\ job' = [job EXCEPT ![t].visited = @ + 1]
  BY <1>0, <1>e, JobsTyped
<1>f. CASE job' = [job EXCEPT ![t] = NoJob]
  BY <1>0, <1>f, NoJobTyped
<1>g. CASE UNCHANGED job
  BY <1>0, <1>g
<1>1. CASE Assign(t)
  BY <1>0, <1>1, <1>a DEF Assign
<1>2. CASE Store(t)
  BY <1>0, <1>2, <1>g DEF Store
<1>3. CASE Unname(t)
  BY <1>0, <1>3, <1>g DEF Unname
<1>4. CASE Rename(t)
  BY <1>0, <1>4, <1>g DEF Rename
<1>5. CASE Fixups(t)
  BY <1>0, <1>5, <1>c DEF Fixups
<1>6. CASE Visit(t)
  BY <1>0, <1>6, <1>e, <1>g DEF Visit
<1>7. CASE Add(t)
  BY <1>0, <1>7, <1>e DEF Add, Flow
<1>8. CASE Check(t)
  BY <1>0, <1>8, <1>e, <1>g DEF Check, Flow
<1>9. CASE Drop(t)
  BY <1>0, <1>9, <1>e, <1>f DEF Drop, End, Flow
<1>10. CASE Assigned(t)
  BY <1>0, <1>10, <1>f DEF Assigned, End
<1>11. CASE Inplace(t)
  BY <1>0, <1>11, <1>g DEF Inplace
<1>12. CASE HasOperator(t)
  BY <1>0, <1>12, <1>f, <1>g DEF HasOperator, End
<1>13. CASE Compute(t)
  BY <1>0, <1>13, <1>a, <1>f DEF Compute, End
<1>14. CASE SetName(t)
  BY <1>0, <1>14, <1>b DEF SetName
<1>15. CASE SetWrappedName(t)
  BY <1>0, <1>15, <1>f, <1>g DEF SetWrappedName, End
<1>16. CASE SetMirror(t)
  BY <1>0, <1>16, <1>f DEF SetMirror, End
<1>17. CASE DelName(t)
  BY <1>0, <1>17, <1>g DEF DelName
<1>18. CASE DelWrappedName(t)
  BY <1>0, <1>18, <1>f DEF DelWrappedName, End
<1>19. CASE Use(t)
  BY <1>0, <1>19, <1>d DEF Use
<1>20. CASE Find(t)
  BY <1>0, <1>20, <1>g DEF Find
<1>21. CASE Delegate(t)
  BY <1>0, <1>21, <1>g DEF Delegate
<1> QED
  BY <1>1, <1>2, <1>3, <1>4, <1>5, <1>6, <1>7, <1>8, <1>9, <1>10, <1>11, <1>12, <1>13,
     <1>14, <1>15, <1>16, <1>17, <1>18, <1>19, <1>20, <1>21 DEF Step

(* Every step leaves the state well typed. *)
LEMMA KeepsType ==
  ASSUME IInv, NEW t \in Threads, Step(t)
  PROVE  TypeOK'
<1>0. job' \in [Threads -> Jobs]
  BY KeepsJobs
<1> USE <1>0 DEF IInv, TypeOK, Flow
<1>1. CASE Assign(t)
  BY <1>1 DEF Assign, Begin
<1>2. CASE Store(t)
  <2>1. job[t].value \in Objects
    BY <1>2 DEF Store
  <2>2. Overtaken(wrapped') \subseteq Threads
    BY DEF Overtaken
  <2> QED
    BY <1>2, <2>1, <2>2 DEF Store
<1>3. CASE Unname(t)
  BY <1>3 DEF Unname
<1>4. CASE Rename(t)
  BY <1>4 DEF Rename
<1>5. CASE Fixups(t)
  BY <1>5 DEF Fixups
<1>6. CASE Visit(t)
  BY <1>6 DEF Visit
<1>7. CASE Add(t)
  <2>1. job[t].visited + 1 \in DOMAIN Methods
    BY <1>7 DEF Add, Jobs
  <2>2. Current(t) \in Range(Methods) \ Static
    BY <1>7, <2>1 DEF Add, Current, Range
  <2> QED
    BY <1>7, <2>2 DEF Add
<1>8. CASE Check(t)
  BY <1>8 DEF Check
<1>9. CASE Drop(t)
  BY <1>9 DEF Drop, End
<1>10. CASE Assigned(t)
  BY <1>10 DEF Assigned, End
<1>11. CASE Inplace(t)
  BY <1>11 DEF Inplace, Begin
<1>12. CASE HasOperator(t)
  BY <1>12 DEF HasOperator, End
<1>13. CASE Compute(t)
  <2>1. CASE End(t, FALSE)
    BY <1>13, <2>1 DEF Compute, End
  <2>2. CASE ~End(t, FALSE)
    <3>1. /\ UNCHANGED <<wrapped, added, mirror, nameOf, alone, clean, ever, outrun>>
          /\ operand' = [operand EXCEPT ![t] = wrapped]
          /\ label' = [label EXCEPT ![t] = "store"]
      BY <1>13, <2>2 DEF Compute
    <3> QED
      BY <3>1
  <2> QED
    BY <2>1, <2>2
<1>14. CASE SetName(t)
  BY <1>14 DEF SetName, Begin
<1>15. CASE SetWrappedName(t)
  <2>1. job[t].name \in Names \cup {NoName}
    BY DEF Jobs
  <2> QED
    BY <1>15, <2>1 DEF SetWrappedName, End
<1>16. CASE SetMirror(t)
  <2>1. job[t].name \in Names \cup {NoName}
    BY DEF Jobs
  <2> QED
    BY <1>16, <2>1 DEF SetMirror, End
<1>17. CASE DelName(t)
  BY <1>17 DEF DelName, Begin
<1>18. CASE DelWrappedName(t)
  BY <1>18 DEF DelWrappedName, End
<1>19. CASE Use(t)
  BY <1>19 DEF Use
<1>20. CASE Find(t)
  BY <1>20 DEF Find
<1>21. CASE Delegate(t)
  BY <1>21 DEF Delegate
<1> QED
  BY <1>1, <1>2, <1>3, <1>4, <1>5, <1>6, <1>7, <1>8, <1>9, <1>10, <1>11, <1>12, <1>13,
     <1>14, <1>15, <1>16, <1>17, <1>18, <1>19, <1>20, <1>21 DEF Step

(* Every step leaves each thread what it needs. *)
LEMMA KeepsFlow ==
  ASSUME IInv, NEW t \in Threads, Step(t)
  PROVE  Flow'
<1> USE DEF IInv, TypeOK, Flow, Jobs, Current
<1>a. GoOn(t) => /\ label' = [label EXCEPT ![t] = "visit"]
                 /\ job'[t].found = job[t].found
                 /\ \A u \in Threads \ {t} : job'[u] = job[u]
  OBVIOUS
<1>1. CASE Assign(t)
  BY <1>1 DEF Assign, Begin
<1>2. CASE Store(t)
  BY <1>2 DEF Store
<1>3. CASE Unname(t)
  BY <1>3 DEF Unname
<1>4. CASE Rename(t)
  BY <1>4 DEF Rename
<1>5. CASE Fixups(t)
  BY <1>5 DEF Fixups, Provided
<1>6. CASE Visit(t)
  <2>1. CASE Goto(t, "check") /\ UNCHANGED job
    BY <1>6, <2>1 DEF Visit
  <2>2. CASE Current(t) \notin job[t].found /\ Goto(t, "add") /\ UNCHANGED job
    BY <1>6, <2>2 DEF Visit
  <2>3. CASE GoOn(t)
    BY <1>6, <2>3, <1>a DEF Visit
  <2> QED
    BY <1>6, <2>1, <2>2, <2>3 DEF Visit
<1>7. CASE Add(t)
  BY <1>7 DEF Add
<1>8. CASE Check(t)
  <2>1. CASE Goto(t, "drop") /\ UNCHANGED job
    BY <1>8, <2>1 DEF Check
  <2>2. CASE GoOn(t)
    BY <1>8, <2>2, <1>a DEF Check
  <2> QED
    BY <1>8, <2>1, <2>2 DEF Check
<1>9. CASE Drop(t)
  <2>1. CASE GoOn(t)
    BY <1>9, <2>1, <1>a DEF Drop
  <2>2. CASE End(t, TRUE)
    BY <1>9, <2>2 DEF Drop, End
  <2> QED
    BY <1>9, <2>1, <2>2 DEF Drop
<1>10. CASE Assigned(t)
  BY <1>10 DEF Assigned, End
<1>11. CASE Inplace(t)
  BY <1>11 DEF Inplace, Begin
<1>12. CASE HasOperator(t)
  <2>1. CASE End(t, FALSE)
    BY <1>12, <2>1 DEF End
  <2>2. CASE ~End(t, FALSE)
    BY <1>12, <2>2 DEF HasOperator
  <2> QED
    BY <2>1, <2>2
<1>13. CASE Compute(t)
  <2>1. CASE End(t, FALSE)
    BY <1>13, <2>1 DEF Compute, End
  <2>2. CASE ~End(t, FALSE)
    <3>1. PICK o \in Sum[wrapped] : job' = [job EXCEPT ![t].value = o]
      BY <1>13, <2>2 DEF Compute
    <3>2. o \in Objects
      BY <3>1
    <3>3. job'[t].value = o /\ \A u \in Threads \ {t} : job'[u] = job[u]
      BY <3>1
    <3> QED
      BY <1>13, <2>2, <3>1, <3>2, <3>3 DEF Compute
  <2> QED
    BY <2>1, <2>2
<1>14. CASE SetName(t)
  BY <1>14 DEF SetName, Begin
<1>15. CASE SetWrappedName(t)
  <2>1. CASE End(t, FALSE)
    BY <1>15, <2>1 DEF End
  <2>2. CASE ~End(t, FALSE)
    BY <1>15, <2>2 DEF SetWrappedName
  <2> QED
    BY <2>1, <2>2
<1>16. CASE SetMirror(t)
  BY <1>16 DEF SetMirror, End
<1>17. CASE DelName(t)
  BY <1>17 DEF DelName, Begin
<1>18. CASE DelWrappedName(t)
  BY <1>18 DEF DelWrappedName, End
<1>19. CASE Use(t)
  BY <1>19 DEF Use
<1>20. CASE Find(t)
  BY <1>20 DEF Find
<1>21. CASE Delegate(t)
  BY <1>21 DEF Delegate
<1> QED
  BY <1>1, <1>2, <1>3, <1>4, <1>5, <1>6, <1>7, <1>8, <1>9, <1>10, <1>11, <1>12, <1>13,
     <1>14, <1>15, <1>16, <1>17, <1>18, <1>19, <1>20, <1>21 DEF Step

(* What the program has wrapped is not forgotten. *)
LEMMA EverGrows ==
  ASSUME NEW t \in Threads, Step(t)
  PROVE  ever \subseteq ever'
BY DEF Step, Assign, Store, Unname, Rename, Fixups, Visit, Add, Check, Drop, Assigned,
   Inplace, HasOperator, Compute, SetName, SetWrappedName, SetMirror, DelName,
   DelWrappedName, Use, Find, Delegate, End

(* Every step keeps what all wrapped objects have. *)
LEMMA KeepsMethods ==
  ASSUME IInv, NEW t \in Threads, Step(t), NEW m \in Range(Methods)
  PROVE  Kept(m)'
<1> SUFFICES ASSUME Always(m)' PROVE /\ wrapped' \in Having(m)
    /\ m \in Provided'
    /\ \A u \in Threads :
         /\ label'[u] = "store" => job'[u].value \in Having(m)
         /\ label'[u] \in {"check", "drop"} => Current(u)' # m
         /\ label'[u] = "refused" => Methods[job'[u].method] # m
  BY DEF Kept, Having
<1>0. /\ ever' \subseteq Having(m)
     /\ \A o \in Having(m) : Sum[o] \subseteq Having(m)
  BY DEF Always, Having
<1>a. Always(m) /\ Kept(m)
  BY <1>0, EverGrows DEF IInv, MethodsKept, Always
<1> USE <1>a DEF IInv, TypeOK, Kept, Provided, Jobs, Current
<1>1. CASE Assign(t)
  BY <1>0, <1>1 DEF Assign, Begin
<1>2. CASE Store(t)
  BY <1>2 DEF Store
<1>3. CASE Unname(t)
  BY <1>3 DEF Unname
<1>4. CASE Rename(t)
  BY <1>4 DEF Rename
<1>5. CASE Fixups(t)
  BY <1>5 DEF Fixups
<1>6. CASE Visit(t)
  <2>1. CASE m # Current(t) /\ Goto(t, "check") /\ UNCHANGED job
    BY <1>6, <2>1 DEF Visit
  <2>2. CASE Goto(t, "add") /\ UNCHANGED job
    BY <1>6, <2>2 DEF Visit
  <2>3. CASE GoOn(t)
    BY <1>6, <2>3 DEF Visit
  <2> QED
    BY <1>6, <2>1, <2>2, <2>3 DEF Visit, Having
<1>7. CASE Add(t)
  BY <1>7 DEF Add
<1>8. CASE Check(t)
  BY <1>8 DEF Check
<1>9. CASE Drop(t)
  BY <1>9 DEF Drop, End
<1>10. CASE Assigned(t)
  BY <1>10 DEF Assigned, End
<1>11. CASE Inplace(t)
  BY <1>11 DEF Inplace, Begin
<1>12. CASE HasOperator(t)
  BY <1>12 DEF HasOperator, End
<1>13. CASE Compute(t)
  <2>1. CASE End(t, FALSE)
    BY <1>13, <2>1 DEF Compute, End
  <2>2. CASE ~End(t, FALSE)
    <3>1. PICK o \in Sum[wrapped] : job' = [job EXCEPT ![t].value = o]
      BY <1>13, <2>2 DEF Compute
    <3>2. o \in Objects
      BY <3>1
    <3>3. job'[t].value = o /\ \A u \in Threads \ {t} : job'[u] = job[u]
      BY <3>1
    <3> QED
      BY <1>0, <1>13, <2>2, <3>1, <3>2, <3>3 DEF Compute
  <2> QED
    BY <2>1, <2>2
<1>14. CASE SetName(t)
  BY <1>14 DEF SetName, Begin
<1>15. CASE SetWrappedName(t)
  BY <1>15 DEF SetWrappedName, End
<1>16. CASE SetMirror(t)
  BY <1>16 DEF SetMirror, End
<1>17. CASE DelName(t)
  BY <1>17 DEF DelName, Begin
<1>18. CASE DelWrappedName(t)
  BY <1>18 DEF DelWrappedName, End
<1>19. CASE Use(t)
  BY <1>19 DEF Use
<1>20. CASE Find(t)
  BY <1>20 DEF Find
<1>21. CASE Delegate(t)
  BY <1>21 DEF Delegate, Having
<1> QED
  BY <1>1, <1>2, <1>3, <1>4, <1>5, <1>6, <1>7, <1>8, <1>9, <1>10, <1>11, <1>12, <1>13,
     <1>14, <1>15, <1>16, <1>17, <1>18, <1>19, <1>20, <1>21 DEF Step

(* Only Compute makes something of an object. *)
LEMMA KeepsApplied ==
  ASSUME IInv, NEW t \in Threads, Step(t)
  PROVE  Applied'
<1> USE DEF IInv, TypeOK, Applied
<1>1. CASE operand' = operand /\ label[t] # "store"
           /\ \A u \in Threads \ {t} : label'[u] = label[u]
  BY <1>1
<1>2. CASE Store(t)
  <2>1. label'[t] = "unname" /\ operand'[t] = NoObject
    BY <1>2 DEF Store
  <2>2. \A u \in Threads \ {t} : label'[u] = label[u] /\ operand'[u] = operand[u]
    BY <1>2 DEF Store
  <2> QED
    BY <2>1, <2>2
<1>3. CASE Compute(t)
  <2>1. CASE label'[t] = "store" /\ operand' = [operand EXCEPT ![t] = wrapped]
    <3>1. \A u \in Threads \ {t} : label'[u] = label[u] /\ operand'[u] = operand[u]
      BY <1>3, <2>1 DEF Compute, End
    <3> QED
      BY <2>1, <3>1
  <2>2. CASE End(t, FALSE)
    BY <1>1, <1>3, <2>2 DEF Compute, End
  <2> QED
    BY <1>3, <2>1, <2>2 DEF Compute
<1>4. CASE Assign(t) \/ Inplace(t) \/ SetName(t) \/ DelName(t)
  BY <1>1, <1>4 DEF Assign, Inplace, SetName, DelName, Begin
<1> QED
  BY <1>1, <1>2, <1>3, <1>4 DEF Step, Unname, Rename, Fixups, Visit, Add, Check, Drop,
     Assigned, HasOperator, SetWrappedName, SetMirror, DelWrappedName, Use, Find, Delegate, End

(* An assignment that comes in between an in-place operator is noticed. *)
LEMMA KeepsUncut ==
  ASSUME IInv, NEW t \in Threads, Step(t)
  PROVE  Uncut'
<1> USE DEF IInv, TypeOK, Uncut
<1>1. CASE Store(t)
  BY <1>1 DEF Store, Overtaken, Applied
<1>2. ASSUME UNCHANGED wrapped, outrun \ {t} \subseteq outrun',
             \A u \in Threads \ {t} : label'[u] = label[u] /\ operand'[u] = operand[u],
             label'[t] = "compute" => wrapped \in Mutable,
             label'[t] = "store" => operand'[t] \in {NoObject} \cup (Mutable \cap {wrapped})
                                    \/ t \in outrun'
      PROVE  Uncut'
  BY <1>2
<1>3. CASE Assign(t) \/ Inplace(t) \/ SetName(t) \/ DelName(t)
  <2>1. label[t] # "store" /\ label'[t] # "compute" /\ UNCHANGED <<wrapped, operand, outrun>>
        /\ \A u \in Threads \ {t} : label'[u] = label[u]
    BY <1>3 DEF Assign, Inplace, SetName, DelName, Begin
  <2> QED
    BY <1>2, <2>1 DEF Applied
<1>4. CASE HasOperator(t)
  <2>1. /\ UNCHANGED <<wrapped, operand>> /\ outrun \ {t} \subseteq outrun'
        /\ (label'[t] = "compute" /\ wrapped \in Mutable) \/ label'[t] = "idle"
        /\ \A u \in Threads \ {t} : label'[u] = label[u]
    BY <1>4 DEF HasOperator, End
  <2> QED
    BY <1>2, <2>1
<1>5. CASE Compute(t)
  <2>1. UNCHANGED wrapped /\ outrun \ {t} \subseteq outrun'
        /\ \A u \in Threads \ {t} : label'[u] = label[u] /\ operand'[u] = operand[u]
    BY <1>5 DEF Compute, End
  <2>2. \/ label'[t] = "store" /\ operand'[t] = wrapped /\ outrun' = outrun
        \/ label'[t] = "idle"
    BY <1>5 DEF Compute, End
  <2>3. t \in outrun \/ wrapped \in Mutable
    BY <1>5 DEF Compute
  <2> QED
    BY <1>2, <2>1, <2>2, <2>3
<1>6. CASE ~Store(t) /\ ~HasOperator(t) /\ ~Compute(t)
           /\ ~(Assign(t) \/ Inplace(t) \/ SetName(t) \/ DelName(t))
  <2>1. /\ UNCHANGED <<wrapped, operand>> /\ outrun \ {t} \subseteq outrun'
        /\ label'[t] \notin {"compute", "store"}
        /\ \A u \in Threads \ {t} : label'[u] = label[u]
    BY <1>6 DEF Step, Unname, Rename, Fixups, Visit, Add, Check, Drop, Assigned,
       SetWrappedName, SetMirror, DelWrappedName, Use, Find, Delegate, End
  <2> QED
    BY <1>2, <2>1
<1> QED
  BY <1>1, <1>3, <1>4, <1>5, <1>6

(* The invariant holds. *)
THEOREM Invariance == Spec => []IInv
<1>1. IInv /\ [Next]_vars => IInv'
  <2> SUFFICES ASSUME IInv, [Next]_vars PROVE IInv'
    OBVIOUS
  <2>1. CASE UNCHANGED vars
    BY <2>1 DEF IInv, TypeOK, Flow, MethodsKept, Kept, Always, Provided, Uncut, Applied,
                Current, vars
  <2>2. CASE Next
    <3>1. PICK t \in Threads : Step(t)
      BY <2>2 DEF Next, Step
    <3>2. TypeOK' /\ Flow' /\ Uncut' /\ Applied'
      BY <3>1, KeepsType, KeepsFlow, KeepsApplied, KeepsUncut
    <3>3. MethodsKept'
      BY <3>1, KeepsMethods DEF MethodsKept
    <3> QED
      BY <3>2, <3>3 DEF IInv
  <2> QED
    BY <2>1, <2>2
<1> QED
  BY <1>1, InitEstablishes, PTL DEF Spec

(* A shared proxy's state has its type: in particular its class never loses a
   method of its own to the fixups, which only put in and take out the others. *)
THEOREM TypeCorrectness == Spec => []TypeOK
<1>1. IInv => TypeOK
  BY DEF IInv
<1> QED
  BY <1>1, Invariance, PTL

(* No use of a method that all wrapped objects have is refused, however many
   threads assign to the proxy at the same time (AutoObjectProxy's fixups). *)
THEOREM UsesAreAnswered == Spec => []UsesAnswered
<1>1. IInv => UsesAnswered
  <2> SUFFICES ASSUME IInv, NEW t \in Threads, label[t] = "refused"
               PROVE  ~Always(Methods[job[t].method])
    BY DEF UsesAnswered
  <2>1. Methods[job[t].method] \in Range(Methods)
    BY DEF IInv, TypeOK, Jobs, Range
  <2> QED
    BY <2>1 DEF IInv, MethodsKept, Kept
<1> QED
  BY <1>1, Invariance, PTL

(* However many threads assign to a proxy and run in-place operators on it, an
   operator that no assignment has come in between is applied only to an object
   that has it, and replaces only that object. *)
THEOREM InplaceKeepsObject == Spec => []InplaceKeeps
<1>1. IInv => InplaceKeeps
  BY DEF IInv, Uncut, InplaceKeeps
<1> QED
  BY <1>1, Invariance, PTL

-----------------------------------------------------------------------------
(* What one change that overlaps with no other leaves behind *)

SupportAgrees == Provided = Interface[wrapped] \cup Static

NameAgrees == GetName = nameOf[wrapped]

(* Whatever overlaps with another change is known to, and so is a proxy that is not
   to be relied on. *)
Sole ==
  \A t \in Threads : label[t] \in Changing =>
    /\ clean => alone[t]
    /\ alone[t] => \A u \in Threads : label[u] \in Changing => u = t

Visited(t) == {Methods[i] : i \in 1 .. job[t].visited}

(* How far an assignment has got that is alone: the name goes before the methods;
   those that the fixups have visited are as the object has them, and the others are
   as the fixups found them. *)
Repairs(t) ==
  alone[t] =>
    /\ label[t] \in {"unname", "rename"} => wrapped = job[t].value
    /\ label[t] = "rename" => mirror = NoName
    /\ label[t] \in {"fixups", "visit", "add", "check", "drop"} => NameAgrees
    /\ label[t] \in {"visit", "add", "check", "drop"} =>
         \A m \in Range(Methods) :
           IF m \in Visited(t) THEN m \in Provided <=> m \in Interface[wrapped] \cup Static
                               ELSE m \in Provided <=> m \in job[t].found
    /\ label[t] = "add" => Current(t) \in Interface[wrapped]
    /\ label[t] \in {"check", "drop"} => Current(t) \notin Interface[wrapped]
    /\ label[t] = "drop" => Current(t) \in added

(* The same for the changes that repair nothing, of a proxy that agrees. *)
Orderly ==
  clean =>
    /\ (\A t \in Threads : label[t] \notin Changing) => SupportAgrees /\ NameAgrees
    /\ \A t \in Threads :
         /\ label[t] \in {"operate", "compute", "setName", "mirror", "delName"} => SupportAgrees
         /\ label[t] \in {"operate", "compute", "setName"} => NameAgrees
         /\ label[t] \in {"setName", "mirror"} => job[t].name \in Names
         /\ label[t] = "mirror" => nameOf[wrapped] = job[t].name
         /\ label[t] = "delName" => mirror = NoName

(* The fixups start with the first method. *)
Fresh ==
  \A t \in Threads : label[t] \notin {"visit", "add", "check", "drop"} => job[t].visited = 0

Sync == Fresh /\ Sole /\ (\A t \in Threads : Repairs(t)) /\ Orderly

(* A step of t that leaves another change of u alone leaves it undisturbed. *)
LEMMA Undisturbed ==
  ASSUME IInv, Sole, NEW t \in Threads, Step(t), NEW u \in Threads \ {t},
         label[u] \in Changing, alone'[u]
  PROVE  alone[u] /\ UNCHANGED <<proxyVars, nameOf, label[u], job[u]>>
<1> USE DEF IInv, TypeOK
<1>1. ~Assign(t) /\ ~Inplace(t) /\ ~SetName(t) /\ ~DelName(t)
  BY DEF Assign, Inplace, SetName, DelName, Begin
<1>2. alone[u]
  BY <1>1 DEF Step, Store, Unname, Rename, Fixups, Visit, Add, Check, Drop, Assigned,
     HasOperator, Compute, SetWrappedName, SetMirror, DelWrappedName, Use, Find, Delegate, End
<1>3. label[t] \notin Changing
  BY <1>2 DEF Sole
<1>4. Use(t) \/ Find(t) \/ Delegate(t)
  BY <1>1, <1>3 DEF Step, Store, Unname, Rename, Fixups, Visit, Add, Check, Drop, Assigned,
     HasOperator, Compute, SetWrappedName, SetMirror, DelWrappedName
<1> QED
  BY <1>2, <1>4 DEF Use, Find, Delegate

(* Overlapping changes are told from those that are alone. *)
LEMMA KeepsSole ==
  ASSUME IInv, Sole, NEW t \in Threads, Step(t)
  PROVE  Sole'
<1> USE DEF IInv, TypeOK
<1>1. CASE Assign(t) \/ Inplace(t) \/ SetName(t) \/ DelName(t)
  <2>1. \E l \in Changing : Begin(t, l)
    BY <1>1 DEF Assign, Inplace, SetName, DelName
  <2>2. PICK l \in Changing : Begin(t, l)
    BY <2>1
  <2>3. CASE {u \in Threads \ {t} : label[u] \in Changing} = {}
    <3>1. \A u \in Threads : label'[u] \in Changing => u = t
      BY <2>2, <2>3 DEF Begin
    <3>2. alone'[t]
      BY <2>2, <2>3 DEF Begin
    <3> QED
      BY <3>1, <3>2 DEF Sole
  <2>4. CASE {u \in Threads \ {t} : label[u] \in Changing} # {}
    <3>1. clean' = FALSE /\ alone'[t] = FALSE
      BY <2>2, <2>4 DEF Begin
    <3>2. \A u \in Threads \ {t} : label'[u] \in Changing => alone'[u] = FALSE
      BY <2>2, <2>4 DEF Begin
    <3> QED
      BY <3>1, <3>2 DEF Sole
  <2> QED
    BY <2>3, <2>4
<1>2. ASSUME label[t] \in Changing, NEW l \in Labels, Goto(t, l), UNCHANGED <<alone, clean>>
      PROVE  Sole'
  BY <1>2 DEF Sole
<1>3. ASSUME label[t] \in Changing, NEW r \in BOOLEAN, End(t, r)
      PROVE  Sole'
  BY <1>3 DEF Sole, End
<1>4. CASE Use(t) \/ Find(t) \/ Delegate(t)
  BY <1>4 DEF Use, Find, Delegate, Sole
<1>5. CASE \/ Store(t) \/ Unname(t) \/ Rename(t) \/ Fixups(t) \/ Visit(t) \/ Add(t)
           \/ Check(t)
  <2>1. label[t] \in Changing /\ UNCHANGED <<alone, clean>> /\ \E l \in Labels : Goto(t, l)
    BY <1>5 DEF Store, Unname, Rename, Fixups, Visit, Add, Check
  <2> QED
    BY <1>2, <2>1
<1>6. CASE Drop(t) \/ HasOperator(t) \/ Compute(t) \/ SetWrappedName(t)
  <2>1. /\ label[t] \in Changing
        /\ \/ UNCHANGED <<alone, clean>> /\ \E l \in Labels : Goto(t, l)
           \/ \E r \in BOOLEAN : End(t, r)
    BY <1>6 DEF Drop, HasOperator, Compute, SetWrappedName
  <2> QED
    BY <1>2, <1>3, <2>1
<1>7. CASE Assigned(t) \/ SetMirror(t) \/ DelWrappedName(t)
  <2>1. label[t] \in Changing /\ \E r \in BOOLEAN : End(t, r)
    BY <1>7 DEF Assigned, SetMirror, DelWrappedName
  <2> QED
    BY <1>3, <2>1
<1> QED
  BY <1>1, <1>4, <1>5, <1>6, <1>7 DEF Step

(* Every step starts the fixups anew. *)
LEMMA KeepsFresh ==
  ASSUME IInv, Fresh, NEW t \in Threads, Step(t)
  PROVE  Fresh'
<1> USE DEF IInv, TypeOK, Fresh, Jobs
<1>0. ASSUME label[t] \notin {"visit", "add", "check", "drop"},
             job'[t].visited = job[t].visited,
             \A u \in Threads \ {t} : label'[u] = label[u] /\ job'[u] = job[u]
      PROVE  Fresh'
  BY <1>0
<1>1. CASE Assign(t) \/ SetName(t)
  <2>1. label[t] \notin {"visit", "add", "check", "drop"}
    BY <1>1 DEF Assign, SetName, Begin
  <2>2. \/ \E o \in Objects : job' = [job EXCEPT ![t].value = o]
        \/ \E n \in Names : job' = [job EXCEPT ![t].name = n]
    BY <1>1 DEF Assign, SetName
  <2>3. /\ job'[t].visited = job[t].visited
        /\ \A u \in Threads \ {t} : job'[u] = job[u]
    BY <2>2
  <2>4. \A u \in Threads \ {t} : label'[u] = label[u]
    BY <1>1 DEF Assign, SetName, Begin
  <2> QED
    BY <1>0, <2>1, <2>3, <2>4
<1>2. CASE \/ Inplace(t) \/ DelName(t) \/ Store(t) \/ Unname(t) \/ Rename(t)
           \/ (Compute(t) /\ ~End(t, FALSE)) \/ Find(t) \/ Delegate(t)
  <2>1. label[t] \notin {"visit", "add", "check", "drop"}
    BY <1>2 DEF Inplace, DelName, Begin, Store, Unname, Rename, Compute, Find, Delegate
  <2>2. UNCHANGED job \/ \E o : job' = [job EXCEPT ![t].value = o]
    BY <1>2 DEF Inplace, DelName, Store, Unname, Rename, Compute, Find, Delegate
  <2>3. /\ job'[t].visited = job[t].visited
        /\ \A u \in Threads \ {t} : job'[u] = job[u]
    BY <2>2
  <2>4. \A u \in Threads \ {t} : label'[u] = label[u]
    BY <1>2 DEF Inplace, DelName, Begin, Store, Unname, Rename, Compute, Find, Delegate
  <2> QED
    BY <1>0, <2>1, <2>3, <2>4
<1>8. CASE Use(t)
  <2>1. label[t] \notin {"visit", "add", "check", "drop"}
    BY <1>8 DEF Use
  <2>2. /\ job'[t].visited = job[t].visited
        /\ \A u \in Threads \ {t} : label'[u] = label[u] /\ job'[u] = job[u]
    BY <1>8 DEF Use
  <2> QED
    BY <1>0, <2>1, <2>2
<1>3. CASE Fixups(t) \/ Visit(t) \/ Add(t) \/ Check(t)
  <2>1. /\ label'[t] \in {"visit", "add", "check", "drop"}
        /\ \A u \in Threads \ {t} : label'[u] = label[u] /\ job'[u] = job[u]
    BY <1>3 DEF Fixups, Visit, Add, Check
  <2> QED
    BY <2>1
<1>4. ASSUME NEW r, End(t, r) PROVE Fresh'
  BY <1>4 DEF End, NoJob
<1>5. CASE Drop(t) /\ GoOn(t)
  <2>1. /\ label'[t] = "visit"
        /\ \A u \in Threads \ {t} : label'[u] = label[u] /\ job'[u] = job[u]
    BY <1>5
  <2> QED
    BY <2>1
<1>6. CASE Assigned(t) \/ SetMirror(t) \/ DelWrappedName(t) \/ (Drop(t) /\ ~GoOn(t))
           \/ (Compute(t) /\ End(t, FALSE))
  BY <1>4, <1>6 DEF Assigned, SetMirror, DelWrappedName, Drop
<1>7. CASE HasOperator(t) \/ SetWrappedName(t)
  BY <1>4, <1>7 DEF HasOperator, SetWrappedName
<1> QED
  BY <1>1, <1>2, <1>3, <1>5, <1>6, <1>7, <1>8 DEF Step

(* The method that the fixups are at is the next one they have visited. *)
LEMMA OneMoreVisited ==
  ASSUME IInv, NEW t \in Threads, job[t].visited < Len(Methods), GoOn(t)
  PROVE  /\ Visited(t)' = Visited(t) \cup {Current(t)}
         /\ job'[t].found = job[t].found
         /\ Current(t) \in Range(Methods)
<1>1. job[t] \in Jobs /\ job[t].visited \in Nat /\ Len(Methods) \in Nat
  BY DEF IInv, TypeOK, Jobs
<1>2. job'[t].visited = job[t].visited + 1 /\ job'[t].found = job[t].found
  BY <1>1 DEF IInv, TypeOK, Jobs
<1>3. 1 .. (job[t].visited + 1) = (1 .. job[t].visited) \cup {job[t].visited + 1}
  BY <1>1
<1>4. Current(t) \in Range(Methods)
  <2>1. job[t].visited + 1 \in DOMAIN Methods
    BY <1>1
  <2> QED
    BY <2>1 DEF Current, Range
<1> QED
  BY <1>2, <1>3, <1>4 DEF Visited, Current

(* An assignment that is alone gets on with its repair. *)
LEMMA KeepsRepairs ==
  ASSUME IInv, Fresh, NEW t \in Threads, Repairs(t), Step(t), alone'[t]
  PROVE  Repairs(t)'
<1> USE DEF IInv, TypeOK
<1>1. CASE Assign(t) \/ Inplace(t) \/ SetName(t) \/ DelName(t)
  <2>1. label'[t] \in {"store", "operate", "setName", "delName"}
    BY <1>1 DEF Assign, Inplace, SetName, DelName, Begin
  <2> QED
    BY <2>1 DEF Repairs
<1>2. CASE Store(t)
  BY <1>2 DEF Store, Repairs
<1>3. CASE Unname(t)
  BY <1>3 DEF Unname, Repairs
<1>4. CASE Rename(t)
  <2>1. label'[t] = "fixups" /\ wrapped = job[t].value /\ mirror = NoName
        /\ UNCHANGED <<wrapped, nameOf>>
    BY <1>4 DEF Rename, Repairs
  <2>2. NameAgrees'
    BY <1>4, <2>1 DEF Rename, NameAgrees, GetName
  <2> QED
    BY <2>1, <2>2 DEF Repairs
<1>5. CASE Fixups(t)
  <2>1. /\ label'[t] = "visit" /\ UNCHANGED <<proxyVars, nameOf>> /\ NameAgrees
        /\ job'[t].found = Provided
        /\ job'[t].visited = job[t].visited
    BY <1>5 DEF Fixups, Repairs, Jobs
  <2>2. job[t].visited = 0
    BY <1>5 DEF Fixups, Fresh
  <2>3. Visited(t)' = {}
    BY <2>1, <2>2 DEF Visited
  <2> QED
    BY <2>1, <2>3 DEF Repairs, NameAgrees, GetName, Provided
<1>6. ASSUME label[t] \in {"visit", "add", "check", "drop"}, alone[t],
             UNCHANGED <<wrapped, mirror, nameOf>>,
             job[t].visited < Len(Methods), GoOn(t),
             Current(t) \in Provided' <=> Current(t) \in Interface[wrapped] \cup Static,
             \A m \in Range(Methods) \ {Current(t)} : m \in Provided' <=> m \in Provided
      PROVE  Repairs(t)'
  <2>1. Visited(t)' = Visited(t) \cup {Current(t)} /\ job'[t].found = job[t].found
    BY <1>6, OneMoreVisited
  <2>2. label'[t] = "visit"
    BY <1>6
  <2>3. NameAgrees'
    BY <1>6 DEF Repairs, NameAgrees, GetName
  <2>4. ASSUME NEW m \in Range(Methods)
        PROVE  IF m \in Visited(t)'
               THEN m \in Provided' <=> m \in Interface[wrapped'] \cup Static
               ELSE m \in Provided' <=> m \in job'[t].found
    BY <1>6, <2>1, <2>4 DEF Repairs
  <2> QED
    BY <2>2, <2>3, <2>4 DEF Repairs
<1>7. CASE Visit(t)
  <2>1. /\ alone[t] /\ label[t] = "visit" /\ UNCHANGED <<proxyVars, nameOf>>
        /\ job[t].visited < Len(Methods)
    BY <1>7 DEF Visit
  <2>2. CASE label'[t] \in {"check", "add"} /\ UNCHANGED job
    <3>1. Visited(t)' = Visited(t) /\ Current(t)' = Current(t) /\ NameAgrees' = NameAgrees
          /\ Provided' = Provided
      BY <2>1, <2>2 DEF Visited, Current, NameAgrees, GetName, Provided
    <3>2. /\ label'[t] = "add" => Current(t) \in Interface[wrapped]
          /\ label'[t] = "check" => Current(t) \notin Interface[wrapped]
      BY <1>7, <2>1, <2>2 DEF Visit
    <3> QED
      BY <2>1, <2>2, <3>1, <3>2 DEF Repairs
  <2>3. CASE GoOn(t)
    <3>1. Current(t) \in Interface[wrapped] /\ Current(t) \in job[t].found
      BY <1>7, <2>3 DEF Visit
    <3>2. Current(t) \in Provided
      BY <2>1, <3>1, <2>3, OneMoreVisited DEF Repairs
    <3> QED
      BY <1>6, <2>1, <2>3, <3>1, <3>2 DEF Provided
  <2> QED
    BY <1>7, <2>2, <2>3 DEF Visit
<1>8. CASE Add(t)
  <2>1. /\ alone[t] /\ UNCHANGED <<wrapped, mirror, nameOf>> /\ GoOn(t)
        /\ job[t].visited < Len(Methods) /\ Current(t) \in Interface[wrapped]
        /\ added' = added \cup {Current(t)}
    BY <1>8 DEF Add, Repairs, Flow
  <2> QED
    BY <1>6, <1>8, <2>1 DEF Provided, Add
<1>9. CASE Check(t)
  <2>1. /\ alone[t] /\ label[t] = "check" /\ UNCHANGED <<proxyVars, nameOf>>
        /\ job[t].visited < Len(Methods) /\ Current(t) \notin Interface[wrapped]
    BY <1>9 DEF Check, Repairs, Flow
  <2>2. CASE label'[t] = "drop" /\ UNCHANGED job /\ Current(t) \in added
    <3>1. Visited(t)' = Visited(t) /\ Current(t)' = Current(t) /\ NameAgrees' = NameAgrees
          /\ Provided' = Provided
      BY <2>1, <2>2 DEF Visited, Current, NameAgrees, GetName, Provided
    <3> QED
      BY <2>1, <2>2, <3>1 DEF Repairs
  <2>3. CASE GoOn(t) /\ Current(t) \notin added
    BY <1>6, <2>1, <2>3 DEF Provided
  <2> QED
    BY <1>9, <2>2, <2>3 DEF Check
<1>10. CASE Drop(t) /\ Current(t) \in added
  <2>1. /\ alone[t] /\ UNCHANGED <<wrapped, mirror, nameOf>> /\ GoOn(t)
        /\ job[t].visited < Len(Methods) /\ Current(t) \notin Interface[wrapped]
        /\ added' = added \ {Current(t)} /\ Current(t) \notin Static
    BY <1>10 DEF Drop, Repairs, Flow
  <2> QED
    BY <1>6, <1>10, <2>1 DEF Provided, Drop
<1>11. ASSUME label'[t] \in {"idle", "compute", "find", "call", "refused", "mirror", "store"}
       PROVE  Repairs(t)'
  BY <1>11 DEF Repairs
<1>12. CASE \/ Drop(t) /\ Current(t) \notin added
            \/ Assigned(t) \/ HasOperator(t) \/ Compute(t) \/ SetWrappedName(t)
            \/ SetMirror(t) \/ DelWrappedName(t) \/ Use(t) \/ Find(t) \/ Delegate(t)
  <2>1. label'[t] \in {"idle", "compute", "find", "call", "refused", "mirror", "store"}
    BY <1>12 DEF Drop, Assigned, HasOperator, Compute, SetWrappedName, SetMirror,
                 DelWrappedName, Use, Find, Delegate, End
  <2> QED
    BY <1>11, <2>1
<1> QED
  BY <1>1, <1>2, <1>3, <1>4, <1>5, <1>7, <1>8, <1>9, <1>10, <1>12 DEF Step

(* A proxy that agrees is left so by changes that do not overlap, and an assignment
   that was alone has made it agree. *)
LEMMA KeepsOrderly ==
  ASSUME IInv, Fresh, Sole, Orderly, NEW t \in Threads, Repairs(t), Step(t)
  PROVE  Orderly'
<1> SUFFICES ASSUME clean' PROVE Orderly'
  BY DEF Orderly
<1> USE DEF IInv, TypeOK
<1>1. CASE label[t] \notin Changing
  <2>1. CASE Assign(t) \/ Inplace(t) \/ SetName(t) \/ DelName(t)
    <3>1. clean /\ \A u \in Threads : label[u] \notin Changing
      BY <1>1, <2>1 DEF Assign, Inplace, SetName, DelName, Begin
    <3>2. SupportAgrees /\ NameAgrees
      BY <3>1 DEF Orderly
    <3>3. /\ UNCHANGED <<wrapped, added, nameOf>>
          /\ label'[t] \in {"store", "operate", "setName", "delName"}
          /\ label'[t] # "delName" => mirror' = mirror
          /\ label'[t] = "delName" => mirror' = NoName
          /\ label'[t] = "setName" => job'[t].name \in Names
          /\ \A u \in Threads \ {t} : label'[u] = label[u]
      <4>1. CASE Assign(t) \/ Inplace(t)
        BY <4>1 DEF Assign, Inplace, Begin
      <4>2. CASE SetName(t)
        <5>1. PICK n \in Names : job' = [job EXCEPT ![t].name = n]
          BY <4>2 DEF SetName
        <5>2. job'[t].name = n
          BY <5>1 DEF Jobs
        <5> QED
          BY <4>2, <5>2 DEF SetName, Begin
      <4>3. CASE DelName(t)
        BY <4>3 DEF DelName, Begin
      <4> QED
        BY <2>1, <4>1, <4>2, <4>3
    <3> QED
      BY <3>1, <3>2, <3>3 DEF Orderly, SupportAgrees, NameAgrees, GetName, Provided
  <2>2. CASE Use(t) \/ Find(t) \/ Delegate(t)
    <3>1. /\ UNCHANGED <<proxyVars, nameOf, history>> /\ label'[t] \notin Changing
          /\ \A u \in Threads \ {t} : label'[u] = label[u] /\ job'[u] = job[u]
      BY <2>2 DEF Use, Find, Delegate
    <3> QED
      BY <1>1, <3>1 DEF Orderly, SupportAgrees, NameAgrees, GetName, Provided
  <2> QED
    BY <1>1, <2>1, <2>2 DEF Step, Store, Unname, Rename, Fixups, Visit, Add, Check, Drop,
       Assigned, HasOperator, Compute, SetWrappedName, SetMirror, DelWrappedName
<1>2. CASE label[t] \in Changing
  <2>1. alone[t]
    BY <1>2 DEF Sole, Step, Assign, Inplace, SetName, DelName, Begin, Store, Unname, Rename,
       Fixups, Visit, Add, Check, Drop, Assigned, HasOperator, Compute, SetWrappedName,
       SetMirror, DelWrappedName, Use, Find, Delegate, End
  <2>2. \A u \in Threads \ {t} : label[u] \notin Changing /\ label'[u] = label[u]
    <3>1. \A u \in Threads \ {t} : label[u] \notin Changing
      BY <1>2, <2>1 DEF Sole
    <3>2. \A u \in Threads \ {t} : label'[u] = label[u]
      BY DEF Step, Assign, Inplace, SetName, DelName, Begin, Store, Unname, Rename,
         Fixups, Visit, Add, Check, Drop, Assigned, HasOperator, Compute, SetWrappedName,
         SetMirror, DelWrappedName, Use, Find, Delegate, End
    <3> QED
      BY <3>1, <3>2
  <2>3. ASSUME label'[t] \in Changing \ {"operate", "compute", "setName", "mirror", "delName"}
        PROVE  Orderly'
    BY <2>2, <2>3 DEF Orderly
  <2>4. ASSUME label'[t] = "idle", SupportAgrees', NameAgrees'
        PROVE  Orderly'
    BY <2>2, <2>4 DEF Orderly
  <2>5. CASE \/ Store(t) \/ Unname(t) \/ Rename(t) \/ Fixups(t) \/ Visit(t) \/ Add(t)
             \/ Check(t)
    <3>1. label'[t] \in Changing \ {"operate", "compute", "setName", "mirror", "delName"}
      BY <2>5 DEF Store, Unname, Rename, Fixups, Visit, Add, Check
    <3> QED
      BY <2>3, <3>1
  <2>6. CASE Drop(t)
    <3>1. Current(t) \in added
      BY <2>1, <2>6 DEF Drop, Repairs
    <3>2. label'[t] = "visit"
      BY <2>6, <3>1 DEF Drop
    <3> QED
      BY <2>3, <3>2
  <2>7. CASE Assigned(t)
    <3>1. /\ label'[t] = "idle" /\ UNCHANGED <<proxyVars, nameOf>> /\ NameAgrees
          /\ job[t].visited = Len(Methods)
          /\ \A m \in Range(Methods) :
               IF m \in Visited(t) THEN m \in Provided <=> m \in Interface[wrapped] \cup Static
                                   ELSE m \in Provided <=> m \in job[t].found
      BY <2>1, <2>7 DEF Assigned, End, Repairs
    <3>2. Visited(t) = Range(Methods)
      BY <3>1 DEF Visited, Range
    <3>3. SupportAgrees
      <4>1. /\ Provided \subseteq Range(Methods)
            /\ Interface[wrapped] \cup Static \subseteq Range(Methods)
        BY DEF Provided
      <4> QED
        BY <3>1, <3>2, <4>1 DEF SupportAgrees
    <3> QED
      BY <2>4, <3>1, <3>3 DEF SupportAgrees, NameAgrees, GetName, Provided
  <2>8. CASE HasOperator(t) \/ Compute(t)
    <3>1. UNCHANGED <<proxyVars, nameOf>> /\ clean /\ label[t] \in {"operate", "compute"}
      BY <2>8 DEF HasOperator, Compute, End
    <3>2. label'[t] \in {"idle", "compute", "store"}
      BY <2>8 DEF HasOperator, Compute, End
    <3>3. SupportAgrees' /\ NameAgrees'
      BY <3>1 DEF Orderly, SupportAgrees, NameAgrees, GetName, Provided
    <3> QED
      BY <2>2, <2>3, <2>4, <3>2, <3>3 DEF Orderly
  <2>9. CASE SetWrappedName(t)
    <3>1. UNCHANGED proxyVars /\ clean /\ label[t] = "setName"
      BY <2>9 DEF SetWrappedName, End
    <3>2. SupportAgrees' /\ NameAgrees /\ job[t].name \in Names
      BY <3>1 DEF Orderly, SupportAgrees, Provided
    <3>3. CASE wrapped \in Nameable
      <4>1. label'[t] = "mirror" /\ UNCHANGED job /\ nameOf'[wrapped'] = job[t].name
        BY <2>9, <3>1, <3>3 DEF SetWrappedName
      <4> QED
        BY <2>2, <3>2, <4>1 DEF Orderly
    <3>4. CASE wrapped \notin Nameable
      <4>1. label'[t] = "idle" /\ UNCHANGED nameOf
        BY <2>9, <3>4 DEF SetWrappedName, End
      <4> QED
        BY <2>4, <3>1, <3>2, <4>1 DEF NameAgrees, GetName
    <3> QED
      BY <3>3, <3>4
  <2>10. CASE SetMirror(t)
    <3>1. /\ UNCHANGED <<wrapped, added, nameOf>> /\ clean /\ label[t] = "mirror"
          /\ mirror' = job[t].name /\ label'[t] = "idle"
      BY <2>10 DEF SetMirror, End
    <3>2. SupportAgrees /\ job[t].name \in Names /\ nameOf[wrapped] = job[t].name
      BY <3>1 DEF Orderly
    <3> QED
      BY <2>4, <3>1, <3>2 DEF SupportAgrees, NameAgrees, GetName, Provided
  <2>11. CASE DelWrappedName(t)
    <3>1. UNCHANGED proxyVars /\ clean /\ label[t] = "delName" /\ label'[t] = "idle"
      BY <2>11 DEF DelWrappedName, End
    <3>2. SupportAgrees /\ mirror = NoName
      BY <3>1 DEF Orderly
    <3> QED
      BY <2>4, <3>1, <3>2 DEF SupportAgrees, NameAgrees, GetName, Provided
  <2> QED
    BY <1>2, <2>5, <2>6, <2>7, <2>8, <2>9, <2>10, <2>11 DEF Step, Assign, Inplace, SetName,
       DelName, Begin, Use, Find, Delegate
<1> QED
  BY <1>1, <1>2

(* One assignment that overlaps with no other change repairs whatever overlapping
   ones have left, for any number of threads, objects and optional methods, and what
   does not overlap keeps the proxy in agreement with its object. *)
THEOREM AloneRepairs == Spec => []Agrees
<1>1. Init => Sync
  <2> SUFFICES ASSUME Init PROVE Sync
    OBVIOUS
  <2>1. SupportAgrees /\ NameAgrees
    BY DEF Init, SupportAgrees, NameAgrees, GetName, Provided, Created
  <2> QED
    BY <2>1 DEF Init, NoJob, Sync, Fresh, Sole, Repairs, Orderly
<1>2. IInv /\ Sync /\ [Next]_vars => Sync'
  <2> SUFFICES ASSUME IInv, Sync, [Next]_vars PROVE Sync'
    OBVIOUS
  <2>1. CASE UNCHANGED vars
    BY <2>1 DEF vars, Sync, Fresh, Sole, Repairs, Orderly, SupportAgrees, NameAgrees, GetName,
                Provided, Visited, Current
  <2>2. CASE Next
    <3>1. PICK t \in Threads : Step(t)
      BY <2>2 DEF Next, Step
    <3>2. Fresh' /\ Sole' /\ Orderly'
      BY <3>1, KeepsFresh, KeepsSole, KeepsOrderly DEF Sync
    <3>3. ASSUME NEW u \in Threads PROVE Repairs(u)'
      <4>1. CASE ~alone'[u]
        BY <4>1 DEF Repairs
      <4>2. CASE alone'[u] /\ u = t
        BY <3>1, <4>2, KeepsRepairs DEF Sync
      <4>3. CASE alone'[u] /\ u # t /\ label[u] \in Changing
        <5>1. alone[u] /\ UNCHANGED <<proxyVars, nameOf, label[u], job[u]>>
          BY <3>1, <4>3, Undisturbed DEF Sync
        <5> QED
          BY <5>1 DEF Sync, Repairs, NameAgrees, GetName, Provided, Visited, Current
      <4>4. CASE u # t /\ label[u] \notin Changing
        <5>1. label'[u] = label[u]
          BY <3>1, <4>4 DEF IInv, TypeOK, Step, Assign, Inplace, SetName, DelName, Begin,
             Store, Unname, Rename, Fixups, Visit, Add, Check, Drop, Assigned, HasOperator,
             Compute, SetWrappedName, SetMirror, DelWrappedName, Use, Find, Delegate, End
        <5> QED
          BY <4>4, <5>1 DEF Repairs
      <4> QED
        BY <4>1, <4>2, <4>3, <4>4
    <3> QED
      BY <3>2, <3>3 DEF Sync
  <2> QED
    BY <2>1, <2>2
<1>3. Sync => Agrees
  BY DEF Sync, Orderly, Agrees, SupportAgrees, NameAgrees
<1> QED
  BY <1>1, <1>2, <1>3, Invariance, PTL DEF Spec
=============================================================================
