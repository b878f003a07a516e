----------------------- MODULE ProjectRegistryProofs -----------------------
(* ProjectRegistry: one project per root and its files whole, for any number of callers, *)
(* roots and ids.                                                                        *)
EXTENDS ProjectRegistry, TLAPS

Locked  == {"load", "choose", "mkdir", "project", "index", "return"}
Loaded  == {"choose", "mkdir", "project", "index"}
Chosen  == {"mkdir", "project", "index"}

\* What a call knows is still true: the holder of the lock has read the index as it is,
\* and its new record shares neither id nor root with any that is there.
CallInv(c) ==
    /\ pc[c] \in Locked => holder = c
    /\ pc[c] \in Loaded \cup {"lock", "load"} => mem[c].root \in Roots
    /\ pc[c] \in Loaded => mem[c].loaded = index
    /\ pc[c] \in Chosen =>
         /\ mem[c].record \in Records
         /\ \A r \in index : r.id # mem[c].record.id /\ r.root # mem[c].record.root
    /\ pc[c] = "index" => Valid(mem[c].record)
    /\ pc[c] \in {"return", "found"} => mem[c].record \in index

IndexInv ==
    /\ Decodes /\ IndexedProjectsWhole /\ AnswersRegistered

IInv == TypeOK /\ IndexInv /\ \A c \in Callers : CallInv(c)

-----------------------------------------------------------------------------
USE RegistryAssumption

(* An empty registry.                                                                    *)
LEMMA InitIInv == Init => IInv
BY DEF Init, IInv, IndexInv, TypeOK, CallInv, Decodes, IndexedProjectsWhole, AnswersRegistered,
       Records, Steps, Idle, Locked, Loaded, Chosen

(* A caller starts to register a root.                                                   *)
LEMMA RegisterStep ==
    ASSUME IInv, NEW c \in Callers, NEW root \in Roots, Register(c, root)
    PROVE  IInv'
<1> USE DEF IInv, IndexInv, Register, Go, Over, Answer, Idle, files, Locked, Loaded, Chosen
<1>1. TypeOK'
  BY DEF TypeOK, CallInv, Steps, Records
<1>2. IndexInv'
  BY DEF CallInv, TypeOK, Decodes, IndexedProjectsWhole, AnswersRegistered, Valid, Records
<1>3. ASSUME NEW d \in Callers PROVE CallInv(d)'
  BY DEF CallInv, TypeOK, Valid, LockFree, NewRoot, Records
<1>4. QED
  BY <1>1, <1>2, <1>3

(* The lock is taken while nobody has it.                                                *)
LEMMA AcquireStep ==
    ASSUME IInv, NEW c \in Callers, Acquire(c)
    PROVE  IInv'
<1> USE DEF IInv, IndexInv, Acquire, Go, Over, Answer, Idle, files, Locked, Loaded, Chosen
<1>1. TypeOK'
  BY DEF TypeOK, CallInv, Steps, Records
<1>2. IndexInv'
  BY DEF CallInv, TypeOK, Decodes, IndexedProjectsWhole, AnswersRegistered, Valid, Records
<1>3. ASSUME NEW d \in Callers PROVE CallInv(d)'
  BY DEF CallInv, TypeOK, Valid, LockFree, NewRoot, Records
<1>4. QED
  BY <1>1, <1>2, <1>3

(* The index that is read stays the index while the lock is held.                        *)
LEMMA LoadStep ==
    ASSUME IInv, NEW c \in Callers, Load(c)
    PROVE  IInv'
<1> USE DEF IInv, IndexInv, Load, Go, Over, Answer, Idle, files, Locked, Loaded, Chosen
<1>1. TypeOK'
  BY DEF TypeOK, CallInv, Steps, Records
<1>2. IndexInv'
  BY DEF CallInv, TypeOK, Decodes, IndexedProjectsWhole, AnswersRegistered, Valid, Records
<1>3. ASSUME NEW d \in Callers PROVE CallInv(d)'
  BY DEF CallInv, TypeOK, Valid, LockFree, NewRoot, Records
<1>4. QED
  BY <1>1, <1>2, <1>3

(* The record of the root is in the index.                                               *)
LEMMA KnownStep ==
    ASSUME IInv, NEW c \in Callers, Known(c)
    PROVE  IInv'
<1> USE DEF IInv, IndexInv, Known, Go, Over, Answer, Idle, files, Locked, Loaded, Chosen
<1>1. TypeOK'
  BY DEF TypeOK, CallInv, Steps, Records
<1>2. IndexInv'
  BY DEF CallInv, TypeOK, Decodes, IndexedProjectsWhole, AnswersRegistered, Valid, Records
<1>3. ASSUME NEW d \in Callers PROVE CallInv(d)'
  BY DEF CallInv, TypeOK, Valid, LockFree, NewRoot, Records
<1>4. QED
  BY <1>1, <1>2, <1>3

(* The new record collides with none that was read.                                      *)
LEMMA GenerateStep ==
    ASSUME IInv, NEW c \in Callers, Generate(c)
    PROVE  IInv'
<1> USE DEF IInv, IndexInv, Generate, Go, Over, Answer, Idle, files, Locked, Loaded, Chosen
<1>1. TypeOK'
  BY DEF TypeOK, CallInv, Steps, Records
<1>2. IndexInv'
  BY DEF CallInv, TypeOK, Decodes, IndexedProjectsWhole, AnswersRegistered, Valid, Records
<1>3. ASSUME NEW d \in Callers PROVE CallInv(d)'
  BY DEF CallInv, TypeOK, Valid, LockFree, NewRoot, Records
<1>4. QED
  BY <1>1, <1>2, <1>3

(* The directory is made.                                                                *)
LEMMA MakeProjectStep ==
    ASSUME IInv, NEW c \in Callers, MakeProject(c)
    PROVE  IInv'
<1> USE DEF IInv, IndexInv, MakeProject, Go, Over, Answer, Idle, files, Locked, Loaded, Chosen
<1>1. TypeOK'
  BY DEF TypeOK, CallInv, Steps, Records
<1>2. IndexInv'
  BY DEF CallInv, TypeOK, Decodes, IndexedProjectsWhole, AnswersRegistered, Valid, Records
<1>3. ASSUME NEW d \in Callers PROVE CallInv(d)'
  BY DEF CallInv, TypeOK, Valid, LockFree, NewRoot, Records
<1>4. QED
  BY <1>1, <1>2, <1>3

(* The project file belongs to a record that is not in the index yet.                    *)
LEMMA WriteProjectStep ==
    ASSUME IInv, NEW c \in Callers, WriteProject(c)
    PROVE  IInv'
<1> USE DEF IInv, IndexInv, WriteProject, Go, Over, Answer, Idle, files, Locked, Loaded, Chosen
<1>1. TypeOK'
  BY DEF TypeOK, CallInv, Steps, Records
<1>2. IndexInv'
  BY DEF CallInv, TypeOK, Decodes, IndexedProjectsWhole, AnswersRegistered, Valid, Records
<1>3. ASSUME NEW d \in Callers PROVE CallInv(d)'
  BY DEF CallInv, TypeOK, Valid, LockFree, NewRoot, Records
<1>4. QED
  BY <1>1, <1>2, <1>3

(* The record is added to all that are there.                                            *)
LEMMA WriteIndexStep ==
    ASSUME IInv, NEW c \in Callers, WriteIndex(c)
    PROVE  IInv'
<1> USE DEF IInv, IndexInv, WriteIndex, Go, Over, Answer, Idle, files, Locked, Loaded, Chosen
<1>1. TypeOK'
  BY DEF TypeOK, CallInv, Steps, Records
<1>2. IndexInv'
  BY DEF CallInv, TypeOK, Decodes, IndexedProjectsWhole, AnswersRegistered, Valid, Records
<1>3. ASSUME NEW d \in Callers PROVE CallInv(d)'
  BY DEF CallInv, TypeOK, Valid, LockFree, NewRoot, Records
<1>4. QED
  BY <1>1, <1>2, <1>3

(* A registered record is handed out.                                                    *)
LEMMA ReturnStep ==
    ASSUME IInv, NEW c \in Callers, Return(c)
    PROVE  IInv'
<1> USE DEF IInv, IndexInv, Return, Go, Over, Answer, Idle, files, Locked, Loaded, Chosen
<1>1. TypeOK'
  BY DEF TypeOK, CallInv, Steps, Records
<1>2. IndexInv'
  BY DEF CallInv, TypeOK, Decodes, IndexedProjectsWhole, AnswersRegistered, Valid, Records
<1>3. ASSUME NEW d \in Callers PROVE CallInv(d)'
  BY DEF CallInv, TypeOK, Valid, LockFree, NewRoot, Records
<1>4. QED
  BY <1>1, <1>2, <1>3

(* A reader takes a record of the index.                                                 *)
LEMMA LookUpStep ==
    ASSUME IInv, NEW c \in Callers, LookUp(c)
    PROVE  IInv'
<1> USE DEF IInv, IndexInv, LookUp, Go, Over, Answer, Idle, files, Locked, Loaded, Chosen
<1>1. TypeOK'
  BY DEF TypeOK, CallInv, Steps, Records
<1>2. IndexInv'
  BY DEF CallInv, TypeOK, Decodes, IndexedProjectsWhole, AnswersRegistered, Valid, Records
<1>3. ASSUME NEW d \in Callers PROVE CallInv(d)'
  BY DEF CallInv, TypeOK, Valid, LockFree, NewRoot, Records
<1>4. QED
  BY <1>1, <1>2, <1>3

(* Its record is in the index still.                                                     *)
LEMMA ConfirmStep ==
    ASSUME IInv, NEW c \in Callers, Confirm(c)
    PROVE  IInv'
<1> USE DEF IInv, IndexInv, Confirm, Go, Over, Answer, Idle, files, Locked, Loaded, Chosen
<1>1. TypeOK'
  BY DEF TypeOK, CallInv, Steps, Records
<1>2. IndexInv'
  BY DEF CallInv, TypeOK, Decodes, IndexedProjectsWhole, AnswersRegistered, Valid, Records
<1>3. ASSUME NEW d \in Callers PROVE CallInv(d)'
  BY DEF CallInv, TypeOK, Valid, LockFree, NewRoot, Records
<1>4. QED
  BY <1>1, <1>2, <1>3

(* The call ends and drops the lock.                                                     *)
LEMMA EndsStep ==
    ASSUME IInv, NEW c \in Callers, Ends(c)
    PROVE  IInv'
<1> USE DEF IInv, IndexInv, Ends, Go, Over, Answer, Idle, files, Locked, Loaded, Chosen
<1>1. TypeOK'
  BY DEF TypeOK, CallInv, Steps, Records
<1>2. IndexInv'
  BY DEF CallInv, TypeOK, Decodes, IndexedProjectsWhole, AnswersRegistered, Valid, Records
<1>3. ASSUME NEW d \in Callers PROVE CallInv(d)'
  BY DEF CallInv, TypeOK, Valid, LockFree, NewRoot, Records
<1>4. QED
  BY <1>1, <1>2, <1>3

-----------------------------------------------------------------------------
(* IInv is inductive.                                                                    *)
LEMMA NextIInv == IInv /\ [Next]_vars => IInv'
<1>1. ASSUME IInv, NEW c \in Callers, Proceed(c) PROVE IInv'
  BY <1>1, LoadStep, KnownStep, GenerateStep, MakeProjectStep, WriteProjectStep,
     WriteIndexStep, ReturnStep, ConfirmStep
     DEF Proceed
<1>2. ASSUME IInv, UNCHANGED vars PROVE IInv'
  BY <1>2 DEF vars, IInv, IndexInv, TypeOK, CallInv, Decodes, IndexedProjectsWhole,
              AnswersRegistered, Valid
<1>3. QED
  BY <1>1, <1>2, RegisterStep, AcquireStep, LookUpStep, EndsStep DEF Next

THEOREM Invariance == Spec => []IInv
<1>1. IInv /\ [Next]_vars => IInv'
  BY NextIInv
<1>2. QED
  BY <1>1, InitIInv, PTL DEF Spec

(* A root has one project and a project one root, for all that are registered and all    *)
(* that were ever handed out (register).                                                 *)
THEOREM RootsHaveOneIdentity == Spec => []OneIdentity
<1>1. IInv => OneIdentity
  BY DEF IInv, IndexInv, Decodes, AnswersRegistered, OneIdentity
<1>2. QED
  BY <1>1, Invariance, PTL

(* The project file of every registered root is there and its own                        *)
(* (_validate_project_file).                                                             *)
THEOREM ProjectsAreWhole == Spec => []IndexedProjectsWhole
<1>1. IInv => IndexedProjectsWhole
  BY DEF IInv, IndexInv
<1>2. QED
  BY <1>1, Invariance, PTL

(* No registration is lost to another one (_write_unlocked under the registry lock).     *)
THEOREM RegistrationsAreKept == Spec => []AnswersRegistered
<1>1. IInv => AnswersRegistered
  BY DEF IInv, IndexInv
<1>2. QED
  BY <1>1, Invariance, PTL

(* Type correctness.                                                                     *)
THEOREM RegistryTypeOK == Spec => []TypeOK
<1>1. IInv => TypeOK
  BY DEF IInv
<1>2. QED
  BY <1>1, Invariance, PTL

-----------------------------------------------------------------------------
\* The lock is held by a call that is past it, so that a waiter waits for one that can go on.
HeldInside == holder # None => pc[holder] \in Locked

(* A lock that is held is given back by the step that ends its call, and by no other.     *)
LEMMA NextHeldInside ==
    ASSUME IInv, HeldInside, [Next]_vars
    PROVE  HeldInside'
<1> USE DEF HeldInside, Locked, Go, Over, Answer
<1>1. TypeOK
  BY DEF IInv
<1>2. CASE UNCHANGED vars
  BY <1>2 DEF vars
<1>3. ASSUME NEW c \in Callers, (\E root \in Roots : Register(c, root)) \/ LookUp(c)
      PROVE  HeldInside'
  <2>1. holder' = holder /\ pc[c] = "idle" /\ \E to : pc' = [pc EXCEPT ![c] = to]
    BY <1>3 DEF Register, LookUp
  <2>2. QED
    BY <1>1, <2>1 DEF TypeOK
<1>4. ASSUME NEW c \in Callers, Acquire(c)
      PROVE  HeldInside'
  BY <1>1, <1>4 DEF Acquire, TypeOK
<1>5. ASSUME NEW c \in Callers, Return(c) \/ Confirm(c) \/ Ends(c)
      PROVE  HeldInside'
  BY <1>1, <1>5, RegistryAssumption DEF Return, Confirm, Ends, TypeOK
<1>6. ASSUME NEW c \in Callers,
             Load(c) \/ Known(c) \/ Generate(c) \/ MakeProject(c) \/ WriteProject(c) \/ WriteIndex(c)
      PROVE  HeldInside'
  <2>1. holder' = holder /\ \E to \in Locked : pc' = [pc EXCEPT ![c] = to]
    BY <1>6 DEF Load, Known, Generate, MakeProject, WriteProject, WriteIndex
  <2>2. QED
    BY <1>1, <2>1 DEF TypeOK
<1>7. CASE Next
  <2>1. PICK c \in Callers :
          (\E root \in Roots : Register(c, root)) \/ Acquire(c) \/ LookUp(c) \/ Proceed(c) \/ Ends(c)
    BY <1>7 DEF Next
  <2>2. CASE (\E root \in Roots : Register(c, root)) \/ LookUp(c)
    BY <1>3, <2>2
  <2>3. CASE Acquire(c) \/ Ends(c)
    BY <1>4, <1>5, <2>3
  <2>4. CASE Proceed(c)
    BY <1>5, <1>6, <2>4 DEF Proceed
  <2>5. QED
    BY <2>1, <2>2, <2>3, <2>4
<1>8. QED
  BY <1>2, <1>7

(* Nobody waits for a lock that a call has left behind: whoever has it is inside.         *)
THEOREM LockIsHeldInside == Spec => []HeldInside
<1>1. Init => HeldInside
  BY DEF Init, HeldInside
<1>2. QED
  BY Invariance, NextHeldInside, <1>1, PTL DEF Spec
=============================================================================
