------------------------ MODULE OperatorStart_proofs ------------------------
(***************************************************************************)
(* Proofs about OperatorStart, for any number of replicas and any bounds.  *)
(***************************************************************************)
EXTENDS OperatorStart, TLAPS

(* What holds, wherever it is, of a replica that created the CRD and has    *)
(* not seen it deleted: the CRD is there while it waits, served once it has *)
(* stopped waiting, and known to it when it sets up its watches.            *)
OnCourse(r) ==
    created[r] /\ ~deleted[r] =>
        /\ at[r] # "install"
        /\ at[r] = "wait" => crd \in {"stored", "served"}
        /\ at[r] = "manager" => crd = "served"
        /\ at[r] = "watch" => kinds[r]
        /\ at[r] = "dead" => died[r] # "watch"

IInv == TypeOK /\ \A r \in Replicas : OnCourse(r)

-----------------------------------------------------------------------------
LEMMA InitIInv == Init => IInv
  BY StartAssumption DEF Init, IInv, TypeOK, OnCourse, Places

(* The steps of the replicas.                                               *)
LEMMA StepTypes ==
  ASSUME TypeOK, NEW r \in Replicas, Operator(r) \/ Crash(r)
  PROVE  TypeOK'
  <1> USE StartAssumption DEF TypeOK, Places, Goes, Fatal, bounds
  <1>1. CASE Launch(r)
    BY <1>1 DEF Launch
  <1>2. CASE CreateCRDs(r)
    BY <1>2 DEF CreateCRDs, Created, AlreadyExists
  <1>3. CASE WaitForCRDs(r)
    <2>1. polls' \in [Replicas -> 0..PollLimit] /\ faults' \in 0..MaxFaults
      BY <1>3 DEF WaitForCRDs, PollsLeft, Fault
    <2>2. QED
      BY <1>3, <2>1 DEF WaitForCRDs
  <1>4. CASE NewManager(r)
    BY <1>4 DEF NewManager, Discovered
  <1>5. CASE AddToManager(r)
    BY <1>5 DEF AddToManager
  <1>6. CASE Crash(r)
    BY <1>6 DEF Crash, Fault
  <1>7. QED
    BY <1>1, <1>2, <1>3, <1>4, <1>5, <1>6 DEF Operator

LEMMA StepOnCourse ==
  ASSUME IInv, NEW r \in Replicas, Operator(r) \/ Crash(r), NEW q \in Replicas
  PROVE  OnCourse(q)'
  <1> USE DEF IInv, TypeOK, OnCourse, Goes, Fatal, bounds
  <1>1. CASE Launch(r)
    BY <1>1 DEF Launch
  <1>2. CASE CreateCRDs(r)
    BY <1>2 DEF CreateCRDs, Created, AlreadyExists
  <1>3. CASE WaitForCRDs(r)
    BY <1>3 DEF WaitForCRDs, Discovered
  <1>4. CASE NewManager(r)
    BY <1>4 DEF NewManager, Discovered
  <1>5. CASE AddToManager(r)
    BY <1>5 DEF AddToManager
  <1>6. CASE Crash(r)
    BY <1>6 DEF Crash
  <1>7. QED
    BY <1>1, <1>2, <1>3, <1>4, <1>5, <1>6 DEF Operator

(* The steps of the API server and of users: only a deletion takes the CRD  *)
(* away, and it is noted for every replica.                                 *)
LEMMA OthersSafe ==
  ASSUME IInv, Establish \/ Finalize \/ UserCreates \/ UserDeletes
  PROVE  IInv'
  <1> USE StartAssumption DEF IInv, TypeOK, OnCourse, replicaState, bounds
  <1>1. CASE Establish
    BY <1>1 DEF Establish
  <1>2. CASE Finalize
    BY <1>2 DEF Finalize
  <1>3. CASE UserCreates
    BY <1>3 DEF UserCreates, Edit
  <1>4. CASE UserDeletes
    BY <1>4 DEF UserDeletes, Edit
  <1>5. QED
    BY <1>1, <1>2, <1>3, <1>4

LEMMA NextIInv == IInv /\ [Next]_vars => IInv'
  <1> SUFFICES ASSUME IInv, [Next]_vars PROVE IInv'
    OBVIOUS
  <1>1. CASE \E r \in Replicas : Operator(r) \/ Crash(r)
    <2>1. PICK r \in Replicas : Operator(r) \/ Crash(r)
      BY <1>1
    <2>2. TypeOK'
      BY <2>1, StepTypes DEF IInv
    <2>3. \A q \in Replicas : OnCourse(q)'
      BY <2>1, StepOnCourse
    <2>4. QED
      BY <2>2, <2>3 DEF IInv
  <1>2. CASE Establish \/ Finalize \/ UserCreates \/ UserDeletes
    BY <1>2, OthersSafe
  <1>3. CASE UNCHANGED vars
    BY <1>3 DEF vars, IInv, TypeOK, OnCourse
  <1>4. QED
    BY <1>1, <1>2, <1>3 DEF Next

LEMMA Inductive == Spec => []IInv
  BY InitIInv, NextIInv, PTL DEF Spec

-----------------------------------------------------------------------------
(* All variables keep their types; in particular no start of a replica     *)
(* polls more often than the limit.                                         *)
THEOREM StartTypes == Spec => []TypeOK
  <1>1. IInv => TypeOK
    BY DEF IInv
  <1>2. QED
    BY <1>1, Inductive, PTL

(* However many replicas start together, one that created the CRD itself    *)
(* does not die at its watches unless somebody deletes the CRD meanwhile.   *)
THEOREM CreatorIsSafe == Spec => []CreatorSurvives
  <1>1. IInv => CreatorSurvives
    BY DEF IInv, OnCourse, CreatorSurvives
  <1>2. QED
    BY <1>1, Inductive, PTL
=============================================================================
