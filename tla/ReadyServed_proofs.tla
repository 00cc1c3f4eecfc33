-------------------------- MODULE ReadyServed_proofs --------------------------
(***************************************************************************)
(* When an instance that is said to be Ready has been served by its own    *)
(* Jenkins.  The controller looks at names, not at identities: it asks     *)
(* whatever answers at the Service's name, and sets the phase of whatever  *)
(* instance has the name its request carries.  Undisputed says when a name *)
(* is as good as an identity; then the phase can be trusted, whatever the  *)
(* replicas, their caches and their failures do.                           *)
(***************************************************************************)
EXTENDS OwnedObjects_proofs

NamedAs(u, j) == u \in Uids /\ u.ns = j.ns /\ u.name = j.name

(* Owners are instances there have been, and that of a Service is one that  *)
(* may ask for its name.                                                    *)
OwnersBorn ==
    \A k \in Keys : \A i \in 1..Version(k) :
       log[k][i] # Absent => log[k][i].owner \in Born \cup {NoOwner}
AskedFor(k, u) == \E j \in InstanceKeys, s \in Specs : k = ServiceOf(j, s) /\ NamedAs(u, j)
ServicesAsked ==
    \A k \in Keys : \A i \in 1..Version(k) :
       k.kind = "Service" /\ log[k][i] # Absent => AskedFor(k, log[k][i].owner)

OInv == RInv /\ OwnersBorn /\ ServicesAsked

(* A key never has two incarnations.                                        *)
OneLife ==
    \A k \in InstanceKeys : \A i \in 1..Version(k) :
       log[k][i] # Absent => /\ Current(k) # Absent
                             /\ log[k][i].body.uid = Current(k).body.uid

(* The phase is only about to be set once the instance's own Jenkins has    *)
(* answered.                                                                *)
Served(k) == Current(k) # Absent /\ Current(k).body.uid \in served
StatusServed ==
    \A o \in Operators :
       worker[o].at = "status" /\ InstanceKey(worker[o].req) \in InstanceKeys =>
          Served(InstanceKey(worker[o].req))

SInv == OInv /\ OneLife /\ StatusServed /\ ReadyMeansServed

-----------------------------------------------------------------------------
(* Who writes what.                                                         *)

LEMMA PutOthers ==
    ASSUME IInv, NEW k, NEW v, Put(k, v), NEW j \in Keys, log'[j] # log[j]
    PROVE  j = k
<1>1. log = [i \in Keys |-> log[i]] /\ log' = [log EXCEPT ![k] = Append(@, v)]
  BY DEF Put, IInv, TypeOK
<1> QED
  BY <1>1

(* The phase of an instance is UpdateStatus' business, and so on.           *)
LEMMA Writers ==
    ASSUME IInv, NEW o \in Operators, Reconcile(o), NEW j \in Keys, log'[j] # log[j]
    PROVE  /\ j.kind = "JenkinsInstance" => UpdateStatus(o)
           /\ j.kind = "Service" => NewService(o)
           /\ j.kind = "PersistentVolumeClaim" => NewDeployment(o)
<1>1. ASSUME NewSetupConfigMap(o)
      PROVE  j.kind = "ConfigMap"
  <2>1. \E k, v : k.kind = "ConfigMap" /\ Put(k, v)
    <3> DEFINE key == SetupKey(ReadInstance(o).body)
    <3>1. key.kind = "ConfigMap"
      BY DEF SetupKey, Key
    <3>2. log' = log \/ \E v : Put(key, v)
      BY <1>1 DEF NewSetupConfigMap, Create, Update, Write, Fail, Panic, Pass, NoCall
    <3> HIDE DEF key
    <3> QED
      BY <3>1, <3>2
  <2> QED
    BY <2>1, PutOthers
<1>2. ASSUME NewDeployment(o)
      PROVE  j.kind = "PersistentVolumeClaim"
  <2>1. \E k, v : k.kind = "PersistentVolumeClaim" /\ Put(k, v)
    <3> DEFINE key == ClaimKey(ReadInstance(o).body)
    <3>1. key.kind = "PersistentVolumeClaim"
      BY DEF ClaimKey, Key
    <3>2. log' = log \/ \E v : Put(key, v)
      BY <1>2 DEF NewDeployment, Create, Write, Fail, NoCall
    <3> HIDE DEF key
    <3> QED
      BY <3>1, <3>2
  <2> QED
    BY <2>1, PutOthers
<1>3. ASSUME CreateDeployment(o)
      PROVE  j.kind = "Deployment"
  <2>1. \E k, v : k.kind = "Deployment" /\ Put(k, v)
    <3> DEFINE key == DeploymentKey(worker[o].ji)
    <3>1. key.kind = "Deployment"
      BY DEF DeploymentKey, Key
    <3>2. log' = log \/ \E v : Put(key, v)
      BY <1>3 DEF CreateDeployment, Create, Write, Fail, Pass, NoCall
    <3> HIDE DEF key
    <3> QED
      BY <3>1, <3>2
  <2> QED
    BY <2>1, PutOthers
<1>4. ASSUME NewService(o)
      PROVE  j.kind = "Service"
  <2> DEFINE read == ServiceKey(ReadInstance(o).body)
             held == ServiceKey(worker[o].ji)
  <2>1. read.kind = "Service" /\ held.kind = "Service"
    BY DEF ServiceKey, Key
  <2>2. log' = log \/ (\E v : Put(read, v)) \/ (\E v : Put(held, v))
    BY <1>4 DEF NewService, Create, Update, Write, Fail, Pass, Panic, NoCall
  <2> HIDE DEF read, held
  <2> QED
    BY <2>1, <2>2, PutOthers
<1>5. ASSUME UpdateStatus(o)
      PROVE  j.kind = "JenkinsInstance"
  <2>1. \E k, v : k.kind = "JenkinsInstance" /\ Put(k, v)
    <3> DEFINE key == InstanceKey(ReadInstance(o).body.uid)
    <3>1. key.kind = "JenkinsInstance"
      BY DEF InstanceKey, Key
    <3>2. log' = log \/ \E v : Put(key, v)
      BY <1>5 DEF UpdateStatus, Update, Write, NoCall
    <3> HIDE DEF key
    <3> QED
      BY <3>1, <3>2
  <2> QED
    BY <2>1, PutOthers
<1>6. NewSetupConfigMap(o) \/ NewDeployment(o) \/ CreateDeployment(o) \/ NewService(o)
      \/ UpdateStatus(o)
  BY DEF Reconcile, Begin, InstanceGone, ReadServiceToRestart, SafeRestart, SafeRestartJenkins,
         ReadForService, CheckReady, CheckJenkinsReady, Fail, Pass, NoCall, Fault
<1> QED
  BY <1>1, <1>2, <1>3, <1>4, <1>5, <1>6

(* What belongs to an instance is found by its name and spec alone.         *)
LEMMA ServiceOfInstance ==
    ASSUME NEW k \in InstanceKeys, NEW ji \in Instances, NamedAs(ji.uid, k)
    PROVE  ServiceKey(ji) = ServiceOf(k, ji.spec) /\ ji.spec \in Specs
<1> DEFINE new == [uid |-> [ns |-> k.ns, name |-> k.name, gen |-> 1],
                   spec |-> ji.spec, phase |-> ""]
<1>1. Submitted(k, ji.spec, 1) = new
  BY DEF Submitted, InstanceKeys
<1>2. new.uid.ns = k.ns /\ new.uid.name = k.name /\ new.spec = ji.spec
  OBVIOUS
<1> HIDE DEF new
<1> QED
  BY <1>1, <1>2, SpecTyped DEF ServiceOf, ServiceKey, NamedAs

(* What a replica reads has the name its request carries.                   *)
LEMMA ReadNamed ==
    ASSUME IInv, NEW o \in Operators, ReadInstance(o) # Absent
    PROVE  LET k == InstanceKey(worker[o].req)
               ji == ReadInstance(o).body
           IN  /\ k \in InstanceKeys /\ ji \in Instances /\ NamedAs(ji.uid, k)
               /\ seen[o][k] \in 1..Version(k) /\ ReadInstance(o) = log[k][seen[o][k]]
<1> DEFINE k == InstanceKey(worker[o].req)
           v == ReadInstance(o)
<1>1. k.kind = "JenkinsInstance"
  BY DEF InstanceKey, Key
<1>2. k \in Keys /\ v = log[k][seen[o][k]] /\ seen[o][k] \in 1..Version(k)
      /\ v \in VersionsOf(k.kind)
  BY CachedTyped DEF ReadInstance, IInv
<1>3. k \in InstanceKeys
  BY <1>1, <1>2 DEF InstanceKeys
<1>4. v.body \in Instances
  BY <1>1, <1>2, Kinds
<1>5. HasHome(k, v)
  BY <1>2 DEF IInv, AtHome
<1> QED
  BY <1>1, <1>2, <1>3, <1>4, <1>5, SpecTyped DEF HasHome, NamedAs

(* So has what it holds.                                                    *)
LEMMA HeldNamed ==
    ASSUME IInv, NEW o \in Operators, worker[o].at \in Holding
    PROVE  LET k == InstanceKey(worker[o].req)
               ji == worker[o].ji
           IN  /\ k \in InstanceKeys /\ ji \in Instances /\ NamedAs(ji.uid, k)
               /\ ji.uid \in Incarnations(worker[o].req)
<1> DEFINE k == InstanceKey(worker[o].req)
           ji == worker[o].ji
<1>1. ji \in Instances /\ k \in Keys /\ ji.uid \in Incarnations(worker[o].req)
  BY HeldInHand DEF MineNow
<1>2. k \in InstanceKeys
  BY <1>1 DEF InstanceKeys, InstanceKey, Key
<1>3. PICK i \in 1..Version(k) : log[k][i] # Absent /\ log[k][i].body.uid = ji.uid
  BY <1>1 DEF Incarnations, Known
<1>4. HasHome(k, log[k][i])
  BY <1>1, <1>3 DEF IInv, AtHome
<1> QED
  BY <1>1, <1>2, <1>3, <1>4, SpecTyped DEF HasHome, NamedAs, InstanceKeys

-----------------------------------------------------------------------------
(* Who owns what.                                                           *)

(* A version of a key was there before the step or is the one it adds.      *)
LEMMA VersionAfter ==
    ASSUME IInv, NEW k \in Keys, NEW v, Change(k, v), NEW j \in Keys, NEW i \in 1..Version(j)'
    PROVE  \/ i \in 1..Version(j) /\ log'[j][i] = log[j][i]
           \/ j = k /\ i = Version(k) + 1 /\ log'[j][i] = v
<1>1. Version(j) \in Nat
  BY CurrentTyped
<1>2. CASE j # k
  BY <1>2, CurrentChanges
<1>3. CASE j = k
  <2>1. Version(k)' = Version(k) + 1
        /\ (\A n \in 1..Version(k) : log'[k][n] = log[k][n])
        /\ log'[k][Version(k) + 1] = v
    BY CurrentChanges
  <2> QED
    BY <1>1, <1>3, <2>1
<1> QED
  BY <1>2, <1>3

LEMMA CurrentVersion ==
    ASSUME IInv, NEW k \in Keys
    PROVE  Version(k) \in 1..Version(k) /\ Current(k) = log[k][Version(k)]
BY CurrentTyped DEF Current

LEMMA OwnersBornKept ==
    ASSUME RInv, OwnersBorn, [Next]_vars
    PROVE  OwnersBorn'
<1>1. CASE log' = log
  BY <1>1 DEF OwnersBorn, Born, Version
<1>2. ASSUME NEW k \in Keys, NEW v, Change(k, v)
      PROVE  OwnersBorn'
  <2>1. IInv /\ Born \subseteq Born'
    BY <1>2, BornAfter DEF RInv
  <2>2. v # Absent => v.owner \in Born \cup {NoOwner}
    BY <1>2, <2>1, CurrentVersion DEF Change, Made, Provided, Changed, Removed, OwnersBorn
  <2> QED
    BY <1>2, <2>1, <2>2, VersionAfter DEF OwnersBorn
<1> QED
  BY <1>1, <1>2, EveryChange

(* A Service the operator makes belongs to the instance that asks for it.   *)
LEMMA ServiceMade ==
    ASSUME IInv, NEW o \in Operators, NewService(o),
           NEW k \in Keys, Current(k) = Absent, NEW v, Change(k, v)
    PROVE  AskedFor(k, v.owner)
<1> DEFINE ji == worker[o].ji
           key == InstanceKey(worker[o].req)
           read == ServiceKey(ReadInstance(o).body)
           made == Object(ji.uid, Defaulted(BuiltService(ji.spec.service)))
<1>1. worker[o].at \in Holding
  BY DEF NewService, Reading, Holding
<1>2. ji \in Instances /\ key \in InstanceKeys /\ NamedAs(ji.uid, key)
  BY <1>1, HeldNamed
<1>3. ServiceKey(ji) = ServiceOf(key, ji.spec) /\ ji.spec \in Specs
  BY <1>2, ServiceOfInstance
<1>4. \/ log' = log
      \/ Put(ServiceKey(ji), made)
      \/ Cached(o, read) # Absent /\ UpToDate(o, read) /\ \E w : Put(read, w)
  BY DEF NewService, Create, Update, Write, Fail, Pass, Panic, NoCall
<1>5. log'[k] = Append(log[k], v) /\ log'[k] # log[k] /\ Current(k)' = v
  <2>1. Version(k)' = Version(k) + 1 /\ Version(k) \in Nat
        /\ log'[k] = Append(log[k], v) /\ Current(k)' = v
    BY CurrentChanges, CurrentTyped
  <2> QED
    BY <2>1 DEF Version
<1>6. CASE Put(ServiceKey(ji), made)
  <2>1. k = ServiceKey(ji)
    BY <1>5, <1>6, PutOthers
  <2>2. log'[k] = Append(log[k], made)
    BY <1>6, <2>1, PutAppends DEF IInv, TypeOK, Appends
  <2>3. made = v
    <3>1. Append(log[k], made)[Len(Append(log[k], made))] = made
          /\ Append(log[k], v)[Len(Append(log[k], v))] = v
      BY LastOfAppend
    <3> QED
      BY <1>5, <2>2, <3>1
  <2>4. v.owner = ji.uid
    BY <2>3 DEF Object
  <2> QED
    BY <1>2, <1>3, <2>1, <2>4 DEF AskedFor
<1>7. CASE Cached(o, read) # Absent /\ UpToDate(o, read) /\ \E w : Put(read, w)
  <2>1. k = read
    BY <1>5, <1>7, PutOthers
  <2>2. Cached(o, k) = Current(k)
    BY <1>7, <2>1, CachedTyped DEF IInv
  <2> QED
    BY <1>7, <2>1, <2>2
<1> QED
  BY <1>4, <1>5, <1>6, <1>7

(* Only Reconcile makes what users do not offer, and what has an owner.     *)
LEMMA MadeByReconcile ==
    ASSUME RInv, [Next]_vars, NEW k \in Keys, NEW v, Change(k, v), Current(k) = Absent,
           Offered[k] = {} \/ v.owner # NoOwner
    PROVE  log'[k] # log[k] /\ \E o \in Operators : Reconcile(o)
<1>1. IInv
  BY DEF RInv
<1>2. log'[k] = Append(log[k], v) /\ log'[k] # log[k] /\ Current(k)' = v
  <2>1. Version(k)' = Version(k) + 1 /\ Version(k) \in Nat
        /\ log'[k] = Append(log[k], v) /\ Current(k)' = v
    BY <1>1, CurrentChanges, CurrentTyped
  <2> QED
    BY <2>1 DEF Version
<1>3. ASSUME NEW j \in Keys, NEW w, Put(j, w)
      PROVE  j = k /\ w = v
  <2>1. j = k
    BY <1>1, <1>2, <1>3, PutOthers
  <2>2. log'[k] = Append(log[k], w)
    BY <1>1, <1>3, <2>1, PutAppends DEF IInv, TypeOK, Appends
  <2>3. Append(log[k], w)[Len(Append(log[k], w))] = w
        /\ Append(log[k], v)[Len(Append(log[k], v))] = v
    BY <1>1, LastOfAppend
  <2> QED
    BY <1>2, <2>1, <2>2, <2>3
<1>4. ~User
  <2> SUFFICES ASSUME NEW j \in Keys,
                      \/ \E x \in Offered[j] : UserCreates(j, x) \/ UserEdits(j, x)
                      \/ j \in Deletable /\ UserDeletes(j)
               PROVE  FALSE
    BY DEF User
  <2>1. \E w : Put(j, w)
    BY DEF UserCreates, UserEdits, UserDeletes
  <2>2. j = k
    BY <1>3, <2>1
  <2>3. ~UserDeletes(j) /\ \A x : ~UserEdits(j, x)
    BY <2>2 DEF UserDeletes, UserEdits
  <2>4. PICK x \in Offered[j] : UserCreates(j, x)
    BY <2>3
  <2>5. Put(j, Object(NoOwner, Submitted(j, x, Version(j) + 1)))
    BY <2>4 DEF UserCreates
  <2>6. v.owner = NoOwner
    BY <1>3, <2>5 DEF Object
  <2> QED
    BY <2>2, <2>4, <2>6
<1>5. ~Cluster
  <2>1. ASSUME NEW j \in Keys, Collect(j) \/ JenkinsStarts(j) \/ JenkinsLost(j)
        PROVE  FALSE
    <3>1. Current(j) # Absent /\ \E w : Put(j, w)
      BY <2>1 DEF Collect, Garbage, JenkinsStarts, JenkinsLost
    <3> QED
      BY <1>3, <3>1
  <2>2. ASSUME NEW u, JenkinsStops(u)
        PROVE  FALSE
    BY <1>2, <2>2 DEF JenkinsStops
  <2> QED
    BY <2>1, <2>2 DEF Cluster
<1>6. PICK o \in Operators : Operator(o)
  BY <1>2, <1>4, <1>5 DEF Next, vars
<1>7. Reconcile(o)
  BY <1>2, <1>6 DEF Operator, Deliver, Relist, Observe, Crash, Start, NoCall
<1> QED
  BY <1>2, <1>7

LEMMA ServicesAskedKept ==
    ASSUME SoleServices, OInv, [Next]_vars
    PROVE  ServicesAsked'
<1>1. IInv /\ RInv
  BY DEF RInv, OInv
<1>2. CASE log' = log
  BY <1>2 DEF OInv, ServicesAsked, Version
<1>3. ASSUME NEW k \in Keys, NEW v, Change(k, v)
      PROVE  ServicesAsked'
  <2>1. k.kind = "Service" /\ v # Absent => AskedFor(k, v.owner)
    <3> SUFFICES ASSUME k.kind = "Service", v # Absent
                 PROVE  AskedFor(k, v.owner)
      OBVIOUS
    <3>1. CASE Changed(k, v)
      BY <1>1, <3>1, CurrentVersion DEF Changed, OInv, ServicesAsked
    <3>2. CASE Provided(k, v)
      <4>1. Offered[k] = {} /\ Current(k) = Absent
        BY <3>2 DEF SoleServices, Provided
      <4>2. PICK o \in Operators : Reconcile(o) /\ log'[k] # log[k]
        BY <1>1, <1>3, <4>1, MadeByReconcile
      <4>3. NewService(o)
        BY <1>1, <4>2, Writers
      <4> QED
        BY <1>1, <1>3, <4>1, <4>3, ServiceMade
    <3>3. ~Made(k, v) /\ ~Removed(k, v)
      BY DEF SoleServices, Made, Removed
    <3> QED
      BY <1>3, <3>1, <3>2, <3>3 DEF Change
  <2> SUFFICES ASSUME NEW j \in Keys, NEW i \in 1..Version(j)', j.kind = "Service",
                      log'[j][i] # Absent
               PROVE  AskedFor(j, log'[j][i].owner)
    BY DEF ServicesAsked, AskedFor
  <2> QED
    BY <1>1, <1>3, <2>1, VersionAfter DEF OInv, ServicesAsked
<1> QED
  BY <1>1, <1>2, <1>3, EveryChange

LEMMA OwnersKept ==
    ASSUME SoleServices, OInv, [Next]_vars
    PROVE  OInv'
BY NumberedKept, NextKeeps, OwnersBornKept, ServicesAskedKept DEF OInv, RInv

LEMMA InitOwners == SoleServices /\ Init => OInv
<1> SUFFICES ASSUME SoleServices, Init
             PROVE  OInv
  OBVIOUS
<1>1. RInv
  BY InitHolds, InitNumbered DEF RInv
<1>2. \A k \in Keys : \A i \in 1..Version(k) :
         log[k][i] # Absent => k \in DOMAIN Initial /\ log[k][i].owner = NoOwner
  BY DEF Init, Version, Object
<1> QED
  BY <1>1, <1>2 DEF OInv, OwnersBorn, ServicesAsked, SoleServices

-----------------------------------------------------------------------------
(* Identities stay.                                                         *)

LEMMA InstancesStay ==
    ASSUME Undisputed, RInv, [Next]_vars, NEW k \in InstanceKeys, Current(k) # Absent
    PROVE  Current(k)' # Absent /\ Current(k)'.body.uid = Current(k).body.uid
<1>1. CASE log' = log
  BY <1>1 DEF Current, Version
<1>2. ASSUME NEW j \in Keys, NEW v, Change(j, v)
      PROVE  Current(k)' # Absent /\ Current(k)'.body.uid = Current(k).body.uid
  <2>1. k \in Keys /\ IInv /\ k \notin Deletable
    BY DEF InstanceKeys, RInv, Undisputed
  <2>2. CASE j # k
    <3>1. Current(k)' = Current(k)
      BY <1>2, <2>1, <2>2, CurrentChanges
    <3> QED
      BY <3>1
  <2>3. CASE j = k
    <3>1. Current(k)' = v
      BY <1>2, <2>1, <2>3, CurrentChanges
    <3>2. Changed(k, v)
      BY <1>2, <2>1, <2>3 DEF Change, Made, Provided, Removed
    <3> QED
      BY <3>1, <3>2 DEF Changed
  <2> QED
    BY <2>2, <2>3
<1> QED
  BY <1>1, <1>2, EveryChange

LEMMA OneLifeKept ==
    ASSUME Undisputed, RInv, OneLife, [Next]_vars
    PROVE  OneLife'
<1>1. CASE log' = log
  BY <1>1 DEF OneLife, Current, Version
<1>2. ASSUME NEW j \in Keys, NEW v, Change(j, v)
      PROVE  OneLife'
  <2> SUFFICES ASSUME NEW k \in InstanceKeys, NEW i \in 1..Version(k)', log'[k][i] # Absent
               PROVE  /\ Current(k)' # Absent
                      /\ log'[k][i].body.uid = Current(k)'.body.uid
    BY DEF OneLife
  <2>1. k \in Keys /\ IInv /\ Version(k) \in Nat
    BY CurrentTyped DEF InstanceKeys, RInv
  <2>2. CASE i \in 1..Version(k)
    <3>1. log'[k][i] = log[k][i]
      BY <1>2, <2>1, <2>2, CurrentChanges
    <3>2. Current(k) # Absent /\ log[k][i].body.uid = Current(k).body.uid
      BY <2>2, <3>1 DEF OneLife
    <3> QED
      BY <3>1, <3>2, InstancesStay
  <2>3. CASE i \notin 1..Version(k)
    <3>1. j = k /\ i = Version(k) + 1
      BY <1>2, <2>1, <2>3, CurrentChanges
    <3>2. log'[k][i] = v /\ Current(k)' = v
      BY <1>2, <2>1, <3>1, CurrentChanges
    <3> QED
      BY <3>2
  <2> QED
    BY <2>2, <2>3
<1> QED
  BY <1>1, <1>2, EveryChange

-----------------------------------------------------------------------------
(* Who has been served.                                                     *)

LEMMA ServedGrows ==
    ASSUME IInv, [Next]_vars
    PROVE  served \subseteq served'
<1>1. ASSUME NEW o \in Operators, Operator(o)
      PROVE  served' = served
  <2>1. CASE Reconcile(o)
    BY <2>1, ReconcileSteps DEF ReconcileStep
  <2> QED
    BY <1>1, <2>1 DEF Operator, Deliver, Relist, Observe, Crash, Start, world
<1>2. ASSUME User
      PROVE  served' = served
  BY <1>2 DEF User, UserCreates, UserEdits, UserDeletes
<1>3. ASSUME Cluster
      PROVE  served \subseteq served'
  BY <1>3 DEF Cluster, Collect, JenkinsStarts, JenkinsStops, JenkinsLost
<1> QED
  BY <1>1, <1>2, <1>3 DEF Next, vars

LEMMA ServedStays ==
    ASSUME Undisputed, RInv, [Next]_vars, NEW k \in InstanceKeys, Served(k)
    PROVE  Served(k)'
BY InstancesStay, ServedGrows DEF Served, RInv

(* Whatever answers at the name of an instance's Service is its own Jenkins.*)
LEMMA AnswerServes ==
    ASSUME Undisputed, SInv, NEW o \in Operators, ReadInstance(o) # Absent,
           Answers(ServiceKey(ReadInstance(o).body))
    PROVE  Served(InstanceKey(worker[o].req))
<1> DEFINE key == InstanceKey(worker[o].req)
           ji == ReadInstance(o).body
           service == ServiceKey(ji)
           theirs == Current(service).owner
<1>1. IInv /\ OneLife /\ TypeOK
  BY DEF SInv, OInv, RInv, IInv
<1>2. key \in InstanceKeys /\ ji \in Instances /\ NamedAs(ji.uid, key)
  BY <1>1, ReadNamed
<1>3. service \in Keys /\ service.kind = "Service"
  BY DEF Answers, Current, ServiceKey, Key
<1>4. Current(service) # Absent /\ theirs \in up \cup {NoOwner}
  BY DEF Answers
<1>5. AskedFor(service, theirs) /\ theirs \in Born \cup {NoOwner}
  BY <1>1, <1>3, <1>4, CurrentVersion DEF SInv, OInv, ServicesAsked, OwnersBorn
<1>6. PICK j \in InstanceKeys, s \in Specs : service = ServiceOf(j, s) /\ NamedAs(theirs, j)
  BY <1>5 DEF AskedFor
<1>7. service = ServiceOf(key, ji.spec) /\ ji.spec \in Specs
  BY <1>2, ServiceOfInstance
<1>8. j = key
  <2>1. ServiceOf(j, s) = ServiceOf(key, ji.spec)
    BY <1>6, <1>7
  <2> HIDE DEF key, ji
  <2> QED
    BY <1>2, <1>6, <1>7, <2>1 DEF Undisputed, SoleServices
<1>9. theirs \in up /\ theirs \in Born
  BY <1>4, <1>5, <1>6, SentinelsAssumption DEF SentinelsAssumption, NamedAs
<1>10. PICK l \in InstanceKeys : \E i \in 1..Version(l) :
          log[l][i] # Absent /\ theirs = log[l][i].body.uid
  BY <1>9, BornDef
<1>11. l = key
  <2>1. NamedAs(theirs, l)
    BY <1>1, <1>6, <1>10 DEF IInv, AtHome, HasHome, InstanceKeys, NamedAs
  <2> HIDE DEF theirs, key
  <2> QED
    BY <1>2, <1>6, <1>8, <2>1, KeysAssumption DEF KeysAssumption, NamedAs, InstanceKeys
<1>12. Current(key) # Absent /\ theirs = Current(key).body.uid
  BY <1>1, <1>10, <1>11 DEF OneLife
<1> QED
  BY <1>1, <1>9, <1>12 DEF Served, TypeOK

(* A worker comes to the step that sets the phase by an answer only.        *)
LEMMA StatusReached ==
    ASSUME Undisputed, SInv, [Next]_vars, NEW o \in Operators, worker'[o].at = "status"
    PROVE  \/ worker'[o] = worker[o]
           \/ /\ worker'[o].req = worker[o].req
              /\ Served(InstanceKey(worker[o].req))
<1>1. IInv /\ worker \in [Operators -> WorkerType]
  BY DEF SInv, OInv, RInv, IInv, TypeOK, WorkerType
<1>2. CASE worker' = worker
  BY <1>2
<1>3. ASSUME NEW p \in Operators, p # o, Operator(p)
      PROVE  worker'[o] = worker[o]
  <2>1. CASE Reconcile(p)
    <3>1. WorkerStep(p)
      BY <1>1, <2>1, ReconcileSteps DEF ReconcileStep
    <3> QED
      BY <1>1, <1>3, <3>1 DEF WorkerStep
  <2> QED
    BY <1>1, <1>3, <2>1 DEF Operator, Deliver, Relist, Observe, Crash, Start, Die
<1>4. ASSUME Operator(o)
      PROVE  \/ worker'[o] = worker[o]
             \/ /\ worker'[o].req = worker[o].req
                /\ Served(InstanceKey(worker[o].req))
  <2>1. ASSUME NEW s, worker' = [worker EXCEPT ![o] = Resting(s)]
        PROVE  s = "status"
    BY <1>1, <2>1 DEF Resting
  <2>2. ~Done(o) /\ ~Requeue(o) /\ ~Die(o)
    BY <2>1 DEF Done, Requeue, Die
  <2>3. ASSUME NEW s, NEW ji, NEW found, GoWith(o, s, ji, found)
        PROVE  s = "status" /\ worker'[o].req = worker[o].req
    BY <1>1, <2>3 DEF GoWith
  <2>4. \A s : Go(o, s) => s = "status" /\ worker'[o].req = worker[o].req
    BY <2>3 DEF Go
  <2>5. CASE Reconcile(o)
    <3>1. CASE \E r \in queue[o] : Begin(o, r)
      <4>1. PICK r \in queue[o] : Begin(o, r)
        BY <3>1
      <4>2. \/ worker' = worker
            \/ worker' = [worker EXCEPT ![o] = [Resting("setup") EXCEPT !.req = r]]
        BY <4>1 DEF Begin
      <4>3. [Resting("setup") EXCEPT !.req = r].at = "setup"
        BY DEF Resting
      <4> QED
        BY <1>1, <4>2, <4>3
    <3>2. ~InstanceGone(o)
      BY <2>2 DEF InstanceGone, Fail
    <3>3. ~NewSetupConfigMap(o)
      BY <2>2, <2>4 DEF NewSetupConfigMap, Fail, Panic, Pass, Create, Update, Write
    <3>4. ~ReadServiceToRestart(o)
      <4>1. ~GoWith(o, "post", ReadInstance(o).body, FALSE)
        BY <1>1 DEF GoWith
      <4> QED
        BY <2>2, <4>1 DEF ReadServiceToRestart, Fail
    <3>5. ~SafeRestart(o)
      BY <2>2, <2>4 DEF SafeRestart, SafeRestartJenkins, Fail, Pass
    <3>6. ~NewDeployment(o)
      BY <2>2, <2>3 DEF NewDeployment, Fail, Create, Write
    <3>7. ~CreateDeployment(o)
      BY <2>2, <2>4 DEF CreateDeployment, Fail, Pass, Create, Write
    <3>8. ~ReadForService(o)
      <4>1. ~GoWith(o, "expose", ReadInstance(o).body, FALSE)
        BY <1>1 DEF GoWith
      <4> QED
        BY <4>1 DEF ReadForService
    <3>9. ~NewService(o)
      BY <2>2, <2>4 DEF NewService, Fail, Pass, Panic, Create, Update, Write
    <3>10. CASE CheckReady(o)
      <4>1. /\ ReadInstance(o) # Absent /\ Go(o, "status")
            /\ Answers(ServiceKey(ReadInstance(o).body))
        BY <2>2, <3>10 DEF CheckReady, CheckJenkinsReady, Reading, Fail, Pass
      <4> QED
        BY <2>4, <4>1, AnswerServes
    <3>11. ~UpdateStatus(o)
      BY <2>2 DEF UpdateStatus, Update, Write
    <3> QED
      BY <2>5, <3>1, <3>2, <3>3, <3>4, <3>5, <3>6, <3>7, <3>8, <3>9, <3>10, <3>11
         DEF Reconcile
  <2>6. CASE ~Reconcile(o)
    <3>1. worker' = worker \/ Die(o) \/ worker' = [worker EXCEPT ![o] = Resting("idle")]
      BY <1>4, <2>6 DEF Operator, Deliver, Relist, Observe, Crash, Start
    <3> QED
      BY <2>1, <2>2, <3>1
  <2> QED
    BY <2>5, <2>6
<1>5. worker' = worker \/ \E p \in Operators : Operator(p)
  BY DEF Next, User, UserCreates, UserEdits, UserDeletes, Cluster, Collect, JenkinsStarts,
         JenkinsStops, JenkinsLost, operatorState, vars
<1> QED
  BY <1>2, <1>3, <1>4, <1>5

LEMMA StatusServedKept ==
    ASSUME Undisputed, SInv, [Next]_vars
    PROVE  StatusServed'
<1> SUFFICES ASSUME NEW o \in Operators, worker'[o].at = "status",
                    InstanceKey(worker'[o].req) \in InstanceKeys
             PROVE  Served(InstanceKey(worker[o].req))'
  BY DEF StatusServed
<1>1. PICK k : k = InstanceKey(worker'[o].req)
  OBVIOUS
<1>2. Served(k)
  <2>1. CASE worker'[o] = worker[o]
    BY <1>1, <2>1 DEF SInv, StatusServed
  <2>2. CASE worker'[o].req = worker[o].req /\ Served(InstanceKey(worker[o].req))
    BY <1>1, <2>2
  <2> QED
    BY <2>1, <2>2, StatusReached
<1>3. Served(k)'
  BY <1>1, <1>2, ServedStays DEF SInv, OInv
<1> QED
  BY <1>1, <1>3 DEF Served

IsReady(v) == v # Absent /\ v.body.phase = "Ready"

(* Only UpdateStatus makes an instance Ready.                               *)
LEMMA PhaseSetter ==
    ASSUME RInv, [Next]_vars, NEW k \in InstanceKeys, IsReady(Current(k)')
    PROVE  \/ IsReady(Current(k))
           \/ log'[k] # log[k] /\ \E o \in Operators : UpdateStatus(o)
<1>1. IInv /\ k \in Keys /\ k.kind = "JenkinsInstance"
  BY DEF RInv, InstanceKeys
<1>2. CASE log'[k] = log[k]
  BY <1>1, <1>2 DEF Current, Version
<1>3. ASSUME NEW o \in Operators, Operator(o), log'[k] # log[k]
      PROVE  UpdateStatus(o)
  <2>1. Reconcile(o)
    BY <1>3 DEF Operator, Deliver, Relist, Observe, Crash, Start, NoCall
  <2> QED
    BY <1>1, <1>3, <2>1, Writers
<1>4. ASSUME NEW v, Put(k, v)
      PROVE  Current(k)' = v
  <2>1. log'[k] = Append(log[k], v)
    BY <1>1, <1>4, PutAppends DEF Appends, IInv, TypeOK
  <2>2. log'[k][Len(log'[k])] = v
    BY <1>1, <2>1, LastOfAppend
  <2> QED
    BY <1>1, <2>2 DEF Current, Version
<1>5. ASSUME User, log'[k] # log[k]
      PROVE  IsReady(Current(k))
  <2>1. PICK j \in Keys : \/ \E x \in Offered[j] : UserCreates(j, x) \/ UserEdits(j, x)
                          \/ j \in Deletable /\ UserDeletes(j)
    BY <1>5 DEF User
  <2>2. j = k
    <3>1. \E v : Put(j, v)
      BY <2>1 DEF UserCreates, UserEdits, UserDeletes
    <3> QED
      BY <1>1, <1>5, <3>1, PutOthers
  <2>3. ASSUME NEW x \in Offered[k], UserCreates(k, x)
        PROVE  FALSE
    <3> DEFINE body == Submitted(k, x, Version(k) + 1)
    <3>1. Current(k)' = Object(NoOwner, body)
      BY <1>4, <2>3 DEF UserCreates
    <3>2. Object(NoOwner, body).body = body /\ body.phase = ""
      BY <1>1 DEF Object, Submitted
    <3> HIDE DEF body
    <3> QED
      BY <3>1, <3>2 DEF IsReady
  <2>4. ASSUME NEW x \in Offered[k], UserEdits(k, x)
        PROVE  IsReady(Current(k))
    <3> DEFINE old == Current(k)
               body == Edited(k, old.body, x)
    <3>1. old # Absent /\ Current(k)' = [old EXCEPT !.body = body]
      BY <1>4, <2>4 DEF UserEdits
    <3>2. old \in [owner : Uids \cup {NoOwner}, body : BodiesOf(k.kind)]
      BY <1>1, <3>1, CurrentTyped
    <3>3. body.phase = old.body.phase
      BY <1>1, <2>4, <3>1, <3>2, EditedTyped
    <3>4. [old EXCEPT !.body = body].body = body
      BY <3>2
    <3> HIDE DEF body
    <3> QED
      BY <3>1, <3>3, <3>4 DEF IsReady
  <2>5. ~UserDeletes(k)
    BY <1>4 DEF UserDeletes, IsReady
  <2> QED
    BY <2>1, <2>2, <2>3, <2>4, <2>5
<1>6. ASSUME Cluster, log'[k] # log[k]
      PROVE  IsReady(Current(k))
  <2>1. PICK j \in Keys : Collect(j) \/ JenkinsStarts(j) \/ JenkinsLost(j)
    BY <1>6 DEF Cluster, JenkinsStops
  <2>2. j = k
    <3>1. \E v : Put(j, v)
      BY <2>1 DEF Collect, JenkinsStarts, JenkinsLost
    <3> QED
      BY <1>1, <1>6, <3>1, PutOthers
  <2>3. Current(k)' = Absent \/ Current(k)' = Current(k)
    BY <1>4, <2>1, <2>2 DEF Collect, JenkinsStarts, JenkinsLost
  <2> QED
    BY <2>3 DEF IsReady
<1> QED
  BY <1>2, <1>3, <1>5, <1>6 DEF Next, vars

LEMMA ReadyKept ==
    ASSUME Undisputed, SInv, [Next]_vars
    PROVE  ReadyMeansServed'
<1> SUFFICES ASSUME NEW k \in InstanceKeys, IsReady(Current(k)')
             PROVE  Current(k)'.body.uid \in served'
  BY DEF ReadyMeansServed, IsReady
<1>1. IInv /\ OneLife /\ k \in Keys
  BY DEF SInv, OInv, RInv, InstanceKeys
<1>2. CASE Served(k)
  <2>1. Served(k)'
    BY <1>2, ServedStays DEF SInv, OInv
  <2> QED
    BY <2>1 DEF Served
<1>3. CASE IsReady(Current(k))
  BY <1>2, <1>3 DEF SInv, ReadyMeansServed, IsReady, Served
<1>4. ASSUME NEW o \in Operators, UpdateStatus(o), log'[k] # log[k]
      PROVE  Served(k)
  <2> DEFINE ji == ReadInstance(o).body
             key == InstanceKey(worker[o].req)
             mine == InstanceKey(ji.uid)
  <2>1. worker[o].at = "status" /\ ReadInstance(o) # Absent
    BY <1>4 DEF UpdateStatus, Reading
  <2>2. key \in InstanceKeys /\ ji.uid.ns = key.ns /\ ji.uid.name = key.name
    BY <1>1, <2>1, ReadNamed DEF NamedAs
  <2>3. mine = key
    BY <2>2 DEF InstanceKey, Key
  <2>4. \E v : Put(mine, v)
    <3>1. log' # log
      BY <1>4
    <3> QED
      BY <1>4, <3>1 DEF UpdateStatus, Update, Write, NoCall
  <2>5. k = key
    <3> HIDE DEF mine
    <3> QED
      BY <1>1, <1>4, <2>3, <2>4, PutOthers
  <2> QED
    BY <2>1, <2>2, <2>5 DEF SInv, StatusServed
<1> QED
  BY <1>2, <1>3, <1>4, PhaseSetter DEF SInv, OInv

LEMMA InitServed == Undisputed /\ Init => SInv
<1> SUFFICES ASSUME Undisputed, Init
             PROVE  SInv
  OBVIOUS
<1>1. OInv
  BY InitOwners DEF Undisputed
<1>2. \A k \in Keys : Version(k) = 1 /\ Current(k) = log[k][1]
  BY DEF Init, Version, Current
<1>3. OneLife
  BY <1>2 DEF OneLife, InstanceKeys
<1>4. StatusServed
  BY DEF StatusServed, Init, Resting
<1>5. ReadyMeansServed
  <2> SUFFICES ASSUME NEW k \in InstanceKeys, Current(k) # Absent
               PROVE  Current(k).body.phase = ""
    BY DEF ReadyMeansServed
  <2>1. k \in Keys /\ k.kind = "JenkinsInstance" /\ k \in DOMAIN Initial
    BY <1>2 DEF Init, InstanceKeys
  <2>2. Current(k).body = Submitted(k, Initial[k], 1)
    BY <1>2, <2>1 DEF Init, Object
  <2>3. Submitted(k, Initial[k], 1).phase = ""
    BY <2>1 DEF Submitted
  <2> QED
    BY <2>2, <2>3
<1> QED
  BY <1>1, <1>3, <1>4, <1>5 DEF SInv

(* Where names are as good as identities, an instance is said to be Ready   *)
(* only after its own Jenkins has answered: with any number of replicas     *)
(* that crash, lag, lose calls and work on the same instance at once.       *)
THEOREM ReadyOnlyWhenServed ==
    ASSUME Undisputed
    PROVE  Spec => []ReadyMeansServed
<1>1. Init => SInv
  BY InitServed
<1>2. SInv /\ [Next]_vars => SInv'
  BY OwnersKept, OneLifeKept, StatusServedKept, ReadyKept DEF SInv, OInv, Undisputed
<1>3. SInv => ReadyMeansServed
  BY DEF SInv
<1> QED
  BY <1>1, <1>2, <1>3, PTL DEF Spec
===============================================================================
