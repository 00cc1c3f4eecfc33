------------------- MODULE JenkinsInstanceController_proofs -------------------
(***************************************************************************)
(* Theorems about the controller, for any number of replicas, instances    *)
(* and objects, any specs and any bounds.                                  *)
(*                                                                         *)
(* Two facts carry the proofs.  AtHome and InReconcile make TypeOK         *)
(* inductive: an instance keeps the uid its key gave it, and a worker that *)
(* is in Reconcile has a request and holds what was known for it.          *)
(* WritesWell says what a step of Reconcile does to the log; every action  *)
(* that writes is shown to do only that, and type correctness and the      *)
(* action properties follow from it.                                       *)
(***************************************************************************)
EXTENDS JenkinsInstanceController, SetupData_proofs

(* An instance's uid is made of the key it was created at.                  *)
HasHome(k, v) == k.kind = "JenkinsInstance" /\ v # Absent =>
                    v.body.uid.ns = k.ns /\ v.body.uid.name = k.name
AtHome == \A k \in Keys : \A i \in 1..Version(k) : HasHome(k, log[k][i])

(* The worker has a request at work, and what it holds is known for it.     *)
Held(w) ==
    /\ w.at \notin {"idle", "down"} => w.req \in Requests
    /\ w.at \in Holding => /\ InstanceKey(w.req) \in Keys
                           /\ w.ji \in Known(w.req)
InReconcile == \A o \in Operators : Held(worker[o])

IInv == TypeOK /\ AtHome /\ InReconcile

(* A write of replica o that appends v to the versions of k.                *)
Appends(k, v) == log' = [log EXCEPT ![k] = Append(@, v)]
MineNow(o, owner) == /\ InstanceKey(worker[o].req) \in Keys
                     /\ owner \in InHand(o) \cap Incarnations(worker[o].req)
Extends(new, old) == \A f \in DOMAIN old : f \in DOMAIN new /\ new[f] = old[f]
Kept(k, v) ==
    /\ k.kind = "ConfigMap" => Extends(v.body, Current(k).body)
    /\ k.kind = "JenkinsInstance" => /\ v.body.spec = Current(k).body.spec
                                     /\ v.body.uid = Current(k).body.uid
                                     /\ v.body.phase \in {Current(k).body.phase, "Ready"}
(* A setup ConfigMap names every plugin once, unless it listed some before. *)
Lists(files, data) == /\ "plugins.txt" \in DOMAIN data
                      /\ "plugins.txt" \notin files => WellListed(data["plugins.txt"])
FilesAt(k) == IF Current(k) = Absent THEN {} ELSE DOMAIN Current(k).body
WritesWell(o, k, v) ==
    /\ v \in VersionsOf(k.kind) /\ v # Absent /\ HasHome(k, v)
    /\ worker[o].req \in Requests
    /\ Current(k) = Absent => /\ MineNow(o, v.owner)
                              /\ k.kind # "JenkinsInstance" /\ v.owner.ns = k.ns
    /\ Current(k) # Absent => /\ v.owner = Current(k).owner
                              /\ k = InstanceKey(worker[o].req) \/ MineNow(o, v.owner)
                              /\ Kept(k, v)
    /\ k.kind = "ConfigMap" => Lists(FilesAt(k), v.body)

(* Every version the API server adds has its type and its home.             *)
Appended == \/ log' = log
            \/ \E k \in Keys : \E v :
                  Appends(k, v) /\ v \in VersionsOf(k.kind) /\ HasHome(k, v)

(* What one step of Reconcile does, its other effects included.             *)
LogStep(o) == \/ log' = log
              \/ \E k \in Keys : \E v : Appends(k, v) /\ WritesWell(o, k, v)
WorkerType == [at : Steps, req : Requests \cup {Nil}, ji : Instances \cup {Nil}, found : BOOLEAN]
QueueType == [Operators -> SUBSET Requests]
WorkerStep(o) ==
    /\ \E w \in WorkerType : Held(w) /\ worker' = [worker EXCEPT ![o] = w]
    /\ queue' \in QueueType
ReconcileStep(o) ==
    /\ LogStep(o)
    /\ WorkerStep(o)
    /\ stale' \subseteq up
    /\ faults' \in 0..MaxFaults
    /\ UNCHANGED <<seen, up, served, edits>>

-----------------------------------------------------------------------------
(* The log and the cache.                                                   *)

LEMMA Kinds ==
    /\ VersionsOf("JenkinsInstance") = [owner : Uids \cup {NoOwner}, body : Instances] \cup {Absent}
    /\ VersionsOf("Deployment") = [owner : Uids \cup {NoOwner}, body : Templates] \cup {Absent}
    /\ VersionsOf("Service") = [owner : Uids \cup {NoOwner}, body : Services] \cup {Absent}
    /\ VersionsOf("ConfigMap") = [owner : Uids \cup {NoOwner}, body : DataMaps] \cup {Absent}
    /\ VersionsOf("Secret") = [owner : Uids \cup {NoOwner}, body : DataMaps] \cup {Absent}
    /\ VersionsOf("PersistentVolumeClaim") = [owner : Uids \cup {NoOwner}, body : {Nil}] \cup {Absent}
BY DEF VersionsOf, BodiesOf

(* Every version of a key has the type of its kind, the current one too.    *)
LEMMA VersionsTyped ==
    ASSUME TypeOK, NEW k \in Keys
    PROVE  /\ log[k] \in Seq(VersionsOf(k.kind))
           /\ Version(k) \in Nat \ {0}
           /\ \A i \in 1..Version(k) : log[k][i] \in VersionsOf(k.kind)
           /\ Current(k) = log[k][Version(k)]
           /\ Current(k) \in VersionsOf(k.kind)
<1>1. log[k] \in Seq(VersionsOf(k.kind)) /\ log[k] # <<>>
  BY DEF TypeOK
<1>2. Len(log[k]) \in Nat \ {0}
  BY <1>1
<1> QED
  BY <1>1, <1>2 DEF Version, Current

(* A replica's cache holds versions the API server has held.                *)
LEMMA CachedTyped ==
    ASSUME TypeOK, NEW o \in Operators, NEW k, Cached(o, k) # Absent
    PROVE  /\ k \in Keys
           /\ Cached(o, k) \in VersionsOf(k.kind)
           /\ seen[o][k] \in 1..Version(k)
           /\ Cached(o, k) = log[k][seen[o][k]]
           /\ UpToDate(o, k) => Cached(o, k) = Current(k)
<1>1. k \in Keys /\ Cached(o, k) = log[k][seen[o][k]]
  BY DEF Cached
<1>2. seen[o][k] \in Nat \ {0} /\ seen[o][k] <= Version(k)
  BY <1>1 DEF TypeOK
<1>3. seen[o][k] \in 1..Version(k)
  BY <1>1, <1>2, VersionsTyped
<1> QED
  BY <1>1, <1>3, VersionsTyped DEF UpToDate

(* The log only grows: what a resourceVersion meant it means for ever, and  *)
(* every version is still an object of its kind, at its home.               *)
LEMMA LogGrows ==
    ASSUME TypeOK, AtHome, Appended
    PROVE  /\ log' = [k \in Keys |-> log'[k]]
           /\ \A k \in Keys : /\ log'[k] \in Seq(VersionsOf(k.kind)) \ {<<>>}
                              /\ Version(k)' >= Version(k)
                              /\ \A i \in 1..Version(k) : log'[k][i] = log[k][i]
           /\ AtHome'
<1>1. \A k \in Keys : Version(k) = Len(log[k]) /\ Version(k)' = Len(log'[k])
  BY DEF Version
<1>2. log = [k \in Keys |-> log[k]]
  BY DEF TypeOK
<1>3. CASE log' = log
  <2>1. AtHome'
    BY <1>1, <1>3 DEF AtHome
  <2>2. \A k \in Keys : log[k] \in Seq(VersionsOf(k.kind)) \ {<<>>} /\ Len(log[k]) \in Nat
    BY DEF TypeOK
  <2> QED
    BY <1>1, <1>2, <1>3, <2>1, <2>2
<1>4. CASE \E k \in Keys : \E v : Appends(k, v) /\ v \in VersionsOf(k.kind) /\ HasHome(k, v)
  <2>1. PICK j \in Keys : \E v : Appends(j, v) /\ v \in VersionsOf(j.kind) /\ HasHome(j, v)
    BY <1>4
  <2>2. PICK v : Appends(j, v) /\ v \in VersionsOf(j.kind) /\ HasHome(j, v)
    BY <2>1
  <2>3. log' = [k \in Keys |-> log'[k]]
    BY <1>2, <2>2 DEF Appends
  <2>4. ASSUME NEW k \in Keys
        PROVE  /\ log'[k] \in Seq(VersionsOf(k.kind)) \ {<<>>}
               /\ Len(log'[k]) >= Len(log[k])
               /\ \A i \in 1..Len(log[k]) : log'[k][i] = log[k][i]
               /\ \A i \in 1..Len(log'[k]) : HasHome(k, log'[k][i])
    <3>1. log[k] \in Seq(VersionsOf(k.kind)) \ {<<>>} /\ \A i \in 1..Len(log[k]) : HasHome(k, log[k][i])
      BY <1>1 DEF TypeOK, AtHome
    <3>2. CASE k # j
      <4>1. log'[k] = log[k]
        BY <1>2, <2>2, <3>2 DEF Appends
      <4> QED
        BY <3>1, <4>1
    <3>3. CASE k = j
      <4>1. log'[k] = Append(log[k], v)
        BY <1>2, <2>2, <3>3 DEF Appends
      <4>2. v \in VersionsOf(k.kind) /\ HasHome(k, v)
        BY <2>2, <3>3
      <4>3. /\ Append(log[k], v) \in Seq(VersionsOf(k.kind)) \ {<<>>}
            /\ Len(Append(log[k], v)) = Len(log[k]) + 1
            /\ Append(log[k], v)[Len(log[k]) + 1] = v
            /\ \A i \in 1..Len(log[k]) : Append(log[k], v)[i] = log[k][i]
        BY <3>1, <4>2
      <4>4. Len(log[k]) \in Nat
        BY <3>1
      <4> QED
        BY <3>1, <4>1, <4>2, <4>3, <4>4
    <3> QED
      BY <3>2, <3>3
  <2> QED
    BY <1>1, <2>3, <2>4 DEF AtHome
<1> QED
  BY <1>3, <1>4 DEF Appended

(* What there has been of an instance are instances.                        *)
LEMMA KnownTyped ==
    ASSUME TypeOK, NEW r, InstanceKey(r) \in Keys
    PROVE  Known(r) \subseteq Instances
<1> DEFINE k == InstanceKey(r)
<1>1. k.kind = "JenkinsInstance"
  BY DEF InstanceKey, Key
<1>2. \A i \in 1..Version(k) : log[k][i] \in VersionsOf("JenkinsInstance")
  BY <1>1, VersionsTyped
<1> QED
  BY <1>2, Kinds DEF Known

(* What a worker holds stays known for what its request names.              *)
LEMMA HeldStays ==
    ASSUME TypeOK, AtHome, Appended, NEW w, Held(w)
    PROVE  Held(w)'
<1>1. CASE w.at \notin Holding
  BY <1>1 DEF Held
<1>2. CASE w.at \in Holding
  <2> DEFINE key == InstanceKey(w.req)
  <2>1. key \in Keys /\ w.ji \in Known(w.req)
    BY <1>2 DEF Held
  <2>2. PICK i \in 1..Version(key) : log[key][i] # Absent /\ log[key][i].body = w.ji
    BY <2>1 DEF Known
  <2>3. Version(key) \in Nat /\ Version(key)' \in Nat
    BY <2>1, LogGrows, VersionsTyped DEF Version
  <2>4. i \in 1..Version(key)' /\ log'[key][i] = log[key][i]
    BY <2>1, <2>2, <2>3, LogGrows
  <2>5. w.ji \in Known(w.req)'
    BY <2>2, <2>4 DEF Known
  <2> QED
    BY <2>1, <2>5, <1>2 DEF Held
<1> QED
  BY <1>1, <1>2

(* A step of Reconcile that writes well keeps the invariant.                *)
LEMMA ReconcileStepKeeps ==
    ASSUME IInv, NEW o \in Operators, ReconcileStep(o)
    PROVE  IInv'
<1>1. TypeOK /\ AtHome /\ InReconcile
  BY DEF IInv
<1>2. Appended
  BY DEF ReconcileStep, LogStep, Appended, WritesWell
<1>3. PICK w \in WorkerType : Held(w) /\ worker' = [worker EXCEPT ![o] = w]
  BY DEF ReconcileStep, WorkerStep
<1>4. InReconcile'
  <2> SUFFICES ASSUME NEW p \in Operators
               PROVE  Held(worker[p])'
    BY DEF InReconcile
  <2>1. Held(worker[p]) /\ Held(w)
    BY <1>1, <1>3 DEF InReconcile
  <2>2. worker'[p] = worker[p] \/ worker'[p] = w
    BY <1>1, <1>3 DEF TypeOK
  <2>3. \A x : Held(x) => Held(x)'
    BY <1>1, <1>2, HeldStays
  <2> QED
    BY <2>1, <2>2, <2>3
<1>5. TypeOK'
  <2>1. \A k \in Keys : log'[k] \in Seq(VersionsOf(k.kind)) \ {<<>>}
    BY <1>1, <1>2, LogGrows
  <2>2. \A p \in Operators, k \in Keys : seen'[p][k] <= Version(k)'
    <3> SUFFICES ASSUME NEW p \in Operators, NEW k \in Keys
                 PROVE  seen'[p][k] <= Version(k)'
      OBVIOUS
    <3>1. seen'[p][k] \in Nat /\ seen'[p][k] <= Version(k)
      BY <1>1 DEF ReconcileStep, TypeOK
    <3>2. Version(k) \in Nat /\ Version(k)' \in Nat /\ Version(k) <= Version(k)'
      BY <1>1, <1>2, <2>1, LogGrows, VersionsTyped DEF Version
    <3> QED
      BY <3>1, <3>2
  <2>3. worker' \in [Operators -> WorkerType]
    BY <1>1, <1>3 DEF TypeOK, WorkerType
  <2>4. queue' \in QueueType /\ stale' \subseteq up /\ faults' \in 0..MaxFaults
    BY DEF ReconcileStep, WorkerStep
  <2>5. log' = [k \in Keys |-> log'[k]]
    BY <1>1, <1>2, LogGrows
  <2>6. \A p \in Operators : worker'[p].at \in Holding =>
          InstanceKey(worker'[p].req) \in Keys /\ worker'[p].ji \in Known(worker[p].req)'
    BY <1>4 DEF InReconcile, Held
  <2> QED
    BY <1>1, <2>1, <2>2, <2>3, <2>4, <2>5, <2>6 DEF TypeOK, ReconcileStep, WorkerType, QueueType
<1>6. AtHome'
  BY <1>1, <1>2, LogGrows
<1> QED
  BY <1>4, <1>5, <1>6 DEF IInv

-----------------------------------------------------------------------------
(* What the worker reads and where it goes.                                 *)

(* The instance a replica reads is one the API server has held, at home at  *)
(* the key the request names.                                               *)
LEMMA ReadTyped ==
    ASSUME IInv, NEW o \in Operators, ReadInstance(o) # Absent
    PROVE  LET v == ReadInstance(o)
               r == worker[o].req
           IN  /\ InstanceKey(r) \in Keys
               /\ v \in [owner : Uids \cup {NoOwner}, body : Instances]
               /\ UpToDate(o, InstanceKey(r)) => v = Current(InstanceKey(r))
               /\ v.body \in Known(r)
               /\ v.body.uid \in Incarnations(r) \cap InHand(o)
               /\ v.body.uid.ns = r.ns /\ v.body.uid.name = r.name
<1> DEFINE v == ReadInstance(o)
           r == worker[o].req
           k == InstanceKey(r)
           i == seen[o][k]
<1>1. TypeOK /\ AtHome
  BY DEF IInv
<1>2. /\ k \in Keys /\ i \in 1..Version(k) /\ v = log[k][i]
      /\ v \in VersionsOf(k.kind)
      /\ UpToDate(o, k) => v = Current(k)
  BY <1>1, CachedTyped DEF ReadInstance
<1>3. k.kind = "JenkinsInstance" /\ k.ns = r.ns /\ k.name = r.name
  BY DEF InstanceKey, Key
<1>4. v \in [owner : Uids \cup {NoOwner}, body : Instances]
  BY <1>2, <1>3, Kinds
<1>5. v.body \in Known(r) /\ v.body.uid \in Incarnations(r)
  BY <1>2 DEF Known, Incarnations
<1>6. v.body.uid \in InHand(o)
  BY DEF InHand
<1>7. v.body.uid.ns = r.ns /\ v.body.uid.name = r.name
  BY <1>1, <1>2, <1>3 DEF AtHome, HasHome
<1> QED
  BY <1>2, <1>4, <1>5, <1>6, <1>7

(* The fields of an instance have their types.                              *)
LEMMA SpecTyped ==
    ASSUME NEW ji \in Instances
    PROVE  /\ ji.uid \in Uids /\ ji.uid.ns \in STRING /\ ji.uid.name \in STRING
           /\ ji.spec \in Specs
           /\ ji.spec.plugins \in PluginSpecs
           /\ {ji.spec.adminSecret, ji.spec.image, ji.spec.account, ji.spec.cascSecret,
               ji.spec.groovySecret} \subseteq STRING
           /\ ji.spec.casc # Nil =>
                 ji.spec.casc \in [configMap : STRING, configString : Texts \cup {""}]
           /\ ji.spec.service # Nil => ji.spec.service \in
                 [name : STRING, type : STRING, nodePort : Nat, annotations : STRING]
           /\ ji.spec.storage # Nil => ji.spec.storage \in [pvc : STRING, create : BOOLEAN]
<1>1. ji.uid \in Uids /\ ji.spec \in Specs
  BY DEF Instances
<1>2. ji.uid.ns \in STRING /\ ji.uid.name \in STRING
  BY <1>1 DEF Uids
<1> QED
  BY <1>1, <1>2, SpecsAssumption DEF SpecsAssumption

(* Going on to the next step.                                               *)
LEMMA GoSteps ==
    ASSUME IInv, NEW o \in Operators, NEW step \in Steps, NEW ji \in Instances \cup {Nil},
           NEW found \in BOOLEAN, GoWith(o, step, ji, found),
           worker[o].at \notin {"idle", "down"},
           step \in Holding => /\ InstanceKey(worker[o].req) \in Keys
                               /\ ji \in Known(worker[o].req)
    PROVE  WorkerStep(o)
<1> DEFINE w == [at |-> step, req |-> worker[o].req, ji |-> ji, found |-> found]
<1>1. worker \in [Operators -> WorkerType] /\ queue \in QueueType
  BY DEF IInv, TypeOK, WorkerType, QueueType
<1>2. w \in WorkerType
  BY <1>1 DEF WorkerType
<1>3. worker[o].req \in Requests
  BY DEF IInv, InReconcile, Held
<1>4. Held(w)
  BY <1>3 DEF Held
<1>5. worker' = [worker EXCEPT ![o] = w]
  BY DEF GoWith
<1> QED
  BY <1>1, <1>2, <1>4, <1>5 DEF WorkerStep, GoWith

(* Coming back from Reconcile, or dying.                                    *)
LEMMA RestSteps ==
    ASSUME IInv, NEW o \in Operators,
           \/ Done(o)
           \/ Requeue(o) /\ worker[o].at \notin {"idle", "down"}
           \/ Die(o)
    PROVE  WorkerStep(o)
<1>1. worker \in [Operators -> WorkerType] /\ queue \in QueueType
  BY DEF IInv, TypeOK, WorkerType, QueueType
<1>2. \A step \in {"idle", "down"} : Resting(step) \in WorkerType /\ Held(Resting(step))
  BY DEF Resting, WorkerType, Held, Steps, Holding
<1>3. CASE Done(o)
  BY <1>1, <1>2, <1>3 DEF Done, WorkerStep
<1>4. CASE Requeue(o) /\ worker[o].at \notin {"idle", "down"}
  <2>1. worker[o].req \in Requests
    BY <1>4 DEF IInv, InReconcile, Held
  <2> QED
    BY <1>1, <1>2, <1>4, <2>1 DEF Requeue, WorkerStep, QueueType
<1>5. CASE Die(o)
  BY <1>1, <1>2, <1>5 DEF Die, WorkerStep, QueueType
<1> QED
  BY <1>3, <1>4, <1>5

-----------------------------------------------------------------------------
(* What calls do to the log.                                                *)

LEMMA FaultsTyped ==
    ASSUME TypeOK, UNCHANGED faults \/ Fault
    PROVE  faults' \in 0..MaxFaults
BY InputsAssumption DEF TypeOK, Fault, InputsAssumption

LEMMA PutAppends ==
    ASSUME TypeOK, NEW k, NEW v, Put(k, v)
    PROVE  IF k \in Keys THEN Appends(k, v) ELSE log' = log
<1>1. log = [j \in Keys |-> log[j]]
  BY DEF TypeOK
<1>2. log' = [log EXCEPT ![k] = Append(@, v)]
  BY DEF Put
<1>3. ASSUME k \notin Keys
      PROVE  [log EXCEPT ![k] = Append(@, v)] = log
  BY <1>1, <1>3
<1> QED
  BY <1>2, <1>3 DEF Appends

(* A create of an object that belongs to the instance in hand.              *)
LEMMA CreateLogs ==
    ASSUME IInv, NEW o \in Operators, NEW k, NEW object,
           worker[o].req \in Requests,
           object \in [owner : Uids \cup {NoOwner}, body : BodiesOf(k.kind)],
           k.kind # "JenkinsInstance",
           MineNow(o, object.owner), object.owner.ns = k.ns,
           k.kind = "ConfigMap" => Lists({}, object.body),
           log' = log \/ (Current(k) = Absent /\ Put(k, object))
    PROVE  LogStep(o)
<1>1. TypeOK
  BY DEF IInv
<1>2. CASE log' = log
  BY <1>2 DEF LogStep
<1>3. CASE Current(k) = Absent /\ Put(k, object)
  <2>1. CASE k \notin Keys
    BY <1>1, <1>3, <2>1, PutAppends DEF LogStep
  <2>2. CASE k \in Keys
    <3>1. Appends(k, object)
      BY <1>1, <1>3, <2>2, PutAppends
    <3>2. object \in VersionsOf(k.kind) /\ object # Absent
      BY <2>2, SentinelsAssumption DEF SentinelsAssumption, VersionsOf
    <3>3. WritesWell(o, k, object)
      BY <1>3, <3>2 DEF WritesWell, HasHome, FilesAt
    <3> QED
      BY <2>2, <3>1, <3>3 DEF LogStep
  <2> QED
    BY <2>1, <2>2
<1> QED
  BY <1>2, <1>3

(* An update, decided on the cached version, of an object that belongs to   *)
(* the instance in hand, or of that instance.                               *)
LEMMA UpdateLogs ==
    ASSUME IInv, NEW o \in Operators, NEW k, NEW body,
           worker[o].req \in Requests,
           Cached(o, k) # Absent,
           body \in BodiesOf(k.kind),
           k.kind = "JenkinsInstance" => /\ body.uid = Cached(o, k).body.uid
                                         /\ body.spec = Cached(o, k).body.spec
                                         /\ body.phase \in {Cached(o, k).body.phase, "Ready"},
           k.kind = "ConfigMap" => /\ Extends(body, Cached(o, k).body)
                                   /\ Lists(DOMAIN Cached(o, k).body, body),
           k = InstanceKey(worker[o].req) \/ MineNow(o, Cached(o, k).owner),
           \/ log' = log
           \/ UpToDate(o, k) /\ Put(k, [Cached(o, k) EXCEPT !.body = body])
    PROVE  LogStep(o)
<1> DEFINE v == [Cached(o, k) EXCEPT !.body = body]
<1>1. TypeOK /\ AtHome
  BY DEF IInv
<1>2. CASE log' = log
  BY <1>2 DEF LogStep
<1>3. CASE UpToDate(o, k) /\ Put(k, v)
  <2>1. k \in Keys /\ Cached(o, k) = Current(k)
    BY <1>1, <1>3, CachedTyped
  <2>2. Appends(k, v)
    BY <1>1, <1>3, <2>1, PutAppends
  <2>3. Cached(o, k) \in [owner : Uids \cup {NoOwner}, body : BodiesOf(k.kind)]
    BY <1>1, CachedTyped DEF VersionsOf
  <2>4. /\ v \in [owner : Uids \cup {NoOwner}, body : BodiesOf(k.kind)]
        /\ v.owner = Cached(o, k).owner /\ v.body = body
    BY <2>3
  <2>5. v \in VersionsOf(k.kind) /\ v # Absent
    BY <2>1, <2>4, SentinelsAssumption DEF SentinelsAssumption, VersionsOf
  <2>6. HasHome(k, Current(k))
    BY <1>1, <2>1, VersionsTyped DEF AtHome
  <2>7. HasHome(k, v)
    BY <2>1, <2>6, <2>4 DEF HasHome
  <2>8. Kept(k, v)
    BY <2>1, <2>4 DEF Kept
  <2>9. WritesWell(o, k, v)
    BY <2>1, <2>7, <2>8, <2>4, <2>5 DEF WritesWell, FilesAt
  <2> QED
    BY <2>1, <2>2, <2>9 DEF LogStep
<1> QED
  BY <1>2, <1>3

-----------------------------------------------------------------------------
(* Every action of Reconcile is a ReconcileStep.                            *)

LEMMA Unchanged ==
    ASSUME IInv
    PROVE  /\ stale \subseteq up /\ faults \in 0..MaxFaults
           /\ queue \in QueueType /\ worker \in [Operators -> WorkerType]
BY DEF IInv, TypeOK, QueueType, WorkerType

LEMMA BeginSteps ==
    ASSUME IInv, NEW o \in Operators, NEW r, Begin(o, r)
    PROVE  ReconcileStep(o)
<1> DEFINE w == [Resting("setup") EXCEPT !.req = r]
<1>1. r \in Requests /\ queue' \in QueueType
  BY Unchanged DEF Begin, QueueType
<1>2. worker' = worker \/ worker' = [worker EXCEPT ![o] = w]
  BY DEF Begin
<1>3. w \in WorkerType /\ Held(w)
  BY <1>1 DEF Resting, WorkerType, Steps, Held, Holding
<1>4. worker[o] \in WorkerType /\ Held(worker[o]) /\ worker = [worker EXCEPT ![o] = worker[o]]
  BY Unchanged DEF IInv, InReconcile
<1>5. WorkerStep(o)
  BY <1>1, <1>2, <1>3, <1>4 DEF WorkerStep
<1> QED
  BY <1>5, Unchanged DEF Begin, ReconcileStep, LogStep, NoCall, world

LEMMA InstanceGoneSteps ==
    ASSUME IInv, NEW o \in Operators, InstanceGone(o)
    PROVE  ReconcileStep(o)
<1>1. WorkerStep(o)
  BY RestSteps DEF InstanceGone, Fail, Steps
<1> QED
  BY <1>1, Unchanged DEF InstanceGone, Fail, NoCall, ReconcileStep, LogStep, world

(* The instance read is fit to be held at the steps that hold one.          *)
LEMMA ReadHeld ==
    ASSUME IInv, NEW o \in Operators, ReadInstance(o) # Absent
    PROVE  /\ InstanceKey(worker[o].req) \in Keys
           /\ ReadInstance(o).body \in Instances
           /\ ReadInstance(o).body \in Known(worker[o].req)
BY ReadTyped

LEMMA ReadServiceToRestartSteps ==
    ASSUME IInv, NEW o \in Operators, ReadServiceToRestart(o)
    PROVE  ReconcileStep(o)
<1>1. worker[o].at \notin {"idle", "down"}
  BY DEF ReadServiceToRestart, Reading
<1>2. \/ Requeue(o)
      \/ GoWith(o, "post", ReadInstance(o).body, FALSE)
  BY DEF ReadServiceToRestart, Fail
<1>3. WorkerStep(o)
  BY <1>1, <1>2, RestSteps, GoSteps, ReadHeld DEF ReadServiceToRestart, Reading, Steps
<1> QED
  BY <1>3, Unchanged DEF ReadServiceToRestart, Fail, NoCall, ReconcileStep, LogStep, world

LEMMA SafeRestartSteps ==
    ASSUME IInv, NEW o \in Operators, SafeRestart(o)
    PROVE  ReconcileStep(o)
<1>1. worker[o].at \notin {"idle", "down"}
  BY DEF SafeRestart, Reading
<1>2. Requeue(o) \/ GoWith(o, "deploy", Nil, FALSE)
  BY DEF SafeRestart, SafeRestartJenkins, Fail, Pass, Go
<1>3. WorkerStep(o)
  BY <1>1, <1>2, RestSteps, GoSteps DEF Steps, Holding
<1>4. faults' \in 0..MaxFaults /\ log' = log
  <2>1. (UNCHANGED faults \/ Fault) /\ log' = log
    BY DEF SafeRestart, SafeRestartJenkins, Fail, Pass, NoCall
  <2> QED
    BY <2>1, FaultsTyped DEF IInv
<1>5. stale' \subseteq up
  BY Unchanged DEF SafeRestart, SafeRestartJenkins
<1> QED
  BY <1>3, <1>4, <1>5 DEF SafeRestart, ReconcileStep, LogStep, world

LEMMA ReadForServiceSteps ==
    ASSUME IInv, NEW o \in Operators, ReadForService(o)
    PROVE  ReconcileStep(o)
<1>1. WorkerStep(o)
  BY GoSteps, ReadHeld DEF ReadForService, Reading, Steps
<1> QED
  BY <1>1, Unchanged DEF ReadForService, NoCall, ReconcileStep, LogStep, world

LEMMA CheckReadySteps ==
    ASSUME IInv, NEW o \in Operators, CheckReady(o)
    PROVE  ReconcileStep(o)
<1>1. worker[o].at \notin {"idle", "down"}
  BY DEF CheckReady, Reading
<1>2. Requeue(o) \/ GoWith(o, "status", Nil, FALSE)
  BY DEF CheckReady, CheckJenkinsReady, Fail, Pass, Go
<1>3. WorkerStep(o)
  BY <1>1, <1>2, RestSteps, GoSteps DEF Steps, Holding
<1>4. faults' \in 0..MaxFaults /\ log' = log
  <2>1. (UNCHANGED faults \/ Fault) /\ log' = log
    BY DEF CheckReady, CheckJenkinsReady, Fail, Pass, NoCall
  <2> QED
    BY <2>1, FaultsTyped DEF IInv
<1> QED
  BY <1>3, <1>4, Unchanged DEF CheckReady, ReconcileStep, LogStep, world

LEMMA NewSetupConfigMapSteps ==
    ASSUME IInv, NEW o \in Operators, NewSetupConfigMap(o)
    PROVE  ReconcileStep(o)
<1> DEFINE ji == ReadInstance(o).body
           key == SetupKey(ji)
           cm == Cached(o, key)
           data == SetupStringData(ji)
           merged == MergeData(data, cm.body)
<1>1. worker[o].at \notin {"idle", "down"} /\ ReadInstance(o) # Absent
  BY DEF NewSetupConfigMap, Reading
<1>2. \/ Requeue(o) \/ Die(o)
      \/ GoWith(o, "deploy", Nil, FALSE) \/ GoWith(o, "restart", Nil, FALSE)
  BY DEF NewSetupConfigMap, Fail, Panic, Pass, Go, Create, Update, Write
<1>3. WorkerStep(o)
  BY <1>1, <1>2, RestSteps, GoSteps DEF Steps, Holding
<1>4. faults' \in 0..MaxFaults
  <2>1. UNCHANGED faults \/ Fault
    BY DEF NewSetupConfigMap, Fail, Panic, Pass, NoCall, Create, Update, Write
  <2> QED
    BY <2>1, FaultsTyped DEF IInv
<1>5. \/ log' = log
      \/ /\ ji.spec.casc # Nil /\ Current(key) = Absent
         /\ Put(key, Object(ji.uid, data))
      \/ /\ ji.spec.casc # Nil /\ cm # Absent /\ ~Foreign(cm, ji)
         /\ UpToDate(o, key) /\ Put(key, [cm EXCEPT !.body = merged])
  BY DEF NewSetupConfigMap, Fail, Panic, Pass, NoCall, Create, Update, Write
<1>6. /\ ji \in Instances /\ worker[o].req \in Requests /\ MineNow(o, ji.uid)
      /\ ji.uid \in Uids
  BY <1>1, ReadTyped, SpecTyped DEF IInv, InReconcile, Held, MineNow
<1>7. key.kind = "ConfigMap" /\ BodiesOf(key.kind) = DataMaps /\ key.ns = ji.uid.ns
  BY DEF SetupKey, Key, BodiesOf
<1>8. ji.spec.casc # Nil => data \in DataMaps
  BY <1>6, SpecTyped, StringDataTyped DEF SetupStringData
<1>9. ji.spec.casc # Nil => "plugins.txt" \in DOMAIN data /\ WellListed(data["plugins.txt"])
  BY <1>6, SpecTyped, StringDataLists DEF SetupStringData
<1>10. LogStep(o)
  <2>1. CASE log' = log
    BY <2>1 DEF LogStep
  <2>2. CASE /\ ji.spec.casc # Nil /\ Current(key) = Absent
             /\ Put(key, Object(ji.uid, data))
    <3>1. /\ Object(ji.uid, data) \in [owner : Uids \cup {NoOwner}, body : BodiesOf(key.kind)]
          /\ Object(ji.uid, data).owner = ji.uid
      BY <1>6, <1>7, <1>8, <2>2 DEF Object
    <3>2. Lists({}, Object(ji.uid, data).body)
      BY <1>9, <2>2 DEF Lists, Object
    <3> QED
      BY <1>6, <1>7, <2>2, <3>1, <3>2, CreateLogs
  <2>3. CASE /\ ji.spec.casc # Nil /\ cm # Absent /\ ~Foreign(cm, ji)
             /\ UpToDate(o, key) /\ Put(key, [cm EXCEPT !.body = merged])
    <3>1. cm.body \in DataMaps /\ cm.owner = ji.uid
      BY <1>7, <2>3, CachedTyped, Kinds DEF IInv, Foreign, IsControlledBy
    <3>2. merged \in DataMaps
      BY <1>8, <2>3, <3>1, MergeDataTyped
    <3>3. Extends(merged, cm.body)
      BY MergeDataKeeps DEF Extends
    <3>4. Lists(DOMAIN cm.body, merged)
      BY <1>9, <2>3 DEF Lists, MergeData
    <3> QED
      BY <1>6, <1>7, <2>3, <3>1, <3>2, <3>3, <3>4, UpdateLogs
  <2> QED
    BY <1>5, <2>1, <2>2, <2>3
<1>11. stale' \subseteq up
  BY Unchanged DEF NewSetupConfigMap
<1> QED
  BY <1>3, <1>4, <1>10, <1>11 DEF NewSetupConfigMap, ReconcileStep, world

LEMMA NewDeploymentSteps ==
    ASSUME IInv, NEW o \in Operators, NewDeployment(o)
    PROVE  ReconcileStep(o)
<1> DEFINE ji == ReadInstance(o).body
           deployment == Cached(o, DeploymentKey(ji))
           key == ClaimKey(ji)
<1>1. worker[o].at \notin {"idle", "down"} /\ ReadInstance(o) # Absent
  BY DEF NewDeployment, Reading
<1>2. Requeue(o) \/ GoWith(o, "template", ji, deployment # Absent)
  BY DEF NewDeployment, Fail, Create, Write
<1>3. WorkerStep(o)
  BY <1>1, <1>2, RestSteps, GoSteps, ReadHeld DEF Steps
<1>4. faults' \in 0..MaxFaults
  <2>1. UNCHANGED faults \/ Fault
    BY DEF NewDeployment, Fail, NoCall, Create, Write
  <2> QED
    BY <2>1, FaultsTyped DEF IInv
<1>5. \/ log' = log
      \/ Current(key) = Absent /\ Put(key, Object(ji.uid, Nil))
  BY DEF NewDeployment, Fail, NoCall, Create, Write
<1>6. /\ worker[o].req \in Requests /\ MineNow(o, ji.uid)
      /\ ji.uid \in Uids
  BY <1>1, ReadTyped, SpecTyped DEF IInv, InReconcile, Held, MineNow
<1>7. key.kind = "PersistentVolumeClaim" /\ BodiesOf(key.kind) = {Nil} /\ key.ns = ji.uid.ns
  BY DEF ClaimKey, Key, BodiesOf
<1>8. /\ Object(ji.uid, Nil) \in [owner : Uids \cup {NoOwner}, body : BodiesOf(key.kind)]
      /\ Object(ji.uid, Nil).owner = ji.uid
  BY <1>6, <1>7 DEF Object
<1>9. LogStep(o)
  BY <1>5, <1>6, <1>7, <1>8, CreateLogs DEF LogStep
<1> QED
  BY <1>3, <1>4, <1>9, Unchanged DEF NewDeployment, ReconcileStep, world

(* The instance held across a step is in hand and was held by the server.   *)
LEMMA HeldInHand ==
    ASSUME IInv, NEW o \in Operators, worker[o].at \in Holding
    PROVE  /\ worker[o].req \in Requests
           /\ worker[o].ji \in Instances
           /\ worker[o].ji.uid \in Uids
           /\ MineNow(o, worker[o].ji.uid)
<1>1. Held(worker[o]) /\ worker[o].at \notin {"idle", "down"}
  BY DEF IInv, InReconcile, Holding
<1>2. worker[o].ji \in Instances /\ worker[o].ji # Nil
  BY <1>1, KnownTyped, SentinelsAssumption DEF IInv, Held, SentinelsAssumption
<1>3. worker[o].ji.uid \in InHand(o)
  BY <1>2 DEF InHand
<1>4. worker[o].ji.uid \in Incarnations(worker[o].req)
  BY <1>1 DEF Held, Incarnations
<1> QED
  BY <1>1, <1>2, <1>3, <1>4, SpecTyped DEF Held, MineNow

(* The file names of a ConfigMap or Secret that is there.                   *)
LEMMA KeysAtTyped ==
    ASSUME TypeOK, NEW o \in Operators, NEW kind \in {"ConfigMap", "Secret"},
           NEW ns, NEW name, ~Lacks(o, kind, ns, name)
    PROVE  KeysAt(o, kind, ns, name) \subseteq DataKeys
<1> DEFINE k == Key(kind, ns, name)
<1>1. CASE name = ""
  BY <1>1 DEF KeysAt
<1>2. CASE name # ""
  <2>1. Cached(o, k) # Absent
    BY <1>2 DEF Lacks
  <2>2. k.kind = kind
    BY DEF Key
  <2>3. Cached(o, k).body \in DataMaps
    BY <2>1, <2>2, CachedTyped, Kinds
  <2>4. PICK D \in SUBSET DataKeys : Cached(o, k).body \in [D -> Contents]
    BY <2>3, DataMapsDef
  <2>5. DOMAIN Cached(o, k).body = D
    BY <2>4
  <2> QED
    BY <1>2, <2>4, <2>5 DEF KeysAt
<1> QED
  BY <1>1, <1>2

(* The pod template newDeployment builds.                                   *)
LEMMA TemplateTyped ==
    ASSUME TypeOK, NEW o \in Operators, NEW ji \in Instances, ~MissingSource(o, ji)
    PROVE  Template(o, ji) \in Templates
<1> DEFINE s == ji.spec
           named == s.casc # Nil /\ s.casc.configMap # ""
<1>1. KeysAt(o, "Secret", ji.uid.ns, s.groovySecret) \subseteq DataKeys
  BY KeysAtTyped DEF MissingSource
<1>2. named => KeysAt(o, "ConfigMap", ji.uid.ns, s.casc.configMap) \subseteq DataKeys
  BY KeysAtTyped DEF MissingSource
<1>3. {"jenkins.yaml"} \subseteq DataKeys
  BY SetupDataAssumption DEF SetupDataAssumption
<1>4. s.storage # Nil => ClaimName(ji) \in STRING
  BY SpecTyped DEF ClaimName
<1>5. /\ {s.image, s.account, s.cascSecret, s.groovySecret, ji.uid.name} \subseteq STRING
      /\ named => s.casc.configMap \in STRING
  BY SpecTyped
<1>6. (IF named THEN KeysAt(o, "ConfigMap", ji.uid.ns, s.casc.configMap) ELSE {"jenkins.yaml"})
        \in SUBSET DataKeys
  BY <1>2, <1>3
<1>7. (IF named THEN s.casc.configMap ELSE ji.uid.name) \in STRING
  BY <1>5
<1>8. (IF s.storage = Nil THEN "" ELSE ClaimName(ji)) \in STRING
  BY <1>4, LiteralsAssumption DEF LiteralsAssumption
<1> QED
  BY <1>1, <1>5, <1>6, <1>7, <1>8 DEF Template, Templates

LEMMA CreateDeploymentSteps ==
    ASSUME IInv, NEW o \in Operators, CreateDeployment(o)
    PROVE  ReconcileStep(o)
<1> DEFINE ji == worker[o].ji
           key == DeploymentKey(ji)
           template == Template(o, ji)
<1>1. worker[o].at \notin {"idle", "down"} /\ worker[o].at \in Holding
  BY DEF CreateDeployment, Holding
<1>2. Requeue(o) \/ GoWith(o, "service", Nil, FALSE)
  BY DEF CreateDeployment, Fail, Pass, Go, Create, Write
<1>3. WorkerStep(o)
  BY <1>1, <1>2, RestSteps, GoSteps DEF Steps, Holding
<1>4. faults' \in 0..MaxFaults
  <2>1. UNCHANGED faults \/ Fault
    BY DEF CreateDeployment, Fail, Pass, NoCall, Create, Write
  <2> QED
    BY <2>1, FaultsTyped DEF IInv
<1>5. \/ log' = log
      \/ /\ ~MissingSource(o, ji) /\ Current(key) = Absent
         /\ Put(key, Object(ji.uid, template))
  BY DEF CreateDeployment, Fail, Pass, NoCall, Create, Write
<1>6. key.kind = "Deployment" /\ BodiesOf(key.kind) = Templates /\ key.ns = ji.uid.ns
  BY DEF DeploymentKey, Key, BodiesOf
<1>7. ji \in Instances /\ ji.uid \in Uids /\ worker[o].req \in Requests /\ MineNow(o, ji.uid)
  BY <1>1, HeldInHand
<1>8. LogStep(o)
  <2>1. CASE log' = log
    BY <2>1 DEF LogStep
  <2>2. CASE /\ ~MissingSource(o, ji) /\ Current(key) = Absent
             /\ Put(key, Object(ji.uid, template))
    <3>1. template \in Templates
      BY <1>7, <2>2, TemplateTyped DEF IInv
    <3>2. /\ Object(ji.uid, template) \in [owner : Uids \cup {NoOwner}, body : BodiesOf(key.kind)]
          /\ Object(ji.uid, template).owner = ji.uid
      BY <1>6, <1>7, <3>1 DEF Object
    <3> QED
      BY <1>6, <1>7, <2>2, <3>2, CreateLogs
  <2> QED
    BY <1>5, <2>1, <2>2
<1> QED
  BY <1>3, <1>4, <1>8, Unchanged DEF CreateDeployment, ReconcileStep, world

LEMMA DefaultedTyped ==
    ASSUME NEW svc \in Services
    PROVE  Defaulted(svc) \in Services
BY InputsAssumption, LiteralsAssumption
   DEF Defaulted, Services, InputsAssumption, LiteralsAssumption

LEMMA NewServiceSteps ==
    ASSUME IInv, NEW o \in Operators, NewService(o)
    PROVE  ReconcileStep(o)
<1> DEFINE ji == worker[o].ji
           key == ServiceKey(ReadInstance(o).body)
           own == ServiceKey(ji)
           service == Cached(o, key)
           copy == ServiceCopy(service.body, ji.spec.service)
           built == BuiltService(ji.spec.service)
<1>1. /\ worker[o].at \notin {"idle", "down"} /\ worker[o].at \in Holding
      /\ ReadInstance(o) # Absent
  BY DEF NewService, Reading, Holding
<1>2. Requeue(o) \/ Die(o) \/ GoWith(o, "check", Nil, FALSE)
  BY DEF NewService, Fail, Panic, Pass, Go, Create, Update, Write
<1>3. WorkerStep(o)
  BY <1>1, <1>2, RestSteps, GoSteps DEF Steps, Holding
<1>4. faults' \in 0..MaxFaults
  <2>1. UNCHANGED faults \/ Fault
    BY DEF NewService, Fail, Panic, Pass, NoCall, Create, Update, Write
  <2> QED
    BY <2>1, FaultsTyped DEF IInv
<1>5. \/ log' = log
      \/ /\ ji.spec.service # Nil /\ Current(own) = Absent
         /\ Put(own, Object(ji.uid, Defaulted(built)))
      \/ /\ service # Absent /\ ~Foreign(service, ji)
         /\ UpToDate(o, key) /\ Put(key, [service EXCEPT !.body = Defaulted(copy)])
  BY DEF NewService, Fail, Panic, Pass, NoCall, Create, Update, Write
<1>6. ji \in Instances /\ ji.uid \in Uids /\ worker[o].req \in Requests /\ MineNow(o, ji.uid)
  BY <1>1, HeldInHand
<1>7. /\ key.kind = "Service" /\ own.kind = "Service" /\ own.ns = ji.uid.ns
      /\ BodiesOf("Service") = Services
  BY DEF ServiceKey, Key, BodiesOf
<1>8. LogStep(o)
  <2>1. CASE log' = log
    BY <2>1 DEF LogStep
  <2>2. CASE /\ ji.spec.service # Nil /\ Current(own) = Absent
             /\ Put(own, Object(ji.uid, Defaulted(built)))
    <3>1. built \in Services
      BY <1>6, <2>2, SpecTyped DEF BuiltService, Services
    <3>2. /\ Object(ji.uid, Defaulted(built)) \in
                [owner : Uids \cup {NoOwner}, body : BodiesOf(own.kind)]
          /\ Object(ji.uid, Defaulted(built)).owner = ji.uid
      BY <1>6, <1>7, <3>1, DefaultedTyped DEF Object
    <3> QED
      BY <1>6, <1>7, <2>2, <3>2, CreateLogs
  <2>3. CASE /\ service # Absent /\ ~Foreign(service, ji)
             /\ UpToDate(o, key) /\ Put(key, [service EXCEPT !.body = Defaulted(copy)])
    <3>1. service.body \in Services /\ service.owner = ji.uid
      BY <1>7, <2>3, CachedTyped, Kinds DEF IInv, Foreign, IsControlledBy
    <3>2. copy \in Services
      BY <1>6, <3>1, SpecTyped DEF ServiceCopy, Services
    <3>3. Defaulted(copy) \in BodiesOf(key.kind)
      BY <1>7, <3>2, DefaultedTyped
    <3> QED
      BY <1>6, <1>7, <2>3, <3>1, <3>3, UpdateLogs
  <2> QED
    BY <1>5, <2>1, <2>2, <2>3
<1> QED
  BY <1>3, <1>4, <1>8, Unchanged DEF NewService, ReconcileStep, world

LEMMA UpdateStatusSteps ==
    ASSUME IInv, NEW o \in Operators, UpdateStatus(o)
    PROVE  ReconcileStep(o)
<1> DEFINE v == ReadInstance(o)
           ji == v.body
           key == InstanceKey(ji.uid)
           ready == [ji EXCEPT !.phase = JenkinsInstancePhaseReady]
<1>1. worker[o].at \notin {"idle", "down"} /\ v # Absent
  BY DEF UpdateStatus, Reading
<1>2. Requeue(o) \/ Done(o)
  BY DEF UpdateStatus, Update, Write
<1>3. WorkerStep(o)
  BY <1>1, <1>2, RestSteps
<1>4. faults' \in 0..MaxFaults
  <2>1. UNCHANGED faults \/ Fault
    BY DEF UpdateStatus, NoCall, Update, Write
  <2> QED
    BY <2>1, FaultsTyped DEF IInv
<1>5. \/ log' = log
      \/ UpToDate(o, key) /\ Put(key, [Cached(o, key) EXCEPT !.body = ready])
  BY DEF UpdateStatus, NoCall, Update, Write
<1>6. /\ ji \in Instances /\ worker[o].req \in Requests
      /\ key = InstanceKey(worker[o].req)
  BY <1>1, ReadTyped DEF IInv, InReconcile, Held, InstanceKey
<1>7. Cached(o, key) = v
  BY <1>6 DEF ReadInstance
<1>8. key.kind = "JenkinsInstance" /\ BodiesOf(key.kind) = Instances
  BY DEF InstanceKey, Key, BodiesOf
<1>9. /\ ready \in Instances /\ ready.uid = ji.uid /\ ready.spec = ji.spec
      /\ ready.phase = "Ready"
  BY <1>6 DEF Instances, JenkinsInstancePhaseReady
<1>10. LogStep(o)
  BY <1>1, <1>5, <1>6, <1>7, <1>8, <1>9, UpdateLogs DEF LogStep
<1> QED
  BY <1>3, <1>4, <1>10, Unchanged DEF UpdateStatus, ReconcileStep, world

(* Whatever Reconcile does is a ReconcileStep.                              *)
LEMMA ReconcileSteps ==
    ASSUME IInv, NEW o \in Operators, Reconcile(o)
    PROVE  ReconcileStep(o)
BY BeginSteps, InstanceGoneSteps, NewSetupConfigMapSteps, ReadServiceToRestartSteps,
   SafeRestartSteps, NewDeploymentSteps, CreateDeploymentSteps, ReadForServiceSteps,
   NewServiceSteps, CheckReadySteps, UpdateStatusSteps DEF Reconcile

-----------------------------------------------------------------------------
(* The rest of the operator process.                                        *)

(* Whatever a replica's cache shows it, what it queues are requests.        *)
LEMMA RequestsTyped ==
    ASSUME TypeOK, NEW k \in Keys, NEW at \in [Keys -> Nat \ {0}],
           \A j \in Keys : at[j] <= Version(j),
           NEW versions \in SUBSET VersionsOf(k.kind)
    PROVE  RequestsOf(k, at, versions) \subseteq Requests
<1>1. RequestFor(k) \in Requests
  BY KeysAssumption DEF KeysAssumption, RequestFor, Requests
<1>2. \A u \in Uids : RequestFor(u) \in Requests
  BY DEF Uids, RequestFor, Requests
<1>3. OwnerRequests(versions) \subseteq Requests
  BY <1>2 DEF OwnerRequests, VersionsOf
<1>4. Listed(at) \subseteq Instances
  <2> SUFFICES ASSUME NEW j \in InstanceKeys, log[j][at[j]] # Absent
               PROVE  log[j][at[j]].body \in Instances
    BY DEF Listed
  <2>1. j \in Keys /\ j.kind = "JenkinsInstance"
    BY DEF InstanceKeys
  <2>2. at[j] \in 1..Version(j)
    BY <2>1, VersionsTyped
  <2> QED
    BY <2>1, <2>2, VersionsTyped, Kinds
<1>5. CascRequests(k, at) \subseteq Requests
  <2> SUFFICES ASSUME NEW ji \in Listed(at)
               PROVE  RequestFor(ji.uid) \in Requests
    BY DEF CascRequests
  <2>1. ji.uid \in Uids
    BY <1>4, SpecTyped
  <2> QED
    BY <1>2, <2>1
<1> QED
  BY <1>1, <1>3, <1>5 DEF RequestsOf

(* A step of the process that leaves the API server alone.                  *)
LEMMA ProcessStepKeeps ==
    ASSUME IInv, NEW o \in Operators,
           UNCHANGED <<log, stale, up, served, edits>>,
           faults' \in 0..MaxFaults,
           NEW at \in [Keys -> Nat \ {0}], \A k \in Keys : at[k] <= Version(k),
           seen' = [seen EXCEPT ![o] = at],
           WorkerStep(o)
    PROVE  IInv'
<1>1. TypeOK /\ AtHome /\ InReconcile
  BY DEF IInv
<1>2. PICK w \in WorkerType : Held(w) /\ worker' = [worker EXCEPT ![o] = w]
  BY DEF WorkerStep
<1>3. \A k \in Keys : Version(k)' = Version(k)
  BY DEF Version
<1>4. InReconcile'
  <2> SUFFICES ASSUME NEW p \in Operators
               PROVE  Held(worker[p])'
    BY DEF InReconcile
  <2>1. Held(worker[p]) /\ Held(w)
    BY <1>1, <1>2 DEF InReconcile
  <2>2. worker'[p] = worker[p] \/ worker'[p] = w
    BY <1>1, <1>2 DEF TypeOK
  <2>3. \A x : Held(x) => Held(x)'
    BY <1>1, HeldStays DEF Appended
  <2> QED
    BY <2>1, <2>2, <2>3
<1>5. TypeOK'
  <2>1. worker' \in [Operators -> WorkerType] /\ queue' \in QueueType
    BY <1>1, <1>2 DEF TypeOK, WorkerType, WorkerStep
  <2>2. /\ seen' \in [Operators -> [Keys -> Nat \ {0}]]
        /\ \A p \in Operators, k \in Keys : seen'[p][k] <= Version(k)'
    BY <1>1, <1>3 DEF TypeOK
  <2>3. \A p \in Operators : worker'[p].at \in Holding =>
          InstanceKey(worker'[p].req) \in Keys /\ worker'[p].ji \in Known(worker[p].req)'
    BY <1>4 DEF InReconcile, Held
  <2> QED
    BY <1>1, <2>1, <2>2, <2>3 DEF TypeOK, WorkerType, QueueType
<1>6. AtHome'
  BY <1>1, <1>3 DEF AtHome
<1> QED
  BY <1>4, <1>5, <1>6 DEF IInv

LEMMA ObserveKeeps ==
    ASSUME IInv, NEW o \in Operators, NEW k \in Keys, NEW v \in 1..Version(k),
           Observe(o, k, v), UNCHANGED faults \/ Fault
    PROVE  IInv'
<1> DEFINE at == [seen[o] EXCEPT ![k] = v]
           versions == {log[k][seen[o][k]], log[k][v]}
<1>1. TypeOK
  BY DEF IInv
<1>2. v \in Nat \ {0} /\ v <= Version(k)
  BY <1>1, VersionsTyped
<1>3. at \in [Keys -> Nat \ {0}] /\ \A j \in Keys : at[j] <= Version(j)
  BY <1>1, <1>2 DEF TypeOK
<1>4. versions \subseteq VersionsOf(k.kind)
  <2>1. seen[o][k] \in 1..Version(k)
    BY <1>1, VersionsTyped DEF TypeOK
  <2> QED
    BY <1>1, <2>1, VersionsTyped
<1>5. WorkerStep(o)
  <2>1. CASE Die(o)
    BY <2>1, RestSteps
  <2>2. CASE /\ queue' = [queue EXCEPT ![o] = @ \cup RequestsOf(k, at, versions)]
             /\ UNCHANGED worker
    <3>1. RequestsOf(k, at, versions) \subseteq Requests
      BY <1>1, <1>3, <1>4, RequestsTyped
    <3>2. queue' \in QueueType
      BY <2>2, <3>1, Unchanged DEF QueueType
    <3>3. worker[o] \in WorkerType /\ Held(worker[o]) /\ worker' = [worker EXCEPT ![o] = worker[o]]
      BY <2>2, Unchanged DEF IInv, InReconcile
    <3> QED
      BY <3>2, <3>3 DEF WorkerStep
  <2> QED
    BY <2>1, <2>2 DEF Observe
<1>6. faults' \in 0..MaxFaults
  BY <1>1, FaultsTyped
<1>7. seen' = [seen EXCEPT ![o] = at] /\ UNCHANGED <<log, stale, up, served, edits>>
  BY DEF Observe, world
<1> QED
  BY <1>3, <1>5, <1>6, <1>7, ProcessStepKeeps

LEMMA OperatorKeeps ==
    ASSUME IInv, NEW o \in Operators, Operator(o)
    PROVE  IInv'
<1>0. TypeOK
  BY DEF IInv
<1>1. CASE Reconcile(o)
  BY <1>1, ReconcileSteps, ReconcileStepKeeps
<1>2. ASSUME NEW k \in Keys, Deliver(o, k)
      PROVE  IInv'
  <2>1. seen[o][k] + 1 \in 1..Version(k)
    BY <1>0, <1>2, VersionsTyped DEF Deliver, TypeOK
  <2> QED
    BY <1>2, <2>1, ObserveKeeps DEF Deliver
<1>3. ASSUME NEW k \in Keys, Relist(o, k)
      PROVE  IInv'
  <2>1. Version(k) \in 1..Version(k)
    BY <1>0, VersionsTyped
  <2> QED
    BY <1>3, <2>1, ObserveKeeps DEF Relist
<1>4. CASE Crash(o)
  <2>1. /\ seen[o] \in [Keys -> Nat \ {0}] /\ \A k \in Keys : seen[o][k] <= Version(k)
        /\ seen' = [seen EXCEPT ![o] = seen[o]]
    BY <1>0, <1>4 DEF Crash, TypeOK
  <2>2. faults' \in 0..MaxFaults
    BY <1>0, <1>4, FaultsTyped DEF Crash
  <2>3. WorkerStep(o)
    BY <1>4, RestSteps DEF Crash
  <2> QED
    BY <1>4, <2>1, <2>2, <2>3, ProcessStepKeeps DEF Crash, world
<1>5. CASE Start(o)
  <2> DEFINE at == [k \in Keys |-> Version(k)]
  <2>1. at \in [Keys -> Nat \ {0}] /\ \A k \in Keys : at[k] \in 1..Version(k) /\ at[k] <= Version(k)
    BY <1>0, VersionsTyped
  <2>2. Everything(at) \subseteq Requests
    <3> SUFFICES ASSUME NEW k \in Keys
                 PROVE  RequestsOf(k, at, {log[k][at[k]]}) \subseteq Requests
      BY DEF Everything
    <3>1. {log[k][at[k]]} \subseteq VersionsOf(k.kind)
      BY <1>0, <2>1, VersionsTyped
    <3> QED
      BY <1>0, <2>1, <3>1, RequestsTyped
  <2>3. WorkerStep(o)
    <3>1. Resting("idle") \in WorkerType /\ Held(Resting("idle"))
      BY DEF Resting, WorkerType, Held, Steps, Holding
    <3>2. queue' \in QueueType
      BY <1>5, <2>2, Unchanged DEF Start, QueueType
    <3> QED
      BY <1>5, <3>1, <3>2 DEF Start, WorkerStep
  <2>4. /\ UNCHANGED <<log, stale, up, served, edits>> /\ faults' \in 0..MaxFaults
        /\ seen' = [seen EXCEPT ![o] = at]
    BY <1>5, Unchanged DEF Start, NoCall, world
  <2> QED
    BY <2>1, <2>3, <2>4, ProcessStepKeeps
<1> QED
  BY <1>1, <1>2, <1>3, <1>4, <1>5 DEF Operator

-----------------------------------------------------------------------------
(* The cluster.                                                             *)

(* A step of the cluster: the operator is left alone, what is written has   *)
(* its type and its home.                                                   *)
LEMMA ClusterStepKeeps ==
    ASSUME IInv, Appended, UNCHANGED operatorState,
           served' \subseteq Uids, up' \subseteq served', stale' \subseteq up',
           edits' \in 0..MaxEdits, faults' \in 0..MaxFaults
    PROVE  IInv'
<1>1. TypeOK /\ AtHome /\ InReconcile
  BY DEF IInv
<1>2. \A k \in Keys : /\ Version(k) \in Nat /\ Version(k)' \in Nat
                      /\ Version(k) <= Version(k)'
  BY <1>1, LogGrows, VersionsTyped DEF Version
<1>3. InReconcile'
  BY <1>1, HeldStays DEF InReconcile, operatorState
<1>4. TypeOK'
  <2>1. \A o \in Operators, k \in Keys : seen'[o][k] <= Version(k)'
    <3> SUFFICES ASSUME NEW o \in Operators, NEW k \in Keys
                 PROVE  seen'[o][k] <= Version(k)'
      OBVIOUS
    <3>1. seen'[o][k] \in Nat /\ seen'[o][k] <= Version(k)
      BY <1>1 DEF TypeOK, operatorState
    <3> QED
      BY <1>2, <3>1
  <2>2. log' = [k \in Keys |-> log'[k]] /\ \A k \in Keys : log'[k] \in Seq(VersionsOf(k.kind)) \ {<<>>}
    BY <1>1, LogGrows
  <2>3. \A p \in Operators : worker'[p].at \in Holding =>
          InstanceKey(worker'[p].req) \in Keys /\ worker'[p].ji \in Known(worker[p].req)'
    BY <1>3 DEF InReconcile, Held
  <2> QED
    BY <1>1, <2>1, <2>2, <2>3 DEF TypeOK, operatorState
<1>5. AtHome'
  BY <1>1, LogGrows
<1> QED
  BY <1>3, <1>4, <1>5 DEF IInv

(* What users submit is an object of its kind, at its home.                 *)
LEMMA SubmittedTyped ==
    ASSUME NEW k \in Keys, NEW x, Submitted(k, x, 1) \in BodiesOf(k.kind), NEW n \in Nat
    PROVE  /\ Submitted(k, x, n) \in BodiesOf(k.kind)
           /\ k.kind = "JenkinsInstance" => /\ x \in Specs
                                            /\ Submitted(k, x, n).uid.ns = k.ns
                                            /\ Submitted(k, x, n).uid.name = k.name
           /\ k.kind # "JenkinsInstance" => Submitted(k, x, n) = Submitted(k, x, 1)
<1>1. CASE k.kind = "JenkinsInstance"
  <2> DEFINE new == [uid |-> [ns |-> k.ns, name |-> k.name, gen |-> n], spec |-> x, phase |-> ""]
             first == [uid |-> [ns |-> k.ns, name |-> k.name, gen |-> 1], spec |-> x, phase |-> ""]
  <2>1. Submitted(k, x, n) = new /\ Submitted(k, x, 1) = first /\ BodiesOf(k.kind) = Instances
    BY <1>1 DEF Submitted, BodiesOf
  <2>2. x \in Specs
    <3>1. first \in Instances
      BY <2>1
    <3>2. first.spec \in Specs
      BY <3>1 DEF Instances
    <3> QED
      BY <3>2
  <2>3. k.ns \in STRING /\ k.name \in STRING
    BY KeysAssumption DEF KeysAssumption
  <2>4. new \in Instances
    BY <2>2, <2>3 DEF Instances, Uids
  <2>5. new.uid.ns = k.ns /\ new.uid.name = k.name
    OBVIOUS
  <2> QED
    BY <1>1, <2>1, <2>2, <2>4, <2>5
<1>2. CASE k.kind # "JenkinsInstance"
  <2>1. Submitted(k, x, n) = Submitted(k, x, 1)
    BY <1>2 DEF Submitted
  <2> QED
    BY <1>2, <2>1
<1> QED
  BY <1>1, <1>2

LEMMA EditsTyped ==
    ASSUME TypeOK, Edit
    PROVE  edits' \in 0..MaxEdits
BY InputsAssumption DEF TypeOK, Edit, InputsAssumption

LEMMA UserCreatesKeeps ==
    ASSUME IInv, NEW k \in Keys, NEW x \in Offered[k], UserCreates(k, x)
    PROVE  IInv'
<1> DEFINE v == Object(NoOwner, Submitted(k, x, Version(k) + 1))
<1>1. TypeOK
  BY DEF IInv
<1>2. Version(k) + 1 \in Nat
  BY <1>1, VersionsTyped
<1>3. Submitted(k, x, 1) \in BodiesOf(k.kind)
  BY InputsAssumption DEF InputsAssumption
<1>4. v \in VersionsOf(k.kind) /\ HasHome(k, v)
  BY <1>2, <1>3, SubmittedTyped DEF Object, VersionsOf, HasHome
<1>5. Appended
  BY <1>1, <1>4, PutAppends DEF UserCreates, Appended
<1> QED
  BY <1>1, <1>5, EditsTyped, ClusterStepKeeps DEF UserCreates, TypeOK

(* What an edit makes of an object is of its kind, and an instance stays    *)
(* who it is and keeps its phase.                                           *)
LEMMA EditedTyped ==
    ASSUME NEW k \in Keys, NEW x \in Offered[k], NEW old \in BodiesOf(k.kind)
    PROVE  /\ Edited(k, old, x) \in BodiesOf(k.kind)
           /\ k.kind = "JenkinsInstance" => /\ Edited(k, old, x).uid = old.uid
                                            /\ Edited(k, old, x).phase = old.phase
<1> DEFINE body == Edited(k, old, x)
<1>1. Submitted(k, x, 1) \in BodiesOf(k.kind)
  BY InputsAssumption DEF InputsAssumption
<1>2. CASE k.kind = "JenkinsInstance"
  <2>1. body = [old EXCEPT !.spec = x] /\ BodiesOf(k.kind) = Instances
    BY <1>2 DEF Edited, BodiesOf
  <2>2. x \in Specs
    BY <1>1, <1>2, SubmittedTyped
  <2>3. old \in Instances
    BY <2>1
  <2>4. /\ [old EXCEPT !.spec = x] \in Instances
        /\ [old EXCEPT !.spec = x].uid = old.uid
        /\ [old EXCEPT !.spec = x].phase = old.phase
    BY <2>2, <2>3 DEF Instances
  <2> QED
    BY <2>1, <2>4
<1>3. CASE k.kind \in {"ConfigMap", "Secret"}
  <2>1. body = MergeData(old, x) /\ BodiesOf(k.kind) = DataMaps /\ Submitted(k, x, 1) = x
    BY <1>3 DEF Edited, BodiesOf, Submitted
  <2> QED
    BY <1>1, <1>3, <2>1, MergeDataTyped
<1>4. CASE k.kind \notin {"JenkinsInstance", "ConfigMap", "Secret"}
  BY <1>1, <1>4 DEF Edited
<1> QED
  BY <1>2, <1>3, <1>4

LEMMA UserEditsKeeps ==
    ASSUME IInv, NEW k \in Keys, NEW x \in Offered[k], UserEdits(k, x)
    PROVE  IInv'
<1> DEFINE old == Current(k)
           body == Edited(k, old.body, x)
           v == [old EXCEPT !.body = body]
<1>1. TypeOK /\ AtHome
  BY DEF IInv
<1>2. old \in [owner : Uids \cup {NoOwner}, body : BodiesOf(k.kind)] /\ HasHome(k, old)
  <2>1. old \in VersionsOf(k.kind) /\ old # Absent
    BY <1>1, VersionsTyped DEF UserEdits
  <2>2. HasHome(k, old)
    BY <1>1, VersionsTyped DEF AtHome
  <2> QED
    BY <2>1, <2>2 DEF VersionsOf
<1>3. /\ body \in BodiesOf(k.kind)
      /\ k.kind = "JenkinsInstance" => body.uid = old.body.uid
  BY <1>2, EditedTyped
<1>4. v \in [owner : Uids \cup {NoOwner}, body : BodiesOf(k.kind)] /\ v.body = body
  BY <1>2, <1>3
<1>5. v \in VersionsOf(k.kind) /\ HasHome(k, v)
  BY <1>2, <1>3, <1>4 DEF VersionsOf, HasHome, UserEdits
<1>6. Appended
  BY <1>1, <1>5, PutAppends DEF UserEdits, Appended
<1> QED
  BY <1>1, <1>6, EditsTyped, ClusterStepKeeps DEF UserEdits, TypeOK

LEMMA AbsentTyped ==
    ASSUME NEW k
    PROVE  Absent \in VersionsOf(k.kind) /\ HasHome(k, Absent)
BY DEF VersionsOf, HasHome

LEMMA RemovalsKeep ==
    ASSUME IInv, NEW k \in Keys, UserDeletes(k) \/ Collect(k)
    PROVE  IInv'
<1>1. TypeOK
  BY DEF IInv
<1>2. Appended
  BY <1>1, AbsentTyped, PutAppends DEF UserDeletes, Collect, Appended
<1>3. edits' \in 0..MaxEdits
  BY <1>1, EditsTyped DEF UserDeletes, Collect, TypeOK
<1> QED
  BY <1>1, <1>2, <1>3, ClusterStepKeeps DEF UserDeletes, Collect, TypeOK

LEMMA PodsKeep ==
    ASSUME IInv, NEW k \in Keys, JenkinsStarts(k) \/ JenkinsLost(k)
    PROVE  IInv'
<1>1. TypeOK
  BY DEF IInv
<1>2. Current(k) \in VersionsOf(k.kind) /\ Current(k) # Absent /\ k.kind = "Deployment"
  BY <1>1, VersionsTyped DEF JenkinsStarts, JenkinsLost
<1>3. Appended
  BY <1>1, <1>2, PutAppends DEF JenkinsStarts, JenkinsLost, Appended, HasHome
<1>4. faults' \in 0..MaxFaults
  BY <1>1, FaultsTyped DEF JenkinsStarts, JenkinsLost
<1>5. Current(k).owner \in Uids \cup {NoOwner}
  BY <1>2 DEF VersionsOf
<1>6. CASE JenkinsStarts(k)
  BY <1>1, <1>3, <1>4, <1>5, <1>6, ClusterStepKeeps DEF JenkinsStarts, TypeOK
<1>7. CASE JenkinsLost(k)
  BY <1>1, <1>3, <1>4, <1>7, ClusterStepKeeps DEF JenkinsLost, TypeOK
<1> QED
  BY <1>6, <1>7

LEMMA JenkinsStopsKeeps ==
    ASSUME IInv, NEW u, JenkinsStops(u)
    PROVE  IInv'
<1>1. TypeOK /\ Appended
  BY DEF IInv, JenkinsStops, Appended
<1> QED
  BY <1>1, ClusterStepKeeps DEF JenkinsStops, TypeOK

-----------------------------------------------------------------------------
(* The invariant.                                                           *)

LEMMA InitHolds == Init => IInv
<1> SUFFICES ASSUME Init
             PROVE  IInv
  OBVIOUS
<1>1. ASSUME NEW k \in Keys
      PROVE  \E v \in VersionsOf(k.kind) : log[k] = <<v>> /\ HasHome(k, v)
  <2>1. CASE k \in DOMAIN Initial
    <3> DEFINE v == Object(NoOwner, Submitted(k, Initial[k], 1))
    <3>1. Submitted(k, Initial[k], 1) \in BodiesOf(k.kind)
      BY <2>1, InputsAssumption DEF InputsAssumption
    <3>2. v \in VersionsOf(k.kind) /\ HasHome(k, v)
      BY <3>1, SubmittedTyped DEF Object, VersionsOf, HasHome
    <3> QED
      BY <2>1, <3>2 DEF Init
  <2>2. CASE k \notin DOMAIN Initial
    BY <2>2, AbsentTyped DEF Init
  <2> QED
    BY <2>1, <2>2
<1>2. \A k \in Keys : /\ log[k] \in Seq(VersionsOf(k.kind)) \ {<<>>}
                      /\ Version(k) = 1
                      /\ \A i \in 1..Version(k) : HasHome(k, log[k][i])
  <2> SUFFICES ASSUME NEW k \in Keys
               PROVE  /\ log[k] \in Seq(VersionsOf(k.kind)) \ {<<>>}
                      /\ Len(log[k]) = 1
                      /\ \A i \in 1..Len(log[k]) : HasHome(k, log[k][i])
    BY DEF Version
  <2>1. PICK v \in VersionsOf(k.kind) : log[k] = <<v>> /\ HasHome(k, v)
    BY <1>1
  <2>2. <<v>> \in Seq(VersionsOf(k.kind)) \ {<<>>} /\ Len(<<v>>) = 1 /\ <<v>>[1] = v
    OBVIOUS
  <2> QED
    BY <2>1, <2>2
<1>3. AtHome
  BY <1>2 DEF AtHome
<1>4. InReconcile
  BY DEF Init, InReconcile, Held, Resting, Holding
<1>5. TypeOK
  <2>1. log = [k \in Keys |-> log[k]]
    BY DEF Init
  <2>2. worker \in [Operators -> WorkerType]
    BY DEF Init, Resting, Steps, WorkerType
  <2>3. edits \in 0..MaxEdits /\ faults \in 0..MaxFaults
    BY InputsAssumption DEF Init, InputsAssumption
  <2>4. /\ seen \in [Operators -> [Keys -> Nat \ {0}]]
        /\ \A o \in Operators, k \in Keys : seen[o][k] <= Version(k)
    <3>1. \A o \in Operators, k \in Keys : seen[o][k] = 1
      BY DEF Init
    <3>2. seen \in [Operators -> [Keys -> Nat \ {0}]]
      BY DEF Init
    <3> QED
      BY <1>2, <3>1, <3>2
  <2>5. \A o \in Operators : worker[o].at \notin Holding
    BY DEF Init, Resting, Holding
  <2> QED
    BY <1>2, <2>1, <2>2, <2>3, <2>4, <2>5 DEF Init, TypeOK, WorkerType
<1> QED
  BY <1>3, <1>4, <1>5 DEF IInv

LEMMA NextKeeps == IInv /\ [Next]_vars => IInv'
<1> SUFFICES ASSUME IInv, [Next]_vars
             PROVE  IInv'
  OBVIOUS
<1>1. CASE \E o \in Operators : Operator(o)
  BY <1>1, OperatorKeeps
<1>2. CASE User
  BY <1>2, UserCreatesKeeps, UserEditsKeeps, RemovalsKeep DEF User
<1>3. CASE Cluster
  BY <1>3, RemovalsKeep, PodsKeep, JenkinsStopsKeeps DEF Cluster
<1>4. CASE UNCHANGED vars
  <2>1. /\ UNCHANGED operatorState /\ Appended
    BY <1>4 DEF vars, world, operatorState, Appended
  <2> QED
    BY <1>4, <2>1, ClusterStepKeeps DEF vars, IInv, TypeOK
<1> QED
  BY <1>1, <1>2, <1>3, <1>4 DEF Next

LEMMA Invariance == Spec => []IInv
BY InitHolds, NextKeeps, PTL DEF Spec

(* Every variable has its type, whatever the replicas, objects, specs,      *)
(* edits and faults: a cache only shows versions there have been, an        *)
(* instance held across a step is one the API server has held for the       *)
(* request at work, and what is written is of the kind of its key.          *)
THEOREM TypeCorrect == Spec => []TypeOK
<1>1. IInv => TypeOK
  BY DEF IInv
<1> QED
  BY <1>1, Invariance, PTL

-----------------------------------------------------------------------------
(* What the operator may write.                                             *)

(* A step that moves a replica's worker and the versions of a key appended  *)
(* one version, and wrote it well.                                          *)
LEMMA OperatorWrites ==
    ASSUME IInv, [Next]_vars, NEW o \in Operators, NEW k \in Keys,
           worker'[o] # worker[o], log'[k] # log[k]
    PROVE  \E v : log'[k] = Append(log[k], v) /\ WritesWell(o, k, v)
<1>1. worker \in [Operators -> WorkerType] /\ log = [j \in Keys |-> log[j]]
  BY DEF IInv, TypeOK, WorkerType
<1>2. PICK p \in Operators : Operator(p)
  BY DEF Next, User, UserCreates, UserEdits, UserDeletes, Cluster, Collect, JenkinsStarts,
         JenkinsStops, JenkinsLost, operatorState, vars
<1>3. Reconcile(p)
  BY <1>2 DEF Operator, Deliver, Relist, Observe, Crash, Start, NoCall
<1>4. LogStep(p) /\ WorkerStep(p)
  BY <1>3, ReconcileSteps DEF ReconcileStep
<1>5. p = o
  BY <1>1, <1>4 DEF WorkerStep
<1>6. PICK j \in Keys : \E v : Appends(j, v) /\ WritesWell(o, j, v)
  BY <1>4, <1>5 DEF LogStep
<1>7. PICK v : Appends(j, v) /\ WritesWell(o, j, v)
  BY <1>6
<1>8. j = k /\ log'[k] = Append(log[k], v)
  BY <1>1, <1>7 DEF Appends
<1> QED
  BY <1>7, <1>8

LEMMA LastOfAppend ==
    ASSUME IInv, NEW k \in Keys, NEW v
    PROVE  Append(log[k], v)[Len(Append(log[k], v))] = v
<1>1. log[k] \in Seq(VersionsOf(k.kind))
  BY DEF IInv, TypeOK
<1>2. log[k] \in Seq(VersionsOf(k.kind) \cup {v})
  BY <1>1
<1> QED
  BY <1>2

(* An operator step never touches an object of a user, of another instance  *)
(* or of another incarnation of the same instance, however stale its cache  *)
(* is and however many replicas run.                                        *)
THEOREM OwnObjectsOnly == Spec => OnlyOwnObjectsChange
<1> DEFINE A == \A o \in Operators, k \in Keys :
                   worker'[o] # worker[o] /\ log'[k] # log[k] => WritesOwn(o, k)
<1>1. ASSUME IInv, [Next]_vars
      PROVE  A
  <2> SUFFICES ASSUME NEW o \in Operators, NEW k \in Keys,
                      worker'[o] # worker[o], log'[k] # log[k]
               PROVE  WritesOwn(o, k)
    OBVIOUS
  <2>1. PICK v : log'[k] = Append(log[k], v) /\ WritesWell(o, k, v)
    BY <1>1, OperatorWrites
  <2>2. log'[k][Len(log'[k])] = v
    BY <1>1, <2>1, LastOfAppend
  <2>3. worker[o].req # Nil
    BY <2>1, SentinelsAssumption DEF WritesWell, SentinelsAssumption
  <2> QED
    BY <2>1, <2>2, <2>3 DEF WritesWell, MineNow, WritesOwn
<1>2. IInv /\ [Next]_vars => [A]_vars
  BY <1>1
<1> HIDE DEF A
<1>3. Spec => [][A]_vars
  BY <1>2, Invariance, PTL DEF Spec
<1> QED
  BY <1>3 DEF OnlyOwnObjectsChange, A

(* No write of the operator loses what users put into a ConfigMap, or       *)
(* changes the spec or the identity of an instance, whoever writes at the   *)
(* same time.                                                               *)
THEOREM UserDataKept == Spec => UserDataSurvives
<1> DEFINE B == \A o \in Operators, k \in Keys :
          worker'[o] # worker[o] /\ log'[k] # log[k] /\ Current(k) # Absent =>
             LET old == Current(k).body
                 new == log'[k][Len(log'[k])].body
             IN  /\ k.kind = "ConfigMap" =>
                       \A f \in DOMAIN old : f \in DOMAIN new /\ new[f] = old[f]
                 /\ k.kind = "JenkinsInstance" => new.spec = old.spec /\ new.uid = old.uid
<1>1. ASSUME IInv, [Next]_vars
      PROVE  B
  <2> SUFFICES ASSUME NEW o \in Operators, NEW k \in Keys,
                      worker'[o] # worker[o], log'[k] # log[k], Current(k) # Absent
               PROVE  LET old == Current(k).body
                          new == log'[k][Len(log'[k])].body
                      IN  /\ k.kind = "ConfigMap" =>
                                \A f \in DOMAIN old : f \in DOMAIN new /\ new[f] = old[f]
                          /\ k.kind = "JenkinsInstance" =>
                                new.spec = old.spec /\ new.uid = old.uid
    OBVIOUS
  <2>1. PICK v : log'[k] = Append(log[k], v) /\ WritesWell(o, k, v)
    BY <1>1, OperatorWrites
  <2>2. log'[k][Len(log'[k])] = v
    BY <1>1, <2>1, LastOfAppend
  <2> QED
    BY <2>1, <2>2 DEF WritesWell, Kept, Extends
<1>2. IInv /\ [Next]_vars => [B]_vars
  BY <1>1
<1> HIDE DEF B
<1>3. Spec => [][B]_vars
  BY <1>2, Invariance, PTL DEF Spec
<1> QED
  BY <1>3 DEF UserDataSurvives, B

(* Every plugins.txt the operator writes lists the required plugins first   *)
(* and names no plugin twice; a setup ConfigMap it changes never lacks one. *)
THEOREM PluginsListedOnce == Spec => PluginsOnce
<1> DEFINE C == \A o \in Operators, k \in Keys :
          worker'[o] # worker[o] /\ log'[k] # log[k] /\ k.kind = "ConfigMap" =>
             LET old == IF Current(k) = Absent THEN {} ELSE DOMAIN Current(k).body
                 new == log'[k][Len(log'[k])].body
             IN  /\ "plugins.txt" \in DOMAIN new
                 /\ "plugins.txt" \notin old => WellListed(new["plugins.txt"])
<1>1. ASSUME IInv, [Next]_vars
      PROVE  C
  <2> SUFFICES ASSUME NEW o \in Operators, NEW k \in Keys,
                      worker'[o] # worker[o], log'[k] # log[k], k.kind = "ConfigMap"
               PROVE  Lists(FilesAt(k), log'[k][Len(log'[k])].body)
    BY DEF Lists, FilesAt
  <2>1. PICK v : log'[k] = Append(log[k], v) /\ WritesWell(o, k, v)
    BY <1>1, OperatorWrites
  <2>2. log'[k][Len(log'[k])] = v
    BY <1>1, <2>1, LastOfAppend
  <2> QED
    BY <2>1, <2>2 DEF WritesWell
<1>2. IInv /\ [Next]_vars => [C]_vars
  BY <1>1
<1> HIDE DEF C
<1>3. Spec => [][C]_vars
  BY <1>2, Invariance, PTL DEF Spec
<1> QED
  BY <1>3 DEF PluginsOnce, C
=============================================================================
