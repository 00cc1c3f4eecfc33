-------------------------- MODULE Convergence_proofs --------------------------
(***************************************************************************)
(* Reconcile is level-based: when nothing is left to do, every instance is *)
(* complete.                                                               *)
(*                                                                         *)
(* The reason is a promise each replica keeps at all times about the       *)
(* instance its cache shows: a request for it is queued, or what the steps *)
(* taken so far for the request have seen to is either still there or its  *)
(* loss is an event on the way to the replica, which will queue a request. *)
(* Ahead is what the replica has seen last of a key together with all that *)
(* is on its way.  The setup ConfigMap brings no event when it goes, so    *)
(* the promise about it is that it does not go.                            *)
(***************************************************************************)
EXTENDS ReadyServed_proofs

(* A claim is a user's, who keeps it, or that of an instance that may make  *)
(* it.                                                                      *)
MadeFor(k, u) == IF u = NoOwner THEN k \notin Deletable
                 ELSE \E j \in InstanceKeys : MayMake(j, k) /\ NamedAs(u, j)
ClaimsMade ==
    \A k \in Keys : \A i \in 1..Version(k) :
       k.kind = "PersistentVolumeClaim" /\ log[k][i] # Absent => MadeFor(k, log[k][i].owner)

(* What users do not delete stays as long as its owner lives, and a         *)
(* ConfigMap keeps its files.                                               *)
Files(v) == DOMAIN v.body
LastsAs(k, v, w) == /\ w # Absent /\ w.owner = v.owner
                    /\ k.kind = "ConfigMap" => Files(v) \subseteq Files(w)
Lasting ==
    \A k \in Keys \ (Deletable \cup InstanceKeys) : \A i \in 1..Version(k) :
       log[k][i] # Absent /\ log[k][i].owner \in Live \cup {NoOwner} =>
          LastsAs(k, log[k][i], Current(k))

(* An owner lives in the namespace of what it owns.                         *)
OwnersNear ==
    \A k \in Keys : \A i \in 1..Version(k) :
       log[k][i] # Absent /\ log[k][i].owner # NoOwner => log[k][i].owner.ns = k.ns

PInv == OInv /\ OwnersNear /\ ClaimsMade /\ Lasting

-----------------------------------------------------------------------------
(* What lasts.                                                              *)

LEMMA LiveDef ==
    ASSUME NEW u
    PROVE  u \in Live <=> \E k \in InstanceKeys : Current(k) # Absent /\ u = Current(k).body.uid
BY DEF Live

(* An incarnation that is gone does not come back.                          *)
LEMMA LiveBefore ==
    ASSUME RInv, [Next]_vars, NEW u \in Born, u \in Live'
    PROVE  u \in Live
<1>1. IInv
  BY DEF RInv
<1>2. PICK k \in InstanceKeys : Current(k)' # Absent /\ u = Current(k)'.body.uid
  BY DEF Live
<1>3. CASE Current(k)' = Current(k)
  BY <1>2, <1>3, LiveDef
<1>4. CASE log' = log
  BY <1>3, <1>4 DEF Current, Version
<1>5. ASSUME NEW j \in Keys, NEW v, Change(j, v)
      PROVE  u \in Live
  <2>1. CASE j # k
    BY <1>1, <1>3, <1>5, <2>1, CurrentChanges DEF InstanceKeys
  <2>2. CASE j = k
    <3>1. Current(k)' = v
      BY <1>1, <1>5, <2>2, CurrentChanges
    <3>2. ~Made(k, v)
      BY <1>2, <1>5, <2>2, <3>1, MadeFresh
    <3>3. Changed(k, v)
      BY <1>2, <1>5, <2>2, <3>1, <3>2 DEF Change, Provided, Removed
    <3> QED
      BY <1>2, <3>1, <3>3, LiveDef DEF Changed
  <2> QED
    BY <2>1, <2>2
<1> QED
  BY <1>4, <1>5, EveryChange

(* Who changes a ConfigMap keeps its files.                                 *)
LEMMA FilesStay ==
    ASSUME RInv, [Next]_vars, NEW k \in Keys, k.kind = "ConfigMap",
           NEW v, Change(k, v), Current(k) # Absent, v # Absent
    PROVE  Files(Current(k)) \subseteq Files(v)
<1>1. IInv /\ TypeOK
  BY DEF RInv, IInv
<1>2. log'[k] = Append(log[k], v) /\ log'[k] # log[k] /\ Current(k)' = v
  <2>1. Version(k)' = Version(k) + 1 /\ Version(k) \in Nat
        /\ log'[k] = Append(log[k], v) /\ Current(k)' = v
    BY <1>1, CurrentChanges, CurrentTyped
  <2> QED
    BY <2>1 DEF Version
<1>3. ASSUME NEW w, Append(log[k], w) = log'[k]
      PROVE  w = v
  <2>1. Append(log[k], w)[Len(Append(log[k], w))] = w
        /\ Append(log[k], v)[Len(Append(log[k], v))] = v
    BY <1>1, LastOfAppend
  <2> QED
    BY <1>2, <1>3, <2>1
<1>4. ASSUME NEW j \in Keys, NEW w, Put(j, w)
      PROVE  j = k /\ w = v
  <2>1. j = k
    BY <1>1, <1>2, <1>4, PutOthers
  <2>2. log'[k] = Append(log[k], w)
    BY <1>1, <1>4, <2>1, PutAppends DEF TypeOK, Appends
  <2> QED
    BY <1>3, <2>1, <2>2
<1>5. ASSUME NEW o \in Operators, Operator(o)
      PROVE  Files(Current(k)) \subseteq Files(v)
  <2>1. Reconcile(o)
    BY <1>2, <1>5 DEF Operator, Deliver, Relist, Observe, Crash, Start, NoCall
  <2>2. PICK j \in Keys : \E w : Appends(j, w) /\ WritesWell(o, j, w)
    BY <1>1, <1>2, <2>1, ReconcileSteps DEF ReconcileStep, LogStep
  <2>3. PICK w : Appends(j, w) /\ WritesWell(o, j, w)
    BY <2>2
  <2>4. j = k /\ log'[k] = Append(log[k], w)
    <3>1. log = [i \in Keys |-> log[i]] /\ log' = [log EXCEPT ![j] = Append(@, w)]
      BY <1>1, <2>3 DEF Appends, TypeOK
    <3> QED
      BY <1>2, <3>1
  <2>5. WritesWell(o, k, v)
    BY <1>3, <2>3, <2>4
  <2> QED
    BY <2>5 DEF WritesWell, Kept, Extends, Files
<1>6. ASSUME User
      PROVE  Files(Current(k)) \subseteq Files(v)
  <2>1. PICK j \in Keys : \/ \E x \in Offered[j] : UserCreates(j, x) \/ UserEdits(j, x)
                          \/ j \in Deletable /\ UserDeletes(j)
    BY <1>6 DEF User
  <2>2. j = k
    <3>1. \E w : Put(j, w)
      BY <2>1 DEF UserCreates, UserEdits, UserDeletes
    <3> QED
      BY <1>4, <3>1
  <2>3. ~UserDeletes(k) /\ \A x : ~UserCreates(k, x)
    BY <1>4 DEF UserDeletes, UserCreates
  <2>4. PICK x \in Offered[k] : UserEdits(k, x)
    BY <2>1, <2>2, <2>3
  <2> DEFINE old == Current(k)
             new == MergeData(old.body, x)
  <2>5. v = [old EXCEPT !.body = new]
    <3>1. Edited(k, old.body, x) = new
      BY DEF Edited
    <3>2. Put(k, [old EXCEPT !.body = Edited(k, @, x)])
      BY <2>4 DEF UserEdits
    <3>3. [old EXCEPT !.body = Edited(k, @, x)] = [old EXCEPT !.body = new]
      BY <3>1
    <3> QED
      BY <1>4, <3>2, <3>3
  <2>6. old \in [owner : Uids \cup {NoOwner}, body : BodiesOf(k.kind)]
    BY <1>1, CurrentTyped
  <2>7. v.body = new
    BY <2>5, <2>6
  <2>8. DOMAIN new = DOMAIN old.body \cup DOMAIN x
    BY DEF MergeData
  <2> QED
    BY <2>7, <2>8 DEF Files
<1>7. ASSUME Cluster
      PROVE  Files(Current(k)) \subseteq Files(v)
  <2>1. PICK j \in Keys : Collect(j) \/ JenkinsStarts(j) \/ JenkinsLost(j)
    BY <1>2, <1>7 DEF Cluster, JenkinsStops
  <2>2. j = k /\ (v = Absent \/ v = Current(k))
    <3>1. Put(j, Absent) \/ Put(j, Current(j))
      BY <2>1 DEF Collect, JenkinsStarts, JenkinsLost
    <3> QED
      BY <1>4, <3>1
  <2> QED
    BY <2>2
<1> QED
  BY <1>2, <1>5, <1>6, <1>7 DEF Next, vars

LEMMA LastingKept ==
    ASSUME OInv, Lasting, [Next]_vars
    PROVE  Lasting'
<1>1. RInv /\ IInv /\ OwnersBorn
  BY DEF OInv, RInv
<1>2. ASSUME NEW k \in Keys \ (Deletable \cup InstanceKeys), NEW i \in 1..Version(k),
             log[k][i] # Absent, log[k][i].owner \in Live' \cup {NoOwner}
      PROVE  LastsAs(k, log[k][i], Current(k)) /\ log[k][i].owner \in Live \cup {NoOwner}
  BY <1>1, <1>2, LiveBefore DEF Lasting, OwnersBorn
<1>3. CASE log' = log
  <2>1. \A k : Version(k)' = Version(k) /\ Current(k)' = Current(k)
    BY <1>3 DEF Current, Version
  <2> QED
    BY <1>2, <1>3, <2>1 DEF Lasting
<1>4. ASSUME NEW j \in Keys, NEW v, Change(j, v)
      PROVE  Lasting'
  <2> SUFFICES ASSUME NEW k \in Keys \ (Deletable \cup InstanceKeys), NEW i \in 1..Version(k)',
                      log'[k][i] # Absent, log'[k][i].owner \in Live' \cup {NoOwner}
               PROVE  LastsAs(k, log'[k][i], Current(k)')
    BY DEF Lasting, LastsAs, InstanceKeys
  <2>1. CASE i \notin 1..Version(k)
    <3>1. log'[k][i] = v /\ j = k
      BY <1>1, <1>4, <2>1, VersionAfter
    <3>2. Current(k)' = v
      BY <1>1, <1>4, <3>1, CurrentChanges
    <3> QED
      BY <3>1, <3>2 DEF LastsAs
  <2>2. CASE i \in 1..Version(k)
    <3>1. log'[k][i] = log[k][i]
      BY <1>1, <1>4, <2>2, CurrentChanges
    <3>2. LastsAs(k, log[k][i], Current(k)) /\ log[k][i].owner \in Live \cup {NoOwner}
      BY <1>2, <2>2, <3>1
    <3>3. CASE j # k
      BY <1>1, <1>4, <3>1, <3>2, <3>3, CurrentChanges
    <3>4. CASE j = k
      <4>1. Current(k)' = v
        BY <1>1, <1>4, <3>4, CurrentChanges
      <4>2. Changed(k, v)
        BY <1>4, <3>2, <3>4 DEF Change, Made, Provided, Removed, Garbage, LastsAs
      <4>3. k.kind = "ConfigMap" => Files(Current(k)) \subseteq Files(v)
        BY <1>1, <1>4, <3>4, <4>2, FilesStay DEF Changed
      <4> QED
        BY <3>1, <3>2, <4>1, <4>2, <4>3 DEF Changed, LastsAs
    <3> QED
      BY <3>3, <3>4
  <2> QED
    BY <2>1, <2>2
<1> QED
  BY <1>1, <1>3, <1>4, EveryChange

LEMMA OwnersNearKept ==
    ASSUME RInv, OwnersNear, [Next]_vars
    PROVE  OwnersNear'
<1>1. CASE log' = log
  BY <1>1 DEF OwnersNear, Version
<1>2. ASSUME NEW k \in Keys, NEW v, Change(k, v)
      PROVE  OwnersNear'
  <2>1. IInv
    BY DEF RInv
  <2>2. v # Absent /\ v.owner # NoOwner => v.owner.ns = k.ns
    BY <1>2, <2>1, CurrentVersion DEF Change, Made, Provided, Changed, Removed, OwnersNear
  <2> QED
    BY <1>2, <2>1, <2>2, VersionAfter DEF OwnersNear
<1> QED
  BY <1>1, <1>2, EveryChange

LEMMA ClaimOfInstance ==
    ASSUME NEW k \in InstanceKeys, NEW ji \in Instances, NamedAs(ji.uid, k)
    PROVE  ClaimKey(ji) = ClaimOf(k, ji.spec)
<1> DEFINE new == [uid |-> [ns |-> k.ns, name |-> k.name, gen |-> 1],
                   spec |-> ji.spec, phase |-> ""]
<1>1. Submitted(k, ji.spec, 1) = new
  BY DEF Submitted, InstanceKeys
<1>2. new.uid.ns = k.ns /\ new.uid.name = k.name /\ new.spec = ji.spec
  OBVIOUS
<1> HIDE DEF new
<1> QED
  BY <1>1, <1>2 DEF ClaimOf, ClaimKey, ClaimName, NamedAs

(* A claim the operator makes is made for an instance that may.             *)
LEMMA ClaimMade ==
    ASSUME IInv, NEW o \in Operators, NewDeployment(o),
           NEW k \in Keys, NEW v, Change(k, v)
    PROVE  \E j \in InstanceKeys : MayMake(j, k) /\ NamedAs(v.owner, j)
<1> DEFINE ji == ReadInstance(o).body
           key == InstanceKey(worker[o].req)
           made == Object(ji.uid, Nil)
<1>1. ReadInstance(o) # Absent
  BY DEF NewDeployment, Reading
<1>2. ji \in Instances /\ key \in InstanceKeys /\ NamedAs(ji.uid, key)
  BY <1>1, ReadNamed
<1>3. ClaimKey(ji) = ClaimOf(key, ji.spec) /\ ji.spec \in Specs
  BY <1>2, ClaimOfInstance, SpecTyped
<1>4. log'[k] = Append(log[k], v) /\ log'[k] # log[k]
  <2>1. Version(k)' = Version(k) + 1 /\ Version(k) \in Nat /\ log'[k] = Append(log[k], v)
    BY CurrentChanges, CurrentTyped
  <2> QED
    BY <2>1 DEF Version
<1>5. Put(ClaimKey(ji), made) /\ ji.spec.storage # Nil /\ ji.spec.storage.create
  <2>1. log' # log
    BY <1>4
  <2> QED
    BY <2>1 DEF NewDeployment, Create, Write, Fail, NoCall
<1>6. k = ClaimKey(ji)
  BY <1>4, <1>5, PutOthers
<1>7. made = v
  <2>1. log'[k] = Append(log[k], made)
    BY <1>5, <1>6, PutAppends DEF IInv, TypeOK, Appends
  <2>2. Append(log[k], made)[Len(Append(log[k], made))] = made
        /\ Append(log[k], v)[Len(Append(log[k], v))] = v
    BY LastOfAppend
  <2> QED
    BY <1>4, <2>1, <2>2
<1>8. MayMake(key, k)
  BY <1>3, <1>5, <1>6 DEF MayMake
<1>9. v.owner = ji.uid
  BY <1>7 DEF Object
<1> QED
  BY <1>2, <1>8, <1>9

LEMMA ClaimsMadeKept ==
    ASSUME Attended, OInv, ClaimsMade, [Next]_vars
    PROVE  ClaimsMade'
<1>1. RInv /\ IInv
  BY DEF OInv, RInv
<1>2. CASE log' = log
  BY <1>2 DEF ClaimsMade, Version
<1>3. ASSUME NEW k \in Keys, NEW v, Change(k, v)
      PROVE  ClaimsMade'
  <2>1. k.kind = "PersistentVolumeClaim" /\ v # Absent => MadeFor(k, v.owner)
    <3> SUFFICES ASSUME k.kind = "PersistentVolumeClaim", v # Absent
                 PROVE  MadeFor(k, v.owner)
      OBVIOUS
    <3>1. CASE Changed(k, v)
      BY <1>1, <3>1, CurrentVersion DEF Changed, ClaimsMade
    <3>2. CASE Provided(k, v)
      <4>1. v.owner # NoOwner
        BY <1>1, <3>2, BornTyped, SentinelsAssumption DEF SentinelsAssumption, Provided
      <4>2. PICK o \in Operators : Reconcile(o) /\ log'[k] # log[k]
        BY <1>1, <1>3, <3>2, <4>1, MadeByReconcile DEF Provided
      <4>3. NewDeployment(o)
        BY <1>1, <4>2, Writers
      <4> QED
        BY <1>1, <1>3, <4>1, <4>3, ClaimMade DEF MadeFor
    <3>3. CASE Made(k, v)
      BY <3>3 DEF Attended, Made, MadeFor
    <3> QED
      BY <1>3, <3>1, <3>2, <3>3 DEF Change, Removed
  <2> SUFFICES ASSUME NEW j \in Keys, NEW i \in 1..Version(j)',
                      j.kind = "PersistentVolumeClaim", log'[j][i] # Absent
               PROVE  MadeFor(j, log'[j][i].owner)
    BY DEF ClaimsMade, MadeFor, MayMake, NamedAs, InstanceKeys
  <2> QED
    BY <1>1, <1>3, <2>1, VersionAfter DEF ClaimsMade
<1> QED
  BY <1>1, <1>2, <1>3, EveryChange

-----------------------------------------------------------------------------
(* The promise.                                                             *)

Ahead(o, k) == {log[k][i] : i \in seen[o][k]..Version(k)} \ {Absent}

SetUp(ji) == /\ Owns(ji, SetupKey(ji))
             /\ DOMAIN SetupStringData(ji) \subseteq Files(Current(SetupKey(ji)))
Claimed(o, ji) == ji.spec.storage # Nil => Ahead(o, ClaimKey(ji)) # {}
Deployed(o, ji) == \E v \in Ahead(o, DeploymentKey(ji)) : v.owner = ji.uid
Suits(v, ji) == /\ v.owner = ji.uid
                /\ ji.spec.service # Nil => ji.spec.service.type \in {"", v.body.type}
Exposed(o, ji) == \E v \in Ahead(o, ServiceKey(ji)) : Suits(v, ji)
Said(o, k) == \E v \in Ahead(o, k) : v.body.phase = "Ready"

(* An event on the way to replica o about a Deployment or a Service names   *)
(* owner u; so a Jenkins once found to answer still runs, or its instance   *)
(* will be looked at again.                                                 *)
Telling(o, j, u) ==
    /\ j.kind \in {"Deployment", "Service"} /\ j.ns = u.ns
    /\ \E n \in 1..Version(j) : /\ seen[o][j] <= n /\ n < Version(j)
                                /\ \E v \in {log[j][n], log[j][n + 1]} : v # Absent /\ v.owner = u
Told(o, u) == \E j \in Keys : Telling(o, j, u)
Running(o, ji) == ji.uid \in up \/ Told(o, ji.uid)

(* What has been seen to for instance ji of key k when a worker with locals *)
(* w is at step `at` of a request for it; at "idle", all of it.             *)
Past(o, k, ji, w, at) ==
    /\ at # "setup" => SetUp(ji)
    /\ at \in {"template", "service", "expose", "check", "status", "idle"} => Claimed(o, ji)
    /\ at = "template" /\ w.found => Deployed(o, ji)
    /\ at \in {"template", "expose"} => w.ji = ji
    /\ at \in {"service", "expose", "check", "status", "idle"} => Deployed(o, ji)
    /\ at = "check" => Exposed(o, ji) \/ Cached(o, ServiceKey(ji)) = Absent
    /\ at \in {"status", "idle"} => Exposed(o, ji) /\ Running(o, ji)
    /\ at = "idle" => Said(o, k)

(* Where a worker is with the request for the instance of key k.            *)
Place(w, k) == IF w.req = RequestFor(k) THEN w.at ELSE "idle"

(* Of which instances the promise is made: those a running replica sees and *)
(* handles, unless they are gone without its knowing.                       *)
Minds(o, k) ==
    /\ worker[o].at # "down" /\ InScope(k.ns)
    /\ Cached(o, k) # Absent
    /\ Cached(o, k).body.spec.adminSecret # ""
    /\ Cached(o, k).body.uid \in Live

Tended ==
    \A o \in Operators, k \in InstanceKeys :
       Minds(o, k) => \/ RequestFor(k) \in queue[o]
                      \/ Past(o, k, Cached(o, k).body, worker[o], Place(worker[o], k))

CInv == PInv /\ Tended

-----------------------------------------------------------------------------
(* Keys, caches and what is ahead.                                          *)

LEMMA Sees ==
    ASSUME IInv, NEW o \in Operators, NEW k \in InstanceKeys, Cached(o, k) # Absent
    PROVE  /\ Cached(o, k).body \in Instances /\ NamedAs(Cached(o, k).body.uid, k)
           /\ Cached(o, k).body.uid \in Born
           /\ k \in Keys /\ seen[o][k] \in 1..Version(k) /\ Cached(o, k) = log[k][seen[o][k]]
<1>1. /\ k \in Keys /\ k.kind = "JenkinsInstance"
      /\ seen[o][k] \in 1..Version(k) /\ Cached(o, k) = log[k][seen[o][k]]
      /\ Cached(o, k) \in VersionsOf(k.kind)
  BY CachedTyped DEF InstanceKeys, IInv
<1>2. Cached(o, k).body \in Instances
  BY <1>1, Kinds
<1>3. HasHome(k, Cached(o, k))
  BY <1>1 DEF IInv, AtHome
<1>4. Cached(o, k).body.uid \in Born
  BY <1>1, BornDef
<1> QED
  BY <1>1, <1>2, <1>3, <1>4, SpecTyped DEF HasHome, NamedAs

LEMMA RequestKeys ==
    ASSUME NEW k \in InstanceKeys
    PROVE  /\ InstanceKey(RequestFor(k)) = k
           /\ RequestFor(k) \in Requests /\ RequestFor(k) # Nil
           /\ \A u : NamedAs(u, k) => RequestFor(u) = RequestFor(k)
<1>1. k \in [kind : STRING, ns : STRING, name : STRING] /\ k.kind = "JenkinsInstance"
  BY KeysAssumption DEF KeysAssumption, InstanceKeys
<1>2. RequestFor(k) \in Requests
  BY <1>1 DEF RequestFor, Requests
<1> QED
  BY <1>1, <1>2, SentinelsAssumption
     DEF SentinelsAssumption, InstanceKey, RequestFor, Key, NamedAs

(* The keys of what an instance has.                                        *)
LEMMA ChildKeys ==
    ASSUME NEW k \in InstanceKeys, NEW ji \in Instances, NamedAs(ji.uid, k)
    PROVE  /\ SetupKey(ji) = SetupOf(k) /\ SetupKey(ji) \in Keys
           /\ SetupKey(ji).kind = "ConfigMap"
           /\ DeploymentKey(ji) \in Keys /\ DeploymentKey(ji).kind = "Deployment"
           /\ DeploymentKey(ji).ns = k.ns
           /\ ServiceKey(ji) \in Keys /\ ServiceKey(ji).kind = "Service"
           /\ ServiceKey(ji).ns = k.ns
           /\ ClaimKey(ji).kind = "PersistentVolumeClaim" /\ ClaimKey(ji).ns = k.ns
           /\ ji.spec.storage # Nil => ClaimKey(ji) \in Keys /\ MayName(k, ClaimKey(ji))
<1> DEFINE new == [uid |-> [ns |-> k.ns, name |-> k.name, gen |-> 1],
                   spec |-> ji.spec, phase |-> ""]
<1>1. Submitted(k, ji.spec, 1) = new
  BY DEF Submitted, InstanceKeys
<1>2. new.uid.ns = k.ns /\ new.uid.name = k.name /\ new.spec = ji.spec
  OBVIOUS
<1>3. ji.spec \in Specs
  BY SpecTyped
<1>4. /\ {SetupKey(new), DeploymentKey(new), ServiceKey(new)} \subseteq Keys
      /\ ji.spec.storage # Nil => ClaimKey(new) \in Keys
  BY <1>1, <1>3, KeysAssumption DEF KeysAssumption
<1> HIDE DEF new
<1>5. /\ SetupKey(ji) = SetupKey(new) /\ DeploymentKey(ji) = DeploymentKey(new)
      /\ ServiceKey(ji) = ServiceKey(new) /\ ClaimKey(ji) = ClaimKey(new)
  BY <1>2 DEF SetupKey, DeploymentKey, ServiceKey, ClaimKey, ClaimName, NamedAs
<1>6. SetupKey(ji) = SetupOf(k)
  BY DEF SetupKey, SetupOf, NamedAs
<1>7. ji.spec.storage # Nil => MayName(k, ClaimKey(ji))
  BY <1>3, ClaimOfInstance DEF MayName
<1>8. /\ SetupKey(ji).kind = "ConfigMap"
      /\ DeploymentKey(ji).kind = "Deployment" /\ DeploymentKey(ji).ns = k.ns
      /\ ServiceKey(ji).kind = "Service" /\ ServiceKey(ji).ns = k.ns
      /\ ClaimKey(ji).kind = "PersistentVolumeClaim" /\ ClaimKey(ji).ns = k.ns
  BY DEF SetupKey, DeploymentKey, ServiceKey, ClaimKey, Key, NamedAs
<1> QED
  BY <1>4, <1>5, <1>6, <1>7, <1>8

LEMMA CachedAhead ==
    ASSUME IInv, NEW o \in Operators, NEW k \in Keys, Cached(o, k) # Absent
    PROVE  Cached(o, k) \in Ahead(o, k)
<1>1. seen[o][k] \in 1..Version(k) /\ Cached(o, k) = log[k][seen[o][k]]
  BY CachedTyped DEF IInv
<1>2. Version(k) \in Nat
  BY CurrentTyped
<1> QED
  BY <1>1, <1>2 DEF Ahead

LEMMA CurrentAhead ==
    ASSUME IInv, NEW o \in Operators, NEW k \in Keys, Current(k) # Absent
    PROVE  Current(k) \in Ahead(o, k)
<1>1. seen[o][k] \in Nat /\ seen[o][k] <= Version(k) /\ Version(k) \in Nat
  BY CurrentTyped DEF IInv, TypeOK
<1>2. Current(k) = log[k][Version(k)]
  BY CurrentVersion
<1> QED
  BY <1>1, <1>2 DEF Ahead

LEMMA AheadTyped ==
    ASSUME IInv, NEW o \in Operators, NEW k \in Keys, NEW v \in Ahead(o, k)
    PROVE  \E i \in 1..Version(k) : v = log[k][i] /\ v # Absent /\ i >= seen[o][k]
<1>1. seen[o][k] \in Nat \ {0} /\ Version(k) \in Nat
  BY CurrentTyped DEF IInv, TypeOK
<1> QED
  BY <1>1 DEF Ahead

(* As long as a replica hears nothing of a key, what is ahead grows.        *)
LEMMA AheadGrows ==
    ASSUME RInv, [Next]_vars, NEW o \in Operators, NEW k \in Keys, seen'[o][k] = seen[o][k]
    PROVE  Ahead(o, k) \subseteq Ahead(o, k)' /\ Cached(o, k)' = Cached(o, k)
<1>1. IInv
  BY DEF RInv
<1>2. seen[o][k] \in 1..Version(k) /\ Version(k) \in Nat
  BY <1>1, CurrentTyped DEF IInv, TypeOK
<1>3. CASE log' = log
  BY <1>3 DEF Ahead, Cached, Version
<1>4. ASSUME NEW j \in Keys, NEW v, Change(j, v)
      PROVE  Ahead(o, k) \subseteq Ahead(o, k)' /\ Cached(o, k)' = Cached(o, k)
  <2>1. /\ Version(k)' \in Nat /\ Version(k)' >= Version(k)
        /\ \A i \in 1..Version(k) : log'[k][i] = log[k][i]
    BY <1>1, <1>2, <1>4, CurrentChanges
  <2> QED
    BY <1>2, <2>1 DEF Ahead, Cached
<1> QED
  BY <1>3, <1>4, EveryChange

(* What is written is ahead of every replica that does not look up.         *)
LEMMA PutAhead ==
    ASSUME IInv, NEW o \in Operators, NEW k \in Keys, NEW v, v # Absent, Put(k, v), seen' = seen
    PROVE  v \in Ahead(o, k)' /\ Current(k)' = v
<1>1. log'[k] = Append(log[k], v)
  BY PutAppends DEF IInv, TypeOK, Appends
<1>2. Current(k)' = v /\ Version(k)' = Len(log'[k]) /\ log'[k][Len(log'[k])] = v
  BY <1>1, LastOfAppend DEF Current, Version
<1>3. Version(k)' = Version(k) + 1
  BY <1>1, VersionsTyped DEF Version, IInv
<1>4. seen[o][k] \in Nat /\ seen[o][k] <= Version(k) /\ Version(k) \in Nat
  BY CurrentTyped DEF IInv, TypeOK
<1> QED
  BY <1>2, <1>3, <1>4 DEF Ahead

LEMMA SomeAhead ==
    ASSUME IInv, NEW o \in Operators, NEW k \in Keys, NEW v \in Ahead(o, k), v # Current(k)
    PROVE  \E n \in 1..Version(k) : /\ seen[o][k] <= n /\ n < Version(k)
                                   /\ log[k][n] = v /\ v # Absent
<1>1. PICK i \in 1..Version(k) : v = log[k][i] /\ v # Absent /\ i >= seen[o][k]
  BY AheadTyped
<1>2. i # Version(k)
  BY <1>1, CurrentVersion
<1>3. seen[o][k] \in Nat /\ Version(k) \in Nat
  BY CurrentTyped DEF IInv, TypeOK
<1> QED
  BY <1>1, <1>2, <1>3

(* A Jenkins goes down with its Deployment or with an event about it.       *)
LEMMA Downs ==
    ASSUME IInv, [Next]_vars, NEW u \in up, u \notin up'
    PROVE  JenkinsStops(u) \/ \E d \in Keys : JenkinsLost(d) /\ Current(d).owner = u
<1>1. ~User /\ \A d \in Keys : ~Collect(d)
  BY DEF User, UserCreates, UserEdits, UserDeletes, Collect
<1>2. \A d \in Keys : ~JenkinsStarts(d)
  BY DEF JenkinsStarts
<1>3. \A o \in Operators : ~Reconcile(o)
  BY DEF Reconcile, Begin, InstanceGone, NewSetupConfigMap, ReadServiceToRestart, SafeRestart,
         NewDeployment, CreateDeployment, ReadForService, NewService, CheckReady,
         UpdateStatus, world
<1>4. \A o \in Operators : ~Operator(o)
  BY <1>3 DEF Operator, Deliver, Relist, Observe, Crash, Start, world
<1>5. Cluster
  BY <1>1, <1>4 DEF Next, vars
<1>6. ASSUME NEW t \in up, JenkinsStops(t)
      PROVE  t = u
  BY <1>6 DEF JenkinsStops
<1>7. ASSUME NEW d \in Keys, JenkinsLost(d)
      PROVE  Current(d).owner = u
  BY <1>7 DEF JenkinsLost
<1> QED
  BY <1>1, <1>2, <1>5, <1>6, <1>7 DEF Cluster

LEMMA ToldGrows ==
    ASSUME RInv, [Next]_vars, NEW o \in Operators, seen'[o] = seen[o], NEW u, Told(o, u)
    PROVE  Told(o, u)'
<1>1. IInv
  BY DEF RInv
<1>2. PICK j \in Keys : Telling(o, j, u)
  BY DEF Told
<1>3. PICK n \in 1..Version(j) :
         /\ seen[o][j] <= n /\ n < Version(j)
         /\ \E v \in {log[j][n], log[j][n + 1]} : v # Absent /\ v.owner = u
  BY <1>2 DEF Telling
<1>4. n + 1 \in 1..Version(j) /\ Version(j) \in Nat
  BY <1>1, <1>3, CurrentTyped
<1>5. /\ log'[j][n] = log[j][n] /\ log'[j][n + 1] = log[j][n + 1]
      /\ n \in 1..Version(j)' /\ n < Version(j)'
  <2>1. CASE log' = log
    BY <1>3, <2>1 DEF Version
  <2>2. ASSUME NEW i \in Keys, NEW v, Change(i, v)
        PROVE  /\ log'[j][n] = log[j][n] /\ log'[j][n + 1] = log[j][n + 1]
               /\ n \in 1..Version(j)' /\ n < Version(j)'
    BY <1>1, <1>3, <1>4, <2>2, CurrentChanges
  <2> QED
    BY <2>1, <2>2, EveryChange
<1>6. Telling(o, j, u)'
  BY <1>2, <1>3, <1>5 DEF Telling
<1> QED
  BY <1>6 DEF Told

LEMMA RunningStays ==
    ASSUME PInv, [Next]_vars, NEW o \in Operators, seen'[o] = seen[o],
           NEW k \in InstanceKeys, NEW ji \in Instances, NamedAs(ji.uid, k),
           Deployed(o, ji), Running(o, ji)
    PROVE  Running(o, ji)'
<1>1. RInv /\ IInv /\ OwnersNear
  BY DEF PInv, OInv, RInv
<1>2. PICK u : u = ji.uid
  OBVIOUS
<1>3. u \in Uids /\ u # NoOwner
  BY <1>2, SentinelsAssumption DEF SentinelsAssumption, NamedAs
<1> SUFFICES ASSUME u \in up, u \notin up'
             PROVE  Told(o, u)'
  BY <1>1, <1>2, ToldGrows DEF Running
<1>4. CASE JenkinsStops(u)
  <2> DEFINE d == DeploymentKey(ji)
  <2>1. d \in Keys /\ d.kind = "Deployment" /\ d.ns = u.ns
    BY <1>2, ChildKeys DEF NamedAs
  <2>2. ~(Current(d) # Absent /\ Current(d).owner = u)
    BY <1>2, <1>4 DEF JenkinsStops, Owns, IsControlledBy, DeploymentKey
  <2>3. PICK v \in Ahead(o, d) : v.owner = u
    BY <1>2 DEF Deployed
  <2>4. v # Absent
    BY <2>3 DEF Ahead
  <2> HIDE DEF d
  <2>5. \E n \in 1..Version(d) : /\ seen[o][d] <= n /\ n < Version(d)
                                 /\ log[d][n] = v /\ v # Absent
    BY <1>1, <2>1, <2>2, <2>3, <2>4, SomeAhead
  <2>6. Told(o, u)
    BY <2>1, <2>3, <2>5 DEF Telling, Told
  <2> QED
    BY <1>1, <2>6, ToldGrows
<1>5. ASSUME NEW d \in Keys, JenkinsLost(d), Current(d).owner = u
      PROVE  Told(o, u)'
  <2>1. d.kind = "Deployment" /\ Current(d) # Absent /\ Put(d, Current(d))
    BY <1>5 DEF JenkinsLost
  <2>2. Version(d) \in 1..Version(d) /\ Current(d) = log[d][Version(d)]
    BY <1>1, CurrentVersion
  <2>3. d.ns = u.ns
    BY <1>1, <1>3, <1>5, <2>1, <2>2 DEF OwnersNear
  <2>4. log'[d] = Append(log[d], Current(d)) /\ log[d] \in Seq(VersionsOf(d.kind))
    BY <1>1, <2>1, PutAppends DEF IInv, TypeOK, Appends
  <2>5. PICK n : n = Version(d)
    OBVIOUS
  <2>6. n \in Nat /\ n >= 1 /\ seen[o][d] \in Nat /\ seen[o][d] <= n
    BY <1>1, <2>2, <2>5, CurrentTyped DEF IInv, TypeOK
  <2>7. Version(d)' = n + 1 /\ log'[d][n] = Current(d)
    BY <2>2, <2>4, <2>5, <2>6 DEF Version
  <2>8. n \in 1..Version(d)' /\ n < Version(d)' /\ seen'[o][d] <= n
    BY <2>6, <2>7
  <2>9. Telling(o, d, u)'
    <3>1. \E v \in {log'[d][n], log'[d][n + 1]} : v # Absent /\ v.owner = u
      BY <1>5, <2>1, <2>7
    <3> QED
      BY <2>1, <2>3, <2>8, <3>1 DEF Telling
  <2> QED
    BY <2>9 DEF Told
<1> QED
  BY <1>1, <1>4, <1>5, Downs

(* What has been seen to stays so, as long as the replica hears nothing.    *)
LEMMA PartsStay ==
    ASSUME Attended, PInv, Lasting', [Next]_vars, NEW o \in Operators, seen'[o] = seen[o],
           NEW k \in InstanceKeys, NEW ji \in Instances, NamedAs(ji.uid, k), ji.uid \in Live'
    PROVE  /\ SetUp(ji) => SetUp(ji)'
           /\ Claimed(o, ji) => Claimed(o, ji)'
           /\ Deployed(o, ji) => Deployed(o, ji)'
           /\ Exposed(o, ji) => Exposed(o, ji)'
           /\ Said(o, k) => Said(o, k)'
           /\ Deployed(o, ji) /\ Running(o, ji) => Running(o, ji)'
           /\ Cached(o, ServiceKey(ji))' = Cached(o, ServiceKey(ji))
<1>1. RInv /\ IInv
  BY DEF PInv, OInv, RInv
<1>2. k \in Keys
  BY DEF InstanceKeys
<1>3. Claimed(o, ji) => Claimed(o, ji)'
  <2>1. ji.spec.storage # Nil => ClaimKey(ji) \in Keys
    BY ChildKeys
  <2> QED
    BY <1>1, <2>1, AheadGrows DEF Claimed
<1>4. Deployed(o, ji) => Deployed(o, ji)'
  <2>1. DeploymentKey(ji) \in Keys
    BY ChildKeys
  <2> QED
    BY <1>1, <2>1, AheadGrows DEF Deployed
<1>5. ServiceKey(ji) \in Keys
  BY ChildKeys
<1>6. Exposed(o, ji) => Exposed(o, ji)'
  BY <1>1, <1>5, AheadGrows DEF Exposed, Suits
<1>7. Cached(o, ServiceKey(ji))' = Cached(o, ServiceKey(ji))
  BY <1>1, <1>5, AheadGrows
<1>8. Said(o, k) => Said(o, k)'
  BY <1>1, <1>2, AheadGrows DEF Said
<1>9. ASSUME SetUp(ji)
      PROVE  SetUp(ji)'
  <2> DEFINE s == SetupKey(ji)
             v == Current(s)
             n == Version(s)
  <2>1. s \in Keys /\ s.kind = "ConfigMap" /\ s \notin Deletable /\ s \notin InstanceKeys
    BY ChildKeys DEF Attended, InstanceKeys
  <2>2. v # Absent /\ v.owner = ji.uid /\ DOMAIN SetupStringData(ji) \subseteq Files(v)
    BY <1>9 DEF SetUp, Owns, IsControlledBy
  <2>3. n \in 1..n /\ v = log[s][n]
    BY <1>1, <2>1, CurrentVersion
  <2>4. n \in 1..Version(s)' /\ log'[s][n] = v
    <3>1. CASE log' = log
      BY <2>3, <3>1 DEF Version
    <3>2. ASSUME NEW j \in Keys, NEW w, Change(j, w)
          PROVE  n \in 1..Version(s)' /\ log'[s][n] = v
      BY <1>1, <2>1, <2>3, <3>2, CurrentChanges, CurrentTyped
    <3> QED
      BY <1>1, <3>1, <3>2, EveryChange
  <2>5. PICK m, w : m = n /\ w = v
    OBVIOUS
  <2>6. LastsAs(s, w, Current(s)')
    <3>1. s \in Keys \ (Deletable \cup InstanceKeys) /\ m \in 1..Version(s)' /\ log'[s][m] = w
      BY <2>1, <2>4, <2>5
    <3>2. log'[s][m] # Absent /\ log'[s][m].owner \in Live' \cup {NoOwner}
      BY <2>2, <2>5, <3>1
    <3>3. LastsAs(s, log'[s][m], Current(s)')
      BY <3>1, <3>2 DEF Lasting, LastsAs, InstanceKeys
    <3> QED
      BY <3>1, <3>3
  <2> QED
    BY <2>1, <2>2, <2>5, <2>6 DEF LastsAs, SetUp, Owns, IsControlledBy
<1>10. Deployed(o, ji) /\ Running(o, ji) => Running(o, ji)'
  BY RunningStays
<1> QED
  BY <1>3, <1>4, <1>6, <1>7, <1>8, <1>9, <1>10

LEMMA PastStays ==
    ASSUME Attended, PInv, Lasting', [Next]_vars, NEW o \in Operators, seen'[o] = seen[o],
           NEW k \in InstanceKeys, NEW ji \in Instances, NamedAs(ji.uid, k), ji.uid \in Live',
           NEW w, NEW at, Past(o, k, ji, w, at)
    PROVE  Past(o, k, ji, w, at)'
BY PartsStay DEF Past

-----------------------------------------------------------------------------
(* What a replica hears.                                                    *)

(* A version that a delivery takes from a key's ahead has been heard of.    *)
LEMMA HeardOf ==
    ASSUME IInv, NEW o \in Operators, NEW j \in Keys, Deliver(o, j), worker'[o].at # "down"
    PROVE  /\ log' = log /\ worker' = worker /\ up' = up
           /\ seen'[o][j] = seen[o][j] + 1 /\ \A i \in Keys : i # j => seen'[o][i] = seen[o][i]
           /\ \A i \in Keys : i # j => Ahead(o, i)' = Ahead(o, i) /\ Cached(o, i)' = Cached(o, i)
           /\ Ahead(o, j)' \subseteq Ahead(o, j)
           /\ \A v \in Ahead(o, j) : v \in Ahead(o, j)' \/ v = Cached(o, j)
           /\ Current(j) # Absent => Current(j) \in Ahead(o, j)'
           /\ \E i \in 1..Version(j) : Cached(o, j)' = log[j][i]
           /\ queue[o] \subseteq queue'[o]
           /\ InScope(j.ns) /\ j.kind = "JenkinsInstance" => RequestFor(j) \in queue'[o]
           /\ InScope(j.ns) /\ j.kind \in {"Deployment", "PersistentVolumeClaim", "Service"} =>
                 \A v \in {Cached(o, j), Cached(o, j)'} :
                    v # Absent /\ v.owner # NoOwner => RequestFor(v.owner) \in queue'[o]
<1> DEFINE n == seen[o][j]
           at == [seen[o] EXCEPT ![j] = n + 1]
           versions == {log[j][n], log[j][n + 1]}
<1>1. /\ n \in Nat \ {0} /\ n < Version(j) /\ Version(j) \in Nat
      /\ seen \in [Operators -> [Keys -> Nat \ {0}]]
      /\ queue \in [Operators -> SUBSET Requests]
      /\ worker \in [Operators -> WorkerType]
  BY CurrentTyped DEF Deliver, IInv, TypeOK, WorkerType
<1>2. log' = log /\ up' = up /\ seen' = [seen EXCEPT ![o] = at]
  BY DEF Deliver, Observe, world
<1>3. ~Die(o)
  BY <1>1 DEF Die, Resting
<1>4. worker' = worker /\ queue' = [queue EXCEPT ![o] = @ \cup RequestsOf(j, at, versions)]
  BY <1>3 DEF Deliver, Observe
<1>5. queue'[o] = queue[o] \cup RequestsOf(j, at, versions)
  BY <1>1, <1>4
<1>6. seen'[o][j] = n + 1 /\ \A i \in Keys : i # j => seen'[o][i] = seen[o][i]
  BY <1>1, <1>2
<1>7. Version(j)' = Version(j) /\ \A i : Version(i)' = Version(i)
  BY <1>2 DEF Version
<1>8. \A i \in Keys : i # j => Ahead(o, i)' = Ahead(o, i) /\ Cached(o, i)' = Cached(o, i)
  BY <1>2, <1>6, <1>7 DEF Ahead, Cached
<1>9. Cached(o, j) = log[j][n] /\ Cached(o, j)' = log[j][n + 1]
  BY <1>2, <1>6 DEF Cached
<1>10. Ahead(o, j)' \subseteq Ahead(o, j)
  BY <1>1, <1>2, <1>6, <1>7 DEF Ahead
<1>11. ASSUME NEW v \in Ahead(o, j)
       PROVE  v \in Ahead(o, j)' \/ v = Cached(o, j)
  <2>1. PICK i \in n..Version(j) : v = log[j][i] /\ v # Absent
    BY DEF Ahead
  <2>2. CASE i = n
    BY <1>9, <2>1, <2>2
  <2>3. CASE i # n
    <3>1. i \in (n + 1)..Version(j)'
      <4> HIDE DEF n
      <4>1. i \in (n + 1)..Version(j)
        BY <1>1, <2>1, <2>3
      <4> QED
        BY <1>7, <4>1
    <3>2. v = log'[j][i]
      BY <1>2, <2>1
    <3> QED
      BY <1>6, <2>1, <3>1, <3>2 DEF Ahead
  <2> QED
    BY <2>2, <2>3
<1>12. Current(j) # Absent => Current(j) \in Ahead(o, j)'
  <2>1. Current(j) = log[j][Version(j)] /\ Version(j) \in (n + 1)..Version(j)
    BY <1>1, CurrentVersion
  <2> QED
    BY <1>2, <1>6, <1>7, <2>1 DEF Ahead
<1>13. \E i \in 1..Version(j) : Cached(o, j)' = log[j][i]
  BY <1>1, <1>9
<1> HIDE DEF at, versions
<1>14. InScope(j.ns) /\ j.kind = "JenkinsInstance" => RequestFor(j) \in queue'[o]
  BY <1>5 DEF RequestsOf
<1>15. ASSUME InScope(j.ns), j.kind \in {"Deployment", "PersistentVolumeClaim", "Service"},
              NEW v \in {Cached(o, j), Cached(o, j)'}, v # Absent, v.owner # NoOwner
       PROVE  RequestFor(v.owner) \in queue'[o]
  <2>1. RequestsOf(j, at, versions) = OwnerRequests(versions)
    BY <1>15 DEF RequestsOf
  <2>2. v \in versions
    BY <1>9, <1>15 DEF versions
  <2> QED
    BY <1>5, <1>15, <2>1, <2>2 DEF OwnerRequests
<1> QED
  BY <1>2, <1>4, <1>5, <1>6, <1>8, <1>10, <1>11, <1>14, <1>15, <1>12, <1>13

(* An event that names u and is not yet heard of is still on its way.       *)
LEMMA ToldHeard ==
    ASSUME IInv, NEW o \in Operators, NEW u \in Uids, InScope(u.ns),
           NEW j \in Keys, Deliver(o, j), worker'[o].at # "down",
           RequestFor(u) \notin queue'[o], Told(o, u)
    PROVE  Told(o, u)'
<1>1. PICK i \in Keys : Telling(o, i, u)
  BY DEF Told
<1>2. PICK n \in 1..Version(i) :
         /\ seen[o][i] <= n /\ n < Version(i)
         /\ \E v \in {log[i][n], log[i][n + 1]} : v # Absent /\ v.owner = u
  BY <1>1 DEF Telling
<1>3. log' = log /\ Version(i)' = Version(i)
  BY HeardOf DEF Version
<1>4. seen'[o][i] <= n
  <2>1. CASE i # j
    BY <1>2, <2>1, HeardOf
  <2>2. CASE i = j
    <3>1. seen[o][i] \in Nat /\ n \in Nat /\ seen'[o][i] = seen[o][i] + 1
      BY <1>2, <2>2, HeardOf DEF IInv, TypeOK
    <3>2. n # seen[o][i]
      <4> SUFFICES ASSUME n = seen[o][i]
                   PROVE  FALSE
        OBVIOUS
      <4>1. log[i][n] = Cached(o, j) /\ log[i][n + 1] = Cached(o, j)'
        BY <1>3, <2>2, <3>1 DEF Cached
      <4>2. \E v \in {Cached(o, j), Cached(o, j)'} : v # Absent /\ v.owner = u
        BY <1>2, <4>1
      <4>3. InScope(j.ns) /\ j.kind \in {"Deployment", "PersistentVolumeClaim", "Service"}
        BY <1>1, <2>2 DEF Telling
      <4>4. u # NoOwner
        BY SentinelsAssumption DEF SentinelsAssumption
      <4> QED
        BY <4>2, <4>3, <4>4, HeardOf
    <3> QED
      BY <1>2, <3>1, <3>2
  <2> QED
    BY <2>1, <2>2
<1>5. Telling(o, i, u)'
  BY <1>1, <1>2, <1>3, <1>4 DEF Telling
<1> QED
  BY <1>5 DEF Told

(* What the promise rests on is only lost with an event that names the      *)
(* instance.                                                                *)
LEMMA PastHeard ==
    ASSUME Attended, PInv, NEW o \in Operators, NEW k \in InstanceKeys,
           NEW ji \in Instances, NamedAs(ji.uid, k), InScope(k.ns),
           NEW j \in Keys, j # k, Deliver(o, j), worker'[o].at # "down",
           RequestFor(k) \notin queue'[o],
           NEW w, NEW at, Past(o, k, ji, w, at)
    PROVE  Past(o, k, ji, w, at)'
<1>1. RInv /\ IInv /\ OInv
  BY DEF PInv, OInv, RInv
<1>2. log' = log /\ k \in Keys
  BY <1>1, HeardOf DEF InstanceKeys
<1>3. ASSUME NEW u, NamedAs(u, k)
      PROVE  u # NoOwner /\ RequestFor(u) \notin queue'[o]
  BY <1>3, RequestKeys, SentinelsAssumption DEF SentinelsAssumption, NamedAs
<1>4. SetUp(ji) => SetUp(ji)'
  BY <1>2 DEF SetUp, Owns, Current, Version, IsControlledBy
<1>5. ASSUME NEW i \in Keys, i.kind \in {"Deployment", "PersistentVolumeClaim", "Service"},
             i.ns = k.ns, NEW v \in Ahead(o, i), v \notin Ahead(o, i)'
      PROVE  i = j /\ v = Cached(o, i) /\ v # Absent /\ ~NamedAs(v.owner, k)
  <2>1. i = j
    BY <1>1, <1>5, HeardOf
  <2>2. v = Cached(o, i) /\ v # Absent
    BY <1>1, <1>5, <2>1, HeardOf DEF Ahead
  <2>3. v.owner # NoOwner => RequestFor(v.owner) \in queue'[o]
    BY <1>1, <1>5, <2>1, <2>2, HeardOf
  <2> QED
    BY <1>3, <2>1, <2>2, <2>3
<1>6. Deployed(o, ji) => Deployed(o, ji)'
  <2>1. DeploymentKey(ji) \in Keys /\ DeploymentKey(ji).kind = "Deployment"
        /\ DeploymentKey(ji).ns = k.ns
    BY ChildKeys
  <2> QED
    BY <1>5, <2>1 DEF Deployed
<1>7. ServiceKey(ji) \in Keys /\ ServiceKey(ji).kind = "Service" /\ ServiceKey(ji).ns = k.ns
      /\ ServiceKey(ji) = ServiceOf(k, ji.spec) /\ ji.spec \in Specs
  BY ChildKeys, ServiceOfInstance
<1>8. Exposed(o, ji) => Exposed(o, ji)'
  BY <1>5, <1>7 DEF Exposed, Suits
<1>9. ASSUME Cached(o, ServiceKey(ji)) = Absent
      PROVE  Cached(o, ServiceKey(ji))' = Absent
  <2> DEFINE s == ServiceKey(ji)
  <2>1. CASE s # j
    BY <1>1, <1>7, <1>9, <2>1, HeardOf
  <2>2. ASSUME s = j, Cached(o, j)' # Absent
        PROVE  FALSE
    <3>1. PICK i \in 1..Version(j) : Cached(o, j)' = log[j][i]
      BY <1>1, HeardOf
    <3>2. PICK v : v = log[j][i]
      OBVIOUS
    <3>3. AskedFor(j, v.owner)
      BY <1>1, <1>7, <2>2, <3>1, <3>2 DEF OInv, ServicesAsked
    <3>4. PICK l \in InstanceKeys : \E t \in Specs : j = ServiceOf(l, t) /\ NamedAs(v.owner, l)
      BY <3>3 DEF AskedFor
    <3>5. l = k
      BY <1>7, <2>2, <3>4 DEF Attended, SoleServices
    <3>6. NamedAs(v.owner, k)
      BY <3>4, <3>5
    <3>7. v.owner # NoOwner => RequestFor(v.owner) \in queue'[o]
      BY <1>1, <1>7, <2>2, <3>1, <3>2, HeardOf
    <3> QED
      BY <1>3, <3>6, <3>7
  <2> QED
    BY <2>1, <2>2
<1>10. ASSUME ji.spec.storage # Nil, Ahead(o, ClaimKey(ji)) # {}
       PROVE  Ahead(o, ClaimKey(ji))' # {}
  <2> DEFINE c == ClaimKey(ji)
  <2>1. c \in Keys /\ c.kind = "PersistentVolumeClaim" /\ c.ns = k.ns /\ MayName(k, c)
    BY <1>10, ChildKeys
  <2>2. PICK v : v \in Ahead(o, c)
    BY <1>10
  <2>3. CASE v \in Ahead(o, c)'
    BY <2>3
  <2>4. CASE v \notin Ahead(o, c)'
    <3>1. c = j /\ v = Cached(o, c) /\ v # Absent /\ ~NamedAs(v.owner, k)
      BY <1>5, <2>1, <2>2, <2>4
    <3>2. PICK i \in 1..Version(c) : v = log[c][i]
      BY <1>1, <2>1, <2>2, AheadTyped
    <3>3. MadeFor(c, v.owner)
      BY <2>1, <3>1, <3>2 DEF PInv, ClaimsMade
    <3>4. v.owner = NoOwner /\ c \notin Deletable
      BY <2>1, <3>1, <3>3 DEF MadeFor, Attended
    <3>5. c \in Keys \ (Deletable \cup InstanceKeys)
      BY <2>1, <3>4 DEF InstanceKeys
    <3>6. Current(c) # Absent
      BY <3>1, <3>2, <3>4, <3>5 DEF PInv, Lasting, LastsAs
    <3> QED
      BY <1>1, <2>1, <3>1, <3>6, HeardOf
  <2> QED
    BY <2>3, <2>4
<1>11. Claimed(o, ji) => Claimed(o, ji)'
  BY <1>10 DEF Claimed
<1>12. Said(o, k) => Said(o, k)'
  BY <1>1, <1>2, HeardOf DEF Said
<1>13. Running(o, ji) => Running(o, ji)'
  <2>1. ji.uid \in Uids /\ InScope(ji.uid.ns) /\ RequestFor(ji.uid) \notin queue'[o]
    BY <1>3 DEF NamedAs
  <2>2. up' = up
    BY <1>1, HeardOf
  <2>3. PICK u : u = ji.uid
    OBVIOUS
  <2>4. Told(o, u) => Told(o, u)'
    BY <1>1, <2>1, <2>3, ToldHeard
  <2> QED
    BY <2>2, <2>3, <2>4 DEF Running
<1> QED
  BY <1>4, <1>6, <1>8, <1>9, <1>11, <1>12, <1>13 DEF Past

-----------------------------------------------------------------------------
(* What a replica does for the instance it minds.                           *)

Turn(o, k, ji, w) ==
    /\ Attended /\ PInv /\ Lasting' /\ [Next]_vars
    /\ worker[o].req = RequestFor(k) /\ Cached(o, k) # Absent /\ ji = Cached(o, k).body
    /\ Past(o, k, ji, worker[o], worker[o].at)
    /\ seen' = seen /\ ji.uid \in Live'
    /\ w = worker'[o] /\ w.at # "down"

LEMMA GoesOn ==
    ASSUME IInv, NEW o \in Operators, NEW s, NEW h, NEW f, GoWith(o, s, h, f)
    PROVE  worker'[o] = [at |-> s, req |-> worker[o].req, ji |-> h, found |-> f]
BY DEF GoWith, IInv, TypeOK

LEMMA TurnFacts ==
    ASSUME NEW o \in Operators, NEW k \in InstanceKeys, NEW ji, NEW w, Turn(o, k, ji, w)
    PROVE  /\ RInv /\ IInv
           /\ ReadInstance(o) = Cached(o, k) /\ ReadInstance(o) # Absent
           /\ ji \in Instances /\ NamedAs(ji.uid, k) /\ ji.uid \in Live
           /\ SetUp(ji) => SetUp(ji)'
           /\ Claimed(o, ji) => Claimed(o, ji)'
           /\ Deployed(o, ji) => Deployed(o, ji)'
           /\ Exposed(o, ji) => Exposed(o, ji)'
           /\ Said(o, k) => Said(o, k)'
           /\ Deployed(o, ji) /\ Running(o, ji) => Running(o, ji)'
           /\ Cached(o, ServiceKey(ji))' = Cached(o, ServiceKey(ji))
           /\ ~Die(o)
           /\ Requeue(o) => RequestFor(k) \in queue'[o]
           /\ Done(o) => Place(w, k) = "idle"
           /\ \A s : Go(o, s) => Place(w, k) = s /\ w.at = s
           /\ \A s, f : GoWith(o, s, ji, f) => Place(w, k) = s /\ w.at = s /\ w.ji = ji /\ w.found = f
<1>1. RInv /\ IInv
  BY DEF Turn, PInv, OInv, RInv
<1>2. ReadInstance(o) = Cached(o, k) /\ ReadInstance(o) # Absent
  BY RequestKeys DEF Turn, ReadInstance
<1>3. ji \in Instances /\ NamedAs(ji.uid, k) /\ ji.uid \in Born
  BY <1>1, Sees DEF Turn
<1>4. ji.uid \in Live
  BY <1>1, <1>3, LiveBefore DEF Turn
<1>5. /\ queue \in [Operators -> SUBSET Requests]
      /\ worker \in [Operators -> WorkerType]
  BY <1>1 DEF IInv, TypeOK, WorkerType
<1>6. ~Die(o)
  BY <1>5 DEF Turn, Die, Resting
<1>7. Requeue(o) => RequestFor(k) \in queue'[o]
  BY <1>5 DEF Requeue, Turn
<1>8. Done(o) => Place(w, k) = "idle"
  BY <1>5, RequestKeys DEF Turn, Done, Resting, Place
<1>9. ASSUME NEW s, NEW h, NEW f, GoWith(o, s, h, f)
      PROVE  Place(w, k) = s /\ w.at = s /\ w.ji = h /\ w.found = f
  <2>1. worker'[o] = [at |-> s, req |-> worker[o].req, ji |-> h, found |-> f]
    BY <1>1, <1>9, GoesOn
  <2>2. w = worker'[o] /\ worker[o].req = RequestFor(k)
    BY DEF Turn
  <2> QED
    BY <2>1, <2>2 DEF Place
<1>10. \A s : Go(o, s) => Place(w, k) = s /\ w.at = s
  BY <1>9 DEF Go
<1>11. \A s, f : GoWith(o, s, ji, f) => Place(w, k) = s /\ w.at = s /\ w.ji = ji /\ w.found = f
  BY <1>9
<1>12. /\ SetUp(ji) => SetUp(ji)'
       /\ Claimed(o, ji) => Claimed(o, ji)'
       /\ Deployed(o, ji) => Deployed(o, ji)'
       /\ Exposed(o, ji) => Exposed(o, ji)'
       /\ Said(o, k) => Said(o, k)'
       /\ Deployed(o, ji) /\ Running(o, ji) => Running(o, ji)'
       /\ Cached(o, ServiceKey(ji))' = Cached(o, ServiceKey(ji))
  BY <1>3, PartsStay DEF Turn
<1> QED
  BY <1>1, <1>2, <1>3, <1>4, <1>6, <1>7, <1>8, <1>10, <1>11, <1>12

LEMMA ObjectThere ==
    ASSUME NEW k \in Keys, NEW v \in [owner : Uids \cup {NoOwner}, body : BodiesOf(k.kind)]
    PROVE  v # Absent
BY SentinelsAssumption DEF SentinelsAssumption

LEMMA SetupTurn ==
    ASSUME NEW o \in Operators, NEW k \in InstanceKeys, NEW ji, NEW w, Turn(o, k, ji, w),
           NewSetupConfigMap(o)
    PROVE  RequestFor(k) \in queue'[o] \/ Past(o, k, ji, w, Place(w, k))'
<1> DEFINE key == SetupKey(ji)
           cm == Cached(o, key)
           data == SetupStringData(ji)
           merged == MergeData(data, cm.body)
           made == Object(ji.uid, data)
           changed == [cm EXCEPT !.body = merged]
<1>1. IInv /\ ji \in Instances /\ NamedAs(ji.uid, k) /\ ji = ReadInstance(o).body /\ seen' = seen
      /\ ji.uid \in Live
  BY TurnFacts DEF Turn
<1>2. key \in Keys /\ key.kind = "ConfigMap" /\ key \in Keys \ (Deletable \cup InstanceKeys)
  BY <1>1, ChildKeys DEF Turn, Attended, InstanceKeys
<1>3. \/ Requeue(o)
      \/ Put(key, made) /\ ji.spec.casc # Nil /\ Go(o, "deploy")
      \/ cm # Absent /\ ~Foreign(cm, ji) /\ merged = cm.body /\ Go(o, "deploy")
      \/ /\ cm # Absent /\ ~Foreign(cm, ji) /\ ji.spec.casc # Nil
         /\ Put(key, changed) /\ Go(o, "restart")
  <2>1. ~Panic(o)
    BY TurnFacts DEF Panic
  <2> QED
    BY <1>1, <2>1 DEF NewSetupConfigMap, Create, Update, Write, Fail, Pass
<1>4. ASSUME SetUp(ji)', Go(o, "deploy") \/ Go(o, "restart")
      PROVE  Past(o, k, ji, w, Place(w, k))'
  <2>1. Place(w, k) \in {"deploy", "restart"}
    BY <1>4, TurnFacts
  <2> QED
    BY <1>4, <2>1 DEF Past
<1>5. data \in DataMaps \/ ji.spec.casc = Nil
  BY <1>1, SpecTyped, StringDataTyped DEF SetupStringData
<1>6. BodiesOf(key.kind) = DataMaps
  BY <1>2 DEF BodiesOf
<1>7. ASSUME NEW v \in [owner : Uids \cup {NoOwner}, body : DataMaps],
             Put(key, v), v.owner = ji.uid, DOMAIN data \subseteq Files(v)
      PROVE  SetUp(ji)'
  <2>1. Current(key)' = v /\ v # Absent
    BY <1>1, <1>2, <1>6, <1>7, PutAhead, ObjectThere
  <2> QED
    BY <1>2, <1>7, <2>1 DEF SetUp, Owns, IsControlledBy
<1>8. CASE Put(key, made) /\ ji.spec.casc # Nil /\ Go(o, "deploy")
  <2>1. PICK v : v = made
    OBVIOUS
  <2>2. v.owner = ji.uid /\ Files(v) = DOMAIN data
    BY <2>1 DEF Object, Files
  <2>3. v \in [owner : Uids \cup {NoOwner}, body : DataMaps]
    BY <1>1, <1>5, <1>8, <2>1, SpecTyped DEF Object
  <2> QED
    BY <1>4, <1>7, <1>8, <2>1, <2>2, <2>3
<1>9. ASSUME cm # Absent, ~Foreign(cm, ji)
      PROVE  /\ cm \in [owner : Uids \cup {NoOwner}, body : DataMaps] /\ cm.owner = ji.uid
             /\ DOMAIN merged = DOMAIN data \cup Files(cm)
             /\ LastsAs(key, cm, Current(key))
  <2>1. cm \in VersionsOf("ConfigMap") /\ seen[o][key] \in 1..Version(key)
        /\ cm = log[key][seen[o][key]]
    BY <1>1, <1>2, <1>9, CachedTyped DEF IInv
  <2>2. cm.owner = ji.uid
    BY <1>9 DEF Foreign, IsControlledBy
  <2>3. LastsAs(key, cm, Current(key))
    BY <1>1, <1>2, <1>9, <2>1, <2>2 DEF Turn, PInv, Lasting
  <2>4. DOMAIN merged = DOMAIN data \cup DOMAIN cm.body
    BY DEF MergeData
  <2> QED
    BY <1>9, <2>1, <2>2, <2>3, <2>4, Kinds DEF Files
<1>10. CASE cm # Absent /\ ~Foreign(cm, ji) /\ merged = cm.body /\ Go(o, "deploy")
  <2>1. SetUp(ji)
    BY <1>2, <1>9, <1>10 DEF SetUp, Owns, IsControlledBy, LastsAs, Files
  <2> QED
    BY <1>4, <1>10, <2>1, TurnFacts
<1>11. CASE /\ cm # Absent /\ ~Foreign(cm, ji) /\ ji.spec.casc # Nil
            /\ Put(key, changed) /\ Go(o, "restart")
  <2>1. PICK v : v = changed
    OBVIOUS
  <2>2. merged \in DataMaps
    BY <1>5, <1>9, <1>11, MergeDataTyped
  <2>3. v \in [owner : Uids \cup {NoOwner}, body : DataMaps] /\ v.owner = ji.uid
        /\ v.body = merged
    BY <1>9, <1>11, <2>1, <2>2
  <2>4. DOMAIN data \subseteq Files(v)
    BY <1>9, <1>11, <2>3 DEF Files
  <2> QED
    BY <1>4, <1>7, <1>11, <2>1, <2>3, <2>4
<1> QED
  BY <1>3, <1>8, <1>10, <1>11, TurnFacts

LEMMA RestartTurn ==
    ASSUME NEW o \in Operators, NEW k \in InstanceKeys, NEW ji, NEW w, Turn(o, k, ji, w),
           ReadServiceToRestart(o) \/ SafeRestart(o)
    PROVE  RequestFor(k) \in queue'[o] \/ Past(o, k, ji, w, Place(w, k))'
<1>1. SetUp(ji)
  BY DEF Turn, Past, ReadServiceToRestart, SafeRestart, Reading
<1>2. ji = ReadInstance(o).body
  BY TurnFacts DEF Turn
<1>3. Requeue(o) \/ GoWith(o, "post", ji, FALSE) \/ Go(o, "deploy")
  BY <1>2 DEF ReadServiceToRestart, SafeRestart, SafeRestartJenkins, Fail, Pass
<1>4. RequestFor(k) \in queue'[o] \/ Place(w, k) \in {"post", "deploy"}
  <2>1. GoWith(o, "post", ji, FALSE) => Place(w, k) = "post"
    <3>1. PICK none : none = FALSE
      OBVIOUS
    <3>2. GoWith(o, "post", ji, none) => Place(w, k) = "post"
      BY TurnFacts
    <3> QED
      BY <3>1, <3>2
  <2>2. Go(o, "deploy") => Place(w, k) = "deploy"
    BY TurnFacts
  <2>3. Requeue(o) => RequestFor(k) \in queue'[o]
    BY TurnFacts
  <2> QED
    BY <1>3, <2>1, <2>2, <2>3
<1>5. SetUp(ji)'
  BY <1>1, TurnFacts
<1> QED
  BY <1>4, <1>5 DEF Past

(* newDeployment sees that there is a claim, and whether a Deployment.      *)
LEMMA ClaimTurn ==
    ASSUME NEW o \in Operators, NEW k \in InstanceKeys, NEW ji, NEW w, Turn(o, k, ji, w),
           NewDeployment(o)
    PROVE  RequestFor(k) \in queue'[o] \/ Past(o, k, ji, w, Place(w, k))'
<1> DEFINE d == Cached(o, DeploymentKey(ji))
           key == ClaimKey(ji)
           made == Object(ji.uid, Nil)
<1>1. IInv /\ ji \in Instances /\ NamedAs(ji.uid, k) /\ ji = ReadInstance(o).body /\ seen' = seen
  BY TurnFacts DEF Turn
<1>2. SetUp(ji)
  BY DEF Turn, Past, NewDeployment, Reading
<1>3. /\ DeploymentKey(ji) \in Keys /\ key.kind = "PersistentVolumeClaim"
      /\ ji.spec.storage # Nil => key \in Keys
  BY <1>1, ChildKeys
<1>4. PICK found : found = (d # Absent)
  OBVIOUS
<1>5. \/ Requeue(o)
      \/ /\ ~Foreign(d, ji) /\ GoWith(o, "template", ji, found)
         /\ ji.spec.storage = Nil \/ Cached(o, key) # Absent \/ Put(key, made)
  BY <1>1, <1>4 DEF NewDeployment, Create, Write, Fail
<1>6. CASE /\ ~Foreign(d, ji) /\ GoWith(o, "template", ji, found)
           /\ ji.spec.storage = Nil \/ Cached(o, key) # Absent \/ Put(key, made)
  <2>1. Place(w, k) = "template" /\ w.ji = ji /\ w.found = found
    BY <1>6, TurnFacts
  <2>2. SetUp(ji)'
    BY <1>2, TurnFacts
  <2>3. found => Deployed(o, ji)'
    <3>1. ASSUME found
          PROVE  Deployed(o, ji)
      <4>1. d # Absent
        BY <1>4, <3>1
      <4>2. d \in Ahead(o, DeploymentKey(ji))
        BY <1>1, <1>3, <4>1, CachedAhead
      <4>3. d.owner = ji.uid
        BY <1>6, <4>1 DEF Foreign, IsControlledBy
      <4> QED
        BY <4>2, <4>3 DEF Deployed
    <3> QED
      BY <3>1, TurnFacts
  <2>4. Claimed(o, ji)'
    <3>1. CASE ji.spec.storage = Nil
      BY <3>1 DEF Claimed
    <3>2. CASE ji.spec.storage # Nil /\ Cached(o, key) # Absent
      <4>1. Claimed(o, ji)
        <5>1. Cached(o, key) \in Ahead(o, key)
          BY <1>1, <1>3, <3>2, CachedAhead
        <5> QED
          BY <5>1 DEF Claimed
      <4> QED
        BY <4>1, TurnFacts
    <3>3. CASE ji.spec.storage # Nil /\ Put(key, made)
      <4>1. PICK v : v = made
        OBVIOUS
      <4>2. v \in [owner : Uids \cup {NoOwner}, body : BodiesOf(key.kind)]
        <5>1. BodiesOf(key.kind) = {Nil} /\ ji.uid \in Uids
          BY <1>1, <1>3, SpecTyped DEF BodiesOf
        <5> QED
          BY <4>1, <5>1 DEF Object
      <4>3. key \in Keys /\ Put(key, v) /\ v # Absent
        BY <1>3, <3>3, <4>1, <4>2, ObjectThere
      <4>4. v \in Ahead(o, key)'
        <5> HIDE DEF key
        <5> QED
          BY <1>1, <4>3, PutAhead
      <4> QED
        BY <4>4 DEF Claimed
    <3> QED
      BY <1>6, <3>1, <3>2, <3>3
  <2> QED
    BY <2>1, <2>2, <2>3, <2>4 DEF Past
<1> QED
  BY <1>5, <1>6, TurnFacts

LEMMA DeploymentTurn ==
    ASSUME NEW o \in Operators, NEW k \in InstanceKeys, NEW ji, NEW w, Turn(o, k, ji, w),
           CreateDeployment(o)
    PROVE  RequestFor(k) \in queue'[o] \/ Past(o, k, ji, w, Place(w, k))'
<1> DEFINE key == DeploymentKey(ji)
           made == Object(ji.uid, Template(o, ji))
<1>1. IInv /\ ji \in Instances /\ NamedAs(ji.uid, k) /\ seen' = seen
  BY TurnFacts DEF Turn
<1>2. SetUp(ji) /\ Claimed(o, ji) /\ worker[o].ji = ji /\ (worker[o].found => Deployed(o, ji))
  BY DEF Turn, Past, CreateDeployment
<1>3. key \in Keys /\ key.kind = "Deployment"
  BY <1>1, ChildKeys
<1>4. \/ Requeue(o)
      \/ worker[o].found /\ Go(o, "service")
      \/ ~MissingSource(o, ji) /\ Put(key, made) /\ Go(o, "service")
  BY <1>2 DEF CreateDeployment, Create, Write, Fail, Pass
<1>5. Go(o, "service") => Place(w, k) = "service"
  BY TurnFacts
<1>6. SetUp(ji)' /\ Claimed(o, ji)'
  BY <1>2, TurnFacts
<1>7. ASSUME ~MissingSource(o, ji), Put(key, made)
      PROVE  Deployed(o, ji)'
  <2>1. PICK v : v = made
    OBVIOUS
  <2>2. v \in [owner : Uids \cup {NoOwner}, body : BodiesOf(key.kind)] /\ v.owner = ji.uid
    BY <1>1, <1>3, <1>7, <2>1, SpecTyped, TemplateTyped DEF Object, BodiesOf, IInv
  <2>3. v \in Ahead(o, key)'
    BY <1>1, <1>3, <1>7, <2>1, <2>2, PutAhead, ObjectThere
  <2> QED
    BY <2>2, <2>3 DEF Deployed
<1>8. Requeue(o) \/ (Go(o, "service") /\ Deployed(o, ji)')
  <2>1. Deployed(o, ji) => Deployed(o, ji)'
    BY TurnFacts
  <2> QED
    BY <1>2, <1>4, <1>7, <2>1
<1> QED
  BY <1>5, <1>6, <1>8, TurnFacts DEF Past

LEMMA ReadServiceTurn ==
    ASSUME NEW o \in Operators, NEW k \in InstanceKeys, NEW ji, NEW w, Turn(o, k, ji, w),
           ReadForService(o)
    PROVE  RequestFor(k) \in queue'[o] \/ Past(o, k, ji, w, Place(w, k))'
<1>1. ji = ReadInstance(o).body
  BY TurnFacts DEF Turn
<1>2. SetUp(ji) /\ Claimed(o, ji) /\ Deployed(o, ji)
  BY DEF Turn, Past, ReadForService, Reading
<1>3. PICK none : none = FALSE
  OBVIOUS
<1>4. GoWith(o, "expose", ji, none)
  BY <1>1, <1>3 DEF ReadForService
<1>5. Place(w, k) = "expose" /\ w.ji = ji
  BY <1>4, TurnFacts
<1>6. SetUp(ji)' /\ Claimed(o, ji)' /\ Deployed(o, ji)'
  BY <1>2, TurnFacts
<1> QED
  BY <1>5, <1>6 DEF Past

(* newService leaves a Service of the type asked for, or one it has not     *)
(* heard of.                                                                *)
LEMMA CopySuits ==
    ASSUME NEW ji \in Instances, NEW body \in Services, ji.spec.service # Nil,
           ji.spec.service.type # ""
    PROVE  /\ ServiceCopy(body, ji.spec.service).type = ji.spec.service.type
           /\ Defaulted(ServiceCopy(body, ji.spec.service)).type = ji.spec.service.type
<1> DEFINE copy == ServiceCopy(body, ji.spec.service)
<1>1. copy.type = ji.spec.service.type
  BY DEF ServiceCopy, Services
<1>2. Defaulted(copy).type = IF copy.type = "" THEN "ClusterIP" ELSE copy.type
  BY DEF Defaulted
<1> QED
  BY <1>1, <1>2

LEMMA CopyTyped ==
    ASSUME NEW ji \in Instances, NEW body \in Services
    PROVE  Defaulted(ServiceCopy(body, ji.spec.service)) \in Services
<1>1. ServiceCopy(body, ji.spec.service) \in Services
  BY SpecTyped DEF ServiceCopy, Services
<1> QED
  BY <1>1, DefaultedTyped

LEMMA BuiltSuits ==
    ASSUME NEW ji \in Instances, ji.spec.service # Nil
    PROVE  /\ Defaulted(BuiltService(ji.spec.service)) \in Services
           /\ ji.spec.service.type # "" =>
                 Defaulted(BuiltService(ji.spec.service)).type = ji.spec.service.type
<1> DEFINE built == BuiltService(ji.spec.service)
<1>1. built \in Services /\ built.type = ji.spec.service.type
  BY SpecTyped DEF BuiltService, Services
<1>2. Defaulted(built).type = IF built.type = "" THEN "ClusterIP" ELSE built.type
  BY DEF Defaulted
<1> QED
  BY <1>1, <1>2, DefaultedTyped

LEMMA ServiceTurn ==
    ASSUME NEW o \in Operators, NEW k \in InstanceKeys, NEW ji, NEW w, Turn(o, k, ji, w),
           NewService(o)
    PROVE  RequestFor(k) \in queue'[o] \/ Past(o, k, ji, w, Place(w, k))'
<1> DEFINE s == ServiceKey(ji)
           service == Cached(o, s)
           copy == ServiceCopy(service.body, ji.spec.service)
           built == Defaulted(BuiltService(ji.spec.service))
           changed == [service EXCEPT !.body = Defaulted(copy)]
           made == Object(ji.uid, built)
<1>1. IInv /\ ji \in Instances /\ NamedAs(ji.uid, k) /\ ji = ReadInstance(o).body /\ seen' = seen
  BY TurnFacts DEF Turn
<1>2. SetUp(ji) /\ Claimed(o, ji) /\ Deployed(o, ji) /\ worker[o].ji = ji
  BY DEF Turn, Past, NewService, Reading
<1>3. s \in Keys /\ s.kind = "Service" /\ BodiesOf(s.kind) = Services
  BY <1>1, ChildKeys DEF BodiesOf
<1>4. \/ Requeue(o)
      \/ /\ Go(o, "check") /\ service # Absent /\ ~Foreign(service, ji)
         /\ SameServiceSpec(copy, service.body) \/ Put(s, changed)
      \/ Go(o, "check") /\ ji.spec.service # Nil /\ Put(s, made)
      \/ Go(o, "check") /\ service = Absent
  <2>1. ~Panic(o)
    BY TurnFacts DEF Panic
  <2> QED
    BY <1>1, <1>2, <2>1 DEF NewService, Create, Update, Write, Fail, Pass
<1>5. ASSUME Go(o, "check"), Exposed(o, ji)' \/ Cached(o, s)' = Absent
      PROVE  Past(o, k, ji, w, Place(w, k))'
  <2>1. Place(w, k) = "check"
    BY <1>5, TurnFacts
  <2>2. SetUp(ji)' /\ Claimed(o, ji)' /\ Deployed(o, ji)'
    BY <1>2, TurnFacts
  <2> QED
    BY <1>5, <2>1, <2>2 DEF Past
<1>6. ASSUME NEW v \in [owner : Uids \cup {NoOwner}, body : Services], Suits(v, ji), Put(s, v)
      PROVE  Exposed(o, ji)'
  <2>1. v # Absent
    BY <1>3, <1>6, ObjectThere
  <2>2. v \in Ahead(o, s)'
    <3> HIDE DEF s
    <3> QED
      BY <1>1, <1>3, <1>6, <2>1, PutAhead
  <2>3. Suits(v, ji)'
    BY <1>6 DEF Suits
  <2> QED
    BY <2>2, <2>3 DEF Exposed
<1>7. ASSUME service # Absent, ~Foreign(service, ji)
      PROVE  /\ service \in [owner : Uids \cup {NoOwner}, body : Services]
             /\ service.owner = ji.uid /\ service \in Ahead(o, s)
  <2>1. service \in VersionsOf("Service")
    BY <1>1, <1>3, <1>7, CachedTyped DEF IInv
  <2>2. service \in Ahead(o, s)
    <3> HIDE DEF s
    <3> QED
      BY <1>1, <1>3, <1>7, CachedAhead
  <2> QED
    BY <1>7, <2>1, <2>2, Kinds DEF Foreign, IsControlledBy
<1>8. CASE /\ Go(o, "check") /\ service # Absent /\ ~Foreign(service, ji)
           /\ SameServiceSpec(copy, service.body)
  <2>1. Suits(service, ji)
    BY <1>1, <1>7, <1>8, CopySuits DEF Suits, SameServiceSpec
  <2>2. Exposed(o, ji)
    BY <1>7, <1>8, <2>1 DEF Exposed
  <2> QED
    BY <1>5, <1>8, <2>2, TurnFacts
<1>9. CASE /\ Go(o, "check") /\ service # Absent /\ ~Foreign(service, ji) /\ Put(s, changed)
  <2>1. PICK v : v = changed
    OBVIOUS
  <2>2. /\ v \in [owner : Uids \cup {NoOwner}, body : Services]
        /\ v.owner = ji.uid /\ v.body = Defaulted(copy)
    BY <1>1, <1>7, <1>9, <2>1, CopyTyped
  <2>3. Suits(v, ji)
    BY <1>1, <1>7, <1>9, <2>2, CopySuits DEF Suits
  <2> QED
    BY <1>5, <1>6, <1>9, <2>1, <2>2, <2>3
<1>10. CASE Go(o, "check") /\ ji.spec.service # Nil /\ Put(s, made)
  <2>1. PICK v : v = made
    OBVIOUS
  <2>2. /\ v \in [owner : Uids \cup {NoOwner}, body : Services]
        /\ v.owner = ji.uid /\ v.body = built
    BY <1>1, <1>10, <2>1, SpecTyped, BuiltSuits DEF Object
  <2>3. Suits(v, ji)
    BY <1>1, <1>10, <2>2, BuiltSuits DEF Suits
  <2> QED
    BY <1>5, <1>6, <1>10, <2>1, <2>2, <2>3
<1>11. CASE Go(o, "check") /\ service = Absent
  BY <1>5, <1>11, TurnFacts
<1> QED
  BY <1>4, <1>8, <1>9, <1>10, <1>11, TurnFacts

(* What answers at the name of a Service that is the instance's own, or was *)
(* when last heard of, is its own Jenkins, or there is news about it.       *)
LEMMA AnswerRuns ==
    ASSUME PInv, NEW o \in Operators, NEW k \in InstanceKeys, NEW ji \in Instances,
           NamedAs(ji.uid, k), Exposed(o, ji), Answers(ServiceKey(ji))
    PROVE  Running(o, ji)
<1> DEFINE s == ServiceKey(ji)
<1>1. IInv /\ s \in Keys /\ s.kind = "Service" /\ s.ns = ji.uid.ns
  BY ChildKeys DEF PInv, OInv, RInv, NamedAs
<1>2. PICK v \in Ahead(o, s) : v.owner = ji.uid
  BY DEF Exposed, Suits
<1>3. PICK u : u = ji.uid
  OBVIOUS
<1>4. Current(s) # Absent /\ Current(s).owner \in up
  <2>1. Version(s) \in 1..Version(s) /\ Current(s) = log[s][Version(s)]
    <3> HIDE DEF s
    <3> QED
      BY <1>1, CurrentVersion
  <2>2. Current(s) # Absent /\ Current(s).owner \in up \cup {NoOwner}
    BY DEF Answers
  <2>3. AskedFor(s, Current(s).owner)
    <3> HIDE DEF s
    <3> QED
      BY <1>1, <2>1, <2>2 DEF PInv, OInv, ServicesAsked
  <2>4. Current(s).owner # NoOwner
    BY <2>3, SentinelsAssumption DEF SentinelsAssumption, AskedFor, NamedAs
  <2> QED
    BY <2>2, <2>4
<1>5. CASE v = Current(s)
  BY <1>2, <1>4, <1>5 DEF Running
<1>6. CASE v # Current(s)
  <2> HIDE DEF s
  <2>1. \E n \in 1..Version(s) : /\ seen[o][s] <= n /\ n < Version(s)
                                 /\ log[s][n] = v /\ v # Absent
    BY <1>1, <1>2, <1>6, SomeAhead
  <2>2. Telling(o, s, u)
    BY <1>1, <1>2, <1>3, <2>1 DEF Telling
  <2> QED
    BY <1>1, <1>3, <2>2 DEF Told, Running
<1> QED
  BY <1>5, <1>6

LEMMA CheckTurn ==
    ASSUME NEW o \in Operators, NEW k \in InstanceKeys, NEW ji, NEW w, Turn(o, k, ji, w),
           CheckReady(o)
    PROVE  RequestFor(k) \in queue'[o] \/ Past(o, k, ji, w, Place(w, k))'
<1>1. ji = ReadInstance(o).body
  BY TurnFacts DEF Turn
<1>2. /\ SetUp(ji) /\ Claimed(o, ji) /\ Deployed(o, ji)
      /\ Exposed(o, ji) \/ Cached(o, ServiceKey(ji)) = Absent
  BY DEF Turn, Past, CheckReady, Reading
<1>3. \/ Requeue(o)
      \/ /\ Go(o, "status") /\ Cached(o, ServiceKey(ji)) # Absent
         /\ Answers(ServiceKey(ji))
  BY <1>1 DEF CheckReady, CheckJenkinsReady, Fail, Pass
<1>4. Go(o, "status") => Place(w, k) = "status"
  BY TurnFacts
<1>5. PInv /\ ji \in Instances /\ NamedAs(ji.uid, k)
  BY TurnFacts DEF Turn
<1>6. Requeue(o) \/ (Exposed(o, ji) /\ Running(o, ji))
  BY <1>2, <1>3, <1>5, AnswerRuns
<1>7. /\ SetUp(ji)' /\ Claimed(o, ji)' /\ Deployed(o, ji)'
      /\ Requeue(o) \/ (Exposed(o, ji)' /\ Running(o, ji)')
  BY <1>2, <1>6, TurnFacts
<1> QED
  BY <1>3, <1>4, <1>7, TurnFacts DEF Past

LEMMA StatusTurn ==
    ASSUME NEW o \in Operators, NEW k \in InstanceKeys, NEW ji, NEW w, Turn(o, k, ji, w),
           UpdateStatus(o)
    PROVE  RequestFor(k) \in queue'[o] \/ Past(o, k, ji, w, Place(w, k))'
<1> DEFINE inst == Cached(o, k)
           ready == [ji EXCEPT !.phase = "Ready"]
           changed == [inst EXCEPT !.body = ready]
<1>1. IInv /\ ji \in Instances /\ NamedAs(ji.uid, k) /\ seen' = seen
      /\ ReadInstance(o) = inst /\ inst # Absent /\ ji = inst.body
  BY TurnFacts DEF Turn
<1>2. SetUp(ji) /\ Claimed(o, ji) /\ Deployed(o, ji) /\ Exposed(o, ji) /\ Running(o, ji)
  BY DEF Turn, Past, UpdateStatus, Reading
<1>3. k \in Keys /\ k.kind = "JenkinsInstance" /\ InstanceKey(ji.uid) = k
  <2>1. InstanceKey(ji.uid) = InstanceKey(RequestFor(k))
    BY <1>1 DEF InstanceKey, Key, NamedAs, RequestFor
  <2> QED
    BY <2>1, RequestKeys DEF InstanceKeys
<1>4. \/ Requeue(o)
      \/ Done(o) /\ ji.phase = "Ready"
      \/ Done(o) /\ Put(k, changed)
  BY <1>1, <1>3 DEF UpdateStatus, Update, Write, JenkinsInstancePhaseReady
<1>5. ASSUME Done(o), Said(o, k)'
      PROVE  Past(o, k, ji, w, Place(w, k))'
  <2>1. Place(w, k) = "idle"
    BY <1>5, TurnFacts
  <2>2. SetUp(ji)' /\ Claimed(o, ji)' /\ Deployed(o, ji)' /\ Exposed(o, ji)' /\ Running(o, ji)'
    BY <1>2, TurnFacts
  <2> QED
    BY <1>5, <2>1, <2>2 DEF Past
<1>6. CASE Done(o) /\ ji.phase = "Ready"
  <2>1. inst \in Ahead(o, k)
    BY <1>1, <1>3, CachedAhead
  <2>2. Said(o, k)
    BY <1>1, <1>6, <2>1 DEF Said
  <2> QED
    BY <1>5, <1>6, <2>2, TurnFacts
<1>7. CASE Done(o) /\ Put(k, changed)
  <2>1. PICK v : v = changed
    OBVIOUS
  <2>2. inst \in VersionsOf("JenkinsInstance")
    BY <1>1, <1>3, CachedTyped DEF IInv
  <2>3. ready \in Instances /\ ready.phase = "Ready"
    BY <1>1 DEF Instances
  <2>4. v \in [owner : Uids \cup {NoOwner}, body : Instances] /\ v.body = ready
    BY <1>1, <2>1, <2>2, <2>3, Kinds
  <2>5. v # Absent
    BY <1>3, <2>4, ObjectThere DEF BodiesOf
  <2>6. v \in Ahead(o, k)'
    BY <1>1, <1>3, <1>7, <2>1, <2>5, PutAhead
  <2> QED
    BY <1>5, <1>7, <2>3, <2>4, <2>6 DEF Said
<1> QED
  BY <1>4, <1>6, <1>7, TurnFacts

-----------------------------------------------------------------------------
(* The promise is kept.                                                     *)

Minded(o, k, w) ==
    \/ RequestFor(k) \in queue[o]
    \/ Past(o, k, Cached(o, k).body, w, Place(w, k))

(* What a replica still has in its cache and is still to mind.              *)
LEMMA MindedBefore ==
    ASSUME PInv, [Next]_vars, NEW o \in Operators, NEW k \in InstanceKeys,
           seen'[o] = seen[o], worker[o].at # "down", Minds(o, k)'
    PROVE  /\ Minds(o, k) /\ Cached(o, k)' = Cached(o, k)
           /\ Cached(o, k).body \in Instances /\ NamedAs(Cached(o, k).body.uid, k)
           /\ Cached(o, k).body.uid \in Live'
<1>1. RInv /\ IInv /\ k \in Keys
  BY DEF PInv, OInv, RInv, InstanceKeys
<1>2. Cached(o, k)' = Cached(o, k)
  BY <1>1, AheadGrows
<1>3. /\ InScope(k.ns) /\ Cached(o, k) # Absent
      /\ Cached(o, k).body.spec.adminSecret # "" /\ Cached(o, k).body.uid \in Live'
  BY <1>2 DEF Minds, InScope
<1>4. /\ Cached(o, k).body \in Instances /\ NamedAs(Cached(o, k).body.uid, k)
      /\ Cached(o, k).body.uid \in Born
  BY <1>1, <1>3, Sees
<1>5. Cached(o, k).body.uid \in Live
  BY <1>1, <1>3, <1>4, LiveBefore
<1> QED
  BY <1>2, <1>3, <1>4, <1>5 DEF Minds

(* As long as a replica does nothing for k, its promise about k stands.     *)
LEMMA PlaceStays ==
    ASSUME Attended, PInv, Lasting', [Next]_vars, NEW o \in Operators, NEW k \in InstanceKeys,
           seen'[o] = seen[o], worker[o].at # "down", Minds(o, k)',
           Past(o, k, Cached(o, k).body, worker[o], Place(worker[o], k)),
           NEW w, w = worker[o] \/ (Place(worker[o], k) = "idle" /\ Place(w, k) = "idle")
    PROVE  Minded(o, k, w)'
<1>1. /\ Cached(o, k)' = Cached(o, k)
      /\ Cached(o, k).body \in Instances /\ NamedAs(Cached(o, k).body.uid, k)
      /\ Cached(o, k).body.uid \in Live'
  BY MindedBefore
<1>2. PICK ji, now, at : /\ ji = Cached(o, k).body /\ now = worker[o]
                         /\ at = Place(worker[o], k)
  OBVIOUS
<1>3. Past(o, k, ji, now, at)'
  BY <1>1, <1>2, PastStays
<1>4. Past(o, k, ji, w, Place(w, k))'
  <2>1. CASE w = now
    <3>1. at = Place(w, k)
      BY <1>2, <2>1
    <3> QED
      BY <1>3, <2>1, <3>1
  <2>2. CASE at = "idle" /\ Place(w, k) = "idle"
    BY <1>3, <2>2 DEF Past
  <2> QED
    BY <1>2, <2>1, <2>2
<1> QED
  BY <1>1, <1>2, <1>4 DEF Minded

(* Others' steps.                                                           *)
LEMMA OthersMind ==
    ASSUME Attended, CInv, Lasting', [Next]_vars, NEW o \in Operators, NEW k \in InstanceKeys,
           seen'[o] = seen[o], worker'[o] = worker[o], queue'[o] = queue[o], Minds(o, k)',
           NEW w, w = worker'[o]
    PROVE  Minded(o, k, w)'
<1>1. worker[o].at # "down"
  BY DEF Minds
<1>2. Minds(o, k) /\ PInv
  BY <1>1, MindedBefore DEF CInv
<1>3. CASE RequestFor(k) \in queue[o]
  BY <1>3 DEF Minded, RequestFor
<1>4. CASE Past(o, k, Cached(o, k).body, worker[o], Place(worker[o], k))
  BY <1>1, <1>2, <1>4, PlaceStays
<1> QED
  BY <1>2, <1>3, <1>4 DEF CInv, Tended

(* A start hears of everything there is.                                    *)
LEMMA StartMinds ==
    ASSUME IInv, NEW o \in Operators, NEW k \in InstanceKeys, Start(o), Minds(o, k)'
    PROVE  RequestFor(k) \in queue'[o]
<1> DEFINE at == [i \in Keys |-> Version(i)]
<1>1. k \in Keys /\ k.kind = "JenkinsInstance"
  BY DEF InstanceKeys
<1>2. /\ seen \in [Operators -> [Keys -> Nat \ {0}]]
      /\ queue \in [Operators -> SUBSET Requests]
  BY DEF IInv, TypeOK
<1>3. log' = log /\ seen'[o] = at /\ queue'[o] = Everything(at)
  BY <1>2 DEF Start, NoCall
<1>4. log[k][at[k]] # Absent
  BY <1>1, <1>3 DEF Minds, Cached
<1>5. InScope(k.ns)
  BY DEF Minds, InScope
<1> HIDE DEF at
<1>6. RequestFor(k) \in RequestsOf(k, at, {log[k][at[k]]})
  BY <1>1, <1>5 DEF RequestsOf
<1> QED
  BY <1>1, <1>3, <1>4, <1>6 DEF Everything

(* So does the watch of k, and what another watch takes from the promise    *)
(* it brings a request for.                                                 *)
LEMMA HearingMinds ==
    ASSUME Attended, CInv, [Next]_vars, NEW o \in Operators, NEW k \in InstanceKeys,
           NEW j \in Keys, Deliver(o, j), Minds(o, k)',
           NEW w, w = worker'[o]
    PROVE  Minded(o, k, w)'
<1>1. PInv /\ RInv /\ IInv /\ k \in Keys /\ k.kind = "JenkinsInstance"
  BY DEF CInv, PInv, OInv, RInv, InstanceKeys
<1>2. worker'[o].at # "down" /\ InScope(k.ns)
  BY DEF Minds, InScope
<1>3. log' = log /\ worker' = worker /\ queue[o] \subseteq queue'[o]
  BY <1>1, <1>2, HeardOf
<1>4. CASE RequestFor(k) \in queue'[o]
  BY <1>4 DEF Minded, RequestFor
<1>5. CASE RequestFor(k) \notin queue'[o]
  <2>1. j # k
    BY <1>1, <1>2, <1>5, HeardOf
  <2>2. Cached(o, k)' = Cached(o, k)
    BY <1>1, <1>2, <2>1, HeardOf
  <2>3. Minds(o, k)
    BY <1>2, <1>3, <2>2 DEF Minds, Live, Current, Version
  <2>4. Cached(o, k).body \in Instances /\ NamedAs(Cached(o, k).body.uid, k)
    BY <1>1, <2>3, Sees DEF Minds
  <2>5. PICK ji, at : ji = Cached(o, k).body /\ at = Place(worker[o], k)
    OBVIOUS
  <2>6. Past(o, k, ji, w, at)
    BY <1>3, <1>5, <2>3, <2>5 DEF CInv, Tended
  <2>7. Past(o, k, ji, w, at)'
    BY <1>1, <1>2, <1>5, <2>1, <2>4, <2>5, <2>6, PastHeard
  <2>8. at = Place(w, k)
    BY <1>3, <2>5
  <2> QED
    BY <2>2, <2>5, <2>7, <2>8 DEF Minded
<1> QED
  BY <1>4, <1>5

(* Unless it begins on a request, a worker stays with its own or drops it.  *)
LEMMA WorkerStays ==
    ASSUME IInv, NEW o \in Operators, Reconcile(o), worker'[o].at # "down"
    PROVE  \/ \E r \in queue[o] : Begin(o, r)
           \/ queue[o] \subseteq queue'[o] /\ worker'[o].req \in {worker[o].req, Nil}
<1> DEFINE Stays == queue[o] \subseteq queue'[o] /\ worker'[o].req \in {worker[o].req, Nil}
<1>1. /\ queue \in [Operators -> SUBSET Requests]
      /\ worker \in [Operators -> WorkerType]
  BY DEF IInv, TypeOK, WorkerType
<1>2. ~Die(o)
  BY <1>1 DEF Die, Resting
<1>3. ASSUME NEW s, NEW h, NEW f, GoWith(o, s, h, f)
      PROVE  Stays
  <2>1. worker'[o] = [at |-> s, req |-> worker[o].req, ji |-> h, found |-> f]
    BY <1>3, GoesOn
  <2> QED
    BY <1>3, <2>1 DEF GoWith
<1>4. \A s : Go(o, s) => Stays
  BY <1>3 DEF Go
<1>5. Done(o) => Stays
  BY <1>1 DEF Done, Resting
<1>6. Requeue(o) => Stays
  BY <1>1 DEF Requeue, Resting
<1>7. ASSUME NEW s, NEW h, NEW t, GoWith(o, s, h, t # Absent)
      PROVE  Stays
  <2>1. PICK f : f = (t # Absent)
    OBVIOUS
  <2> QED
    BY <1>3, <1>7, <2>1
<1>8. ASSUME NEW s, NEW h, GoWith(o, s, h, FALSE)
      PROVE  Stays
  <2>1. PICK f : f = FALSE
    OBVIOUS
  <2> QED
    BY <1>3, <1>8, <2>1
<1> HIDE DEF Stays
<1>9. InstanceGone(o) => Stays
  BY <1>6 DEF InstanceGone, Fail
<1>10. NewSetupConfigMap(o) => Stays
  BY <1>2, <1>4, <1>6 DEF NewSetupConfigMap, Fail, Panic, Pass, Create, Update, Write
<1>11. ReadServiceToRestart(o) => Stays
  BY <1>6, <1>8 DEF ReadServiceToRestart, Fail
<1>12. SafeRestart(o) => Stays
  BY <1>4, <1>6 DEF SafeRestart, SafeRestartJenkins, Fail, Pass
<1>13. NewDeployment(o) => Stays
  BY <1>6, <1>7 DEF NewDeployment, Fail, Create, Write
<1>14. CreateDeployment(o) => Stays
  BY <1>4, <1>6 DEF CreateDeployment, Fail, Pass, Create, Write
<1>15. ReadForService(o) => Stays
  BY <1>8 DEF ReadForService
<1>16. NewService(o) => Stays
  BY <1>2, <1>4, <1>6 DEF NewService, Fail, Pass, Panic, Create, Update, Write
<1>17. CheckReady(o) => Stays
  BY <1>4, <1>6 DEF CheckReady, CheckJenkinsReady, Fail, Pass
<1>18. UpdateStatus(o) => Stays
  BY <1>5, <1>6 DEF UpdateStatus, Update, Write
<1>19. (\E r \in queue[o] : Begin(o, r)) \/ Stays
  BY <1>9, <1>10, <1>11, <1>12, <1>13, <1>14, <1>15, <1>16, <1>17, <1>18 DEF Reconcile
<1> QED
  BY <1>19 DEF Stays

(* A worker leaves the other replicas' queues alone.                        *)
LEMMA OwnQueue ==
    ASSUME queue \in [Operators -> SUBSET Requests], NEW p \in Operators, Reconcile(p),
           NEW o \in Operators, o # p
    PROVE  queue'[o] = queue[o]
<1> DEFINE Mine == queue'[o] = queue[o]
<1>1. \A s, h, f : GoWith(p, s, h, f) => Mine
  BY DEF GoWith
<1>2. \A s : Go(p, s) => Mine
  BY <1>1 DEF Go
<1>3. Done(p) => Mine
  BY DEF Done
<1>4. Requeue(p) => Mine
  BY DEF Requeue
<1>5. Die(p) => Mine
  BY DEF Die
<1>6. \A r : Begin(p, r) => Mine
  BY DEF Begin
<1>7. \A s, h, t : GoWith(p, s, h, t # Absent) => Mine
  BY DEF GoWith
<1>8. \A s, h : GoWith(p, s, h, FALSE) => Mine
  BY DEF GoWith
<1> HIDE DEF Mine
<1>9. InstanceGone(p) => Mine
  BY <1>4 DEF InstanceGone, Fail
<1>10. NewSetupConfigMap(p) => Mine
  BY <1>2, <1>4, <1>5 DEF NewSetupConfigMap, Fail, Panic, Pass, Create, Update, Write
<1>11. ReadServiceToRestart(p) => Mine
  BY <1>4, <1>8 DEF ReadServiceToRestart, Fail
<1>12. SafeRestart(p) => Mine
  BY <1>2, <1>4 DEF SafeRestart, SafeRestartJenkins, Fail, Pass
<1>13. NewDeployment(p) => Mine
  BY <1>4, <1>7 DEF NewDeployment, Fail, Create, Write
<1>14. CreateDeployment(p) => Mine
  BY <1>2, <1>4 DEF CreateDeployment, Fail, Pass, Create, Write
<1>15. ReadForService(p) => Mine
  BY <1>8 DEF ReadForService
<1>16. NewService(p) => Mine
  BY <1>2, <1>4, <1>5 DEF NewService, Fail, Pass, Panic, Create, Update, Write
<1>17. CheckReady(p) => Mine
  BY <1>2, <1>4 DEF CheckReady, CheckJenkinsReady, Fail, Pass
<1>18. UpdateStatus(p) => Mine
  BY <1>3, <1>4 DEF UpdateStatus, Update, Write
<1>19. Mine
  BY <1>6, <1>9, <1>10, <1>11, <1>12, <1>13, <1>14, <1>15, <1>16, <1>17, <1>18 DEF Reconcile
<1> QED
  BY <1>19 DEF Mine

(* Beginning on a request: on the one for k, nothing is seen to yet.        *)
LEMMA BeginMinds ==
    ASSUME Attended, CInv, Lasting', [Next]_vars, NEW o \in Operators, NEW k \in InstanceKeys,
           NEW r \in queue[o], Begin(o, r), Minds(o, k)',
           NEW w, w = worker'[o]
    PROVE  Minded(o, k, w)'
<1>1. PInv /\ IInv /\ seen'[o] = seen[o]
  BY DEF CInv, PInv, OInv, RInv, Begin
<1>2. /\ queue \in [Operators -> SUBSET Requests]
      /\ worker \in [Operators -> WorkerType]
  BY <1>1 DEF IInv, TypeOK, WorkerType
<1>3. worker[o].at = "idle" /\ queue'[o] = queue[o] \ {r} /\ worker[o].at # "down"
  BY <1>2 DEF Begin
<1>4. Minds(o, k) /\ Cached(o, k)' = Cached(o, k)
  BY <1>1, <1>3, MindedBefore
<1>5. \/ w = worker[o] \/ (w.at = "setup" /\ w.req = r)
  <2>1. \/ worker' = worker
        \/ worker' = [worker EXCEPT ![o] = [Resting("setup") EXCEPT !.req = r]]
    BY DEF Begin
  <2>2. [Resting("setup") EXCEPT !.req = r].at = "setup"
        /\ [Resting("setup") EXCEPT !.req = r].req = r
    BY DEF Resting
  <2> QED
    BY <1>2, <2>1, <2>2
<1>6. CASE r = RequestFor(k)
  <2>1. Cached(o, InstanceKey(r)) = Cached(o, k)
    BY <1>6, RequestKeys
  <2>2. worker' = [worker EXCEPT ![o] = [Resting("setup") EXCEPT !.req = r]]
    BY <1>4, <2>1 DEF Begin, Minds
  <2>3. w.at = "setup" /\ w.req = RequestFor(k)
    <3>1. [Resting("setup") EXCEPT !.req = r].at = "setup"
          /\ [Resting("setup") EXCEPT !.req = r].req = r
      BY DEF Resting
    <3> QED
      BY <1>2, <1>6, <2>2, <3>1
  <2>4. Place(w, k) = "setup"
    BY <2>3 DEF Place
  <2> QED
    BY <2>4 DEF Minded, Past
<1>7. CASE r # RequestFor(k)
  <2>1. CASE RequestFor(k) \in queue[o]
    BY <1>3, <1>7, <2>1 DEF Minded, RequestFor
  <2>2. CASE RequestFor(k) \notin queue[o]
    <3>1. Past(o, k, Cached(o, k).body, worker[o], Place(worker[o], k))
      BY <1>4, <2>2 DEF CInv, Tended
    <3>2. w = worker[o] \/ (Place(worker[o], k) = "idle" /\ Place(w, k) = "idle")
      BY <1>3, <1>5, <1>7 DEF Place
    <3> QED
      BY <1>1, <1>3, <3>1, <3>2, PlaceStays
  <2> QED
    BY <2>1, <2>2
<1> QED
  BY <1>6, <1>7

LEMMA WorkMinds ==
    ASSUME Attended, CInv, Lasting', [Next]_vars, NEW o \in Operators, NEW k \in InstanceKeys,
           Reconcile(o), Minds(o, k)',
           NEW w, w = worker'[o]
    PROVE  Minded(o, k, w)'
<1>1. PInv /\ IInv /\ w.at # "down"
  BY DEF CInv, PInv, OInv, RInv, Minds
<1>2. seen' = seen /\ seen'[o] = seen[o]
  BY <1>1, ReconcileSteps DEF ReconcileStep
<1>3. worker[o].at # "down"
  BY DEF Reconcile, Begin, InstanceGone, NewSetupConfigMap, ReadServiceToRestart, SafeRestart,
         NewDeployment, CreateDeployment, ReadForService, NewService, CheckReady,
         UpdateStatus, Reading
<1>4. /\ Minds(o, k) /\ Cached(o, k)' = Cached(o, k)
      /\ Cached(o, k).body.uid \in Live'
  BY <1>1, <1>2, <1>3, MindedBefore
<1>5. CASE \E r \in queue[o] : Begin(o, r)
  BY <1>5, BeginMinds
<1>6. CASE ~\E r \in queue[o] : Begin(o, r)
  <2>1. queue[o] \subseteq queue'[o] /\ w.req \in {worker[o].req, Nil}
    BY <1>1, <1>6, WorkerStays
  <2>2. CASE RequestFor(k) \in queue'[o]
    BY <2>2 DEF Minded, RequestFor
  <2>3. CASE RequestFor(k) \notin queue'[o]
    <3>1. Past(o, k, Cached(o, k).body, worker[o], Place(worker[o], k))
      BY <1>4, <2>1, <2>3 DEF CInv, Tended
    <3>2. CASE worker[o].req # RequestFor(k)
      <4>1. Place(worker[o], k) = "idle" /\ Place(w, k) = "idle"
        BY <2>1, <3>2, RequestKeys DEF Place
      <4> QED
        BY <1>1, <1>2, <1>3, <3>1, <4>1, PlaceStays
    <3>3. CASE worker[o].req = RequestFor(k)
      <4>1. PICK ji : ji = Cached(o, k).body
        OBVIOUS
      <4>2. Turn(o, k, ji, w)
        BY <1>1, <1>2, <1>4, <3>1, <3>3, <4>1 DEF Turn, Minds, Place
      <4>3. ~InstanceGone(o)
        BY <4>2, TurnFacts DEF InstanceGone
      <4>4. Past(o, k, ji, w, Place(w, k))'
        BY <1>6, <2>3, <4>2, <4>3, SetupTurn, RestartTurn, ClaimTurn, DeploymentTurn,
           ReadServiceTurn, ServiceTurn, CheckTurn, StatusTurn DEF Reconcile
      <4> QED
        BY <1>4, <4>1, <4>4 DEF Minded
    <3> QED
      BY <3>2, <3>3
  <2> QED
    BY <2>2, <2>3
<1> QED
  BY <1>5, <1>6

LEMMA TendedKept ==
    ASSUME Attended, CInv, Lasting', [Next]_vars
    PROVE  Tended'
<1> SUFFICES ASSUME NEW o \in Operators, NEW k \in InstanceKeys, Minds(o, k)',
                    NEW w, w = worker'[o]
             PROVE  Minded(o, k, w)'
  <2>1. ASSUME NEW o \in Operators, NEW k \in InstanceKeys, Minds(o, k)'
        PROVE  Minded(o, k, worker[o])'
    <3>1. PICK w : w = worker'[o]
      OBVIOUS
    <3>2. Minded(o, k, w)'
      BY <2>1, <3>1
    <3> QED
      BY <3>1, <3>2 DEF Minded
  <2> QED
    BY <2>1 DEF Tended, Minded, InstanceKeys
<1>1. IInv /\ worker'[o].at # "down"
  BY DEF CInv, PInv, OInv, RInv, Minds
<1>2. /\ seen \in [Operators -> [Keys -> Nat \ {0}]]
      /\ queue \in [Operators -> SUBSET Requests]
      /\ worker \in [Operators -> WorkerType]
  BY <1>1 DEF IInv, TypeOK, WorkerType
<1>3. CASE operatorState' = operatorState
  BY <1>3, OthersMind DEF operatorState
<1>4. ASSUME NEW p \in Operators, Operator(p), p # o
      PROVE  Minded(o, k, w)'
  <2>1. seen'[o] = seen[o] /\ worker'[o] = worker[o] /\ queue'[o] = queue[o]
    <3>1. CASE Reconcile(p)
      <4>1. seen' = seen /\ WorkerStep(p)
        BY <1>1, <3>1, ReconcileSteps DEF ReconcileStep
      <4>2. worker'[o] = worker[o]
        BY <1>2, <1>4, <4>1 DEF WorkerStep
      <4>3. queue'[o] = queue[o]
        BY <1>2, <1>4, <3>1, OwnQueue
      <4> QED
        BY <4>1, <4>2, <4>3
    <3>2. CASE ~Reconcile(p)
      BY <1>2, <1>4, <3>2 DEF Operator, Deliver, Relist, Observe, Crash, Start, Die
    <3> QED
      BY <3>1, <3>2
  <2> QED
    BY <2>1, OthersMind
<1>5. CASE Operator(o)
  <2>1. ~Crash(o)
    BY <1>1, <1>2 DEF Crash, Die, Resting
  <2>2. \A j \in Keys : ~Relist(o, j)
    BY DEF Relist, Attended
  <2>3. Start(o) => Minded(o, k, w)'
    BY <1>1, StartMinds DEF Minded, RequestFor
  <2> QED
    BY <1>5, <2>1, <2>2, <2>3, WorkMinds, HearingMinds DEF Operator
<1>6. operatorState' = operatorState \/ \E p \in Operators : Operator(p)
  BY DEF Next, User, UserCreates, UserEdits, UserDeletes, Cluster, Collect, JenkinsStarts,
         JenkinsStops, JenkinsLost, operatorState, vars
<1> QED
  BY <1>3, <1>4, <1>5, <1>6

-----------------------------------------------------------------------------
(* From the first state to the last.                                        *)

LEMMA InitConverges == Attended /\ Init => CInv
<1> SUFFICES ASSUME Attended, Init
             PROVE  CInv
  OBVIOUS
<1>1. OInv
  BY InitOwners DEF Attended
<1>2. \A k \in Keys : \A i \in 1..Version(k) :
         /\ log[k][i] = Current(k)
         /\ log[k][i] # Absent => k \in DOMAIN Initial /\ log[k][i].owner = NoOwner
  BY DEF Init, Version, Current, Object
<1>3. ClaimsMade
  BY <1>2 DEF ClaimsMade, MadeFor, Attended
<1>4. Lasting
  BY <1>2 DEF Lasting, LastsAs
<1>5. OwnersNear
  BY <1>2 DEF OwnersNear
<1>6. Tended
  BY DEF Tended, Minds, Init, Resting
<1> QED
  BY <1>1, <1>3, <1>4, <1>5, <1>6 DEF CInv, PInv

(* A replica that has caught up has nothing ahead but what is there.        *)
LEMMA CaughtUp ==
    ASSUME IInv, NEW o \in Operators, NEW k \in Keys, UpToDate(o, k), NEW v \in Ahead(o, k)
    PROVE  v = Current(k) /\ Current(k) # Absent
<1>1. seen[o][k] = Version(k) /\ Version(k) \in Nat
  BY CurrentTyped DEF UpToDate
<1> QED
  BY <1>1 DEF Ahead, Current

LEMMA AtRest == Attended /\ CInv => QuiescentConverged /\ ReadyRunsAtRest
<1> SUFFICES ASSUME Attended, CInv, Quiescent, NEW k \in Managed
             PROVE  Complete(Current(k).body) /\ Current(k).body.uid \in up
  BY DEF QuiescentConverged, ReadyRunsAtRest
<1>1. PICK o : o \in Operators
  BY DEF Attended
<1>2. IInv /\ k \in InstanceKeys /\ k \in Keys
  BY DEF CInv, PInv, OInv, RInv, Managed, InstanceKeys
<1>3. /\ worker[o].at = "idle" /\ queue[o] = {}
      /\ \A i \in Keys : UpToDate(o, i)
  BY <1>1 DEF Quiescent
<1>4. Cached(o, k) = Current(k)
  BY <1>2, <1>3 DEF Cached, Current, UpToDate
<1>5. PICK ji : ji = Current(k).body
  OBVIOUS
<1>6. Minds(o, k)
  BY <1>2, <1>3, <1>4, LiveDef DEF Minds, Managed
<1>7. ji \in Instances /\ NamedAs(ji.uid, k)
  BY <1>1, <1>2, <1>4, <1>5, <1>6, Sees DEF Minds
<1>8. Past(o, k, ji, worker[o], "idle")
  <2>1. Place(worker[o], k) = "idle"
    BY <1>3 DEF Place
  <2> QED
    BY <1>1, <1>2, <1>3, <1>4, <1>5, <1>6, <2>1 DEF CInv, Tended
<1>9. /\ SetUp(ji) /\ Claimed(o, ji) /\ Deployed(o, ji) /\ Exposed(o, ji) /\ Said(o, k)
      /\ Running(o, ji)
  BY <1>8 DEF Past
<1>10. \A i \in Keys : \A v \in Ahead(o, i) : v = Current(i) /\ Current(i) # Absent
  BY <1>1, <1>2, <1>3, CaughtUp
<1>11. /\ DeploymentKey(ji) \in Keys /\ ServiceKey(ji) \in Keys
       /\ ji.spec.storage # Nil => ClaimKey(ji) \in Keys
  BY <1>2, <1>7, ChildKeys
<1>12. /\ Owns(ji, SetupKey(ji))
       /\ DOMAIN SetupStringData(ji) \subseteq DOMAIN Current(SetupKey(ji)).body
  BY <1>9 DEF SetUp, Files
<1>13. Owns(ji, DeploymentKey(ji))
  BY <1>9, <1>10, <1>11 DEF Deployed, Owns, IsControlledBy
<1>14. /\ Owns(ji, ServiceKey(ji))
       /\ ji.spec.service # Nil =>
             ji.spec.service.type \in {"", Current(ServiceKey(ji)).body.type}
  BY <1>9, <1>10, <1>11 DEF Exposed, Suits, Owns, IsControlledBy
<1>15. ji.spec.storage # Nil => Current(ClaimKey(ji)) # Absent
  BY <1>9, <1>10, <1>11 DEF Claimed
<1>16. ji.phase = "Ready"
  BY <1>2, <1>5, <1>9, <1>10 DEF Said
<1>17. ~Told(o, ji.uid)
  <2>1. \A j \in Keys : seen[o][j] = Version(j) /\ Version(j) \in Nat
    BY <1>2, <1>3, CurrentTyped DEF UpToDate
  <2> QED
    BY <2>1 DEF Told, Telling
<1>18. ji.uid \in up
  BY <1>9, <1>17 DEF Running
<1> QED
  BY <1>5, <1>12, <1>13, <1>14, <1>15, <1>16, <1>18 DEF Complete

LEMMA Converging == ASSUME Attended PROVE Spec => []CInv
<1>1. Init => CInv
  BY InitConverges
<1>2. CInv /\ [Next]_vars => CInv'
  BY OwnersKept, OwnersNearKept, ClaimsMadeKept, LastingKept, TendedKept
     DEF CInv, PInv, OInv, Attended
<1> QED
  BY <1>1, <1>2, PTL DEF Spec

(* Where no watch breaks silently and nothing goes without an event, the    *)
(* operator is level-based: with any number of replicas, whatever edits,    *)
(* deletions, stale reads, failed or lost calls, crashes and panics there   *)
(* were, and in whatever order, once there is nothing left to do every      *)
(* instance has its ConfigMap, claim, Deployment and Service and says so.   *)
THEOREM LevelBased ==
    ASSUME Attended
    PROVE  Spec => []QuiescentConverged
<1>1. CInv => QuiescentConverged
  BY AtRest
<1> QED
  BY <1>1, Converging, PTL

(* There, too, no loss of a Jenkins passes unnoticed, though the phase is   *)
(* never taken back: once there is nothing left to do, the Jenkins of every *)
(* instance that is said to be Ready runs.                                  *)
THEOREM ReadyRuns ==
    ASSUME Attended
    PROVE  Spec => []ReadyRunsAtRest
<1>1. CInv => ReadyRunsAtRest
  BY AtRest
<1> QED
  BY <1>1, Converging, PTL
===============================================================================
