------------------------- MODULE OwnedObjects_proofs -------------------------
(***************************************************************************)
(* The controller implements OwnedObjects, for all constants.              *)
(*                                                                         *)
(* Any step adds at most one version to the log, and Change says what the  *)
(* version may be.  Numbered gives what the mapping needs beyond IInv: the *)
(* uid of an instance is no newer than the version that carries it, so     *)
(* that the next one made at its key is a new one.                         *)
(***************************************************************************)
EXTENDS JenkinsInstanceController_proofs

(* A version of an instance key holds a user's object with a uid not newer  *)
(* than version n.                                                          *)
NumberedBy(v, n) == v # Absent => /\ v.owner = NoOwner
                                  /\ v.body.uid.gen \in Nat /\ v.body.uid.gen <= n
Numbered == \A k \in InstanceKeys : \A i \in 1..Version(k) : NumberedBy(log[k][i], i)

RInv == IInv /\ Numbered

(* What a new version v of k may be to those who only see owners, uids and  *)
(* phases: made by a user, provided by the operator, changed, or removed.   *)
Made(k, v) ==
    /\ Current(k) = Absent /\ v # Absent /\ Offered[k] # {}
    /\ v.owner = NoOwner
    /\ k \in InstanceKeys => v.body.uid.gen = Version(k) + 1 /\ v.body.phase = ""
Provided(k, v) ==
    /\ Current(k) = Absent /\ v # Absent /\ k \notin InstanceKeys
    /\ v.owner \in Born /\ v.owner.ns = k.ns
Changed(k, v) ==
    /\ Current(k) # Absent /\ v # Absent
    /\ v.owner = Current(k).owner
    /\ k \in InstanceKeys => /\ v.body.uid = Current(k).body.uid
                             /\ v.body.phase \in {Current(k).body.phase, "Ready"}
Removed(k, v) ==
    /\ Current(k) # Absent /\ v = Absent
    /\ k \in Deletable \/ (k \notin InstanceKeys /\ Garbage(k))
Change(k, v) ==
    /\ Appends(k, v) /\ v \in VersionsOf(k.kind) /\ HasHome(k, v)
    /\ Made(k, v) \/ Provided(k, v) \/ Changed(k, v) \/ Removed(k, v)

-----------------------------------------------------------------------------
(* What every step does to the log.                                         *)

LEMMA IncarnationsBorn ==
    ASSUME NEW r, InstanceKey(r) \in Keys
    PROVE  Incarnations(r) \subseteq Born
<1> DEFINE k == InstanceKey(r)
<1>1. k \in InstanceKeys
  BY DEF InstanceKey, InstanceKeys, Key
<1>2. Incarnations(r) = {log[k][i].body.uid : i \in {j \in 1..Version(k) : log[k][j] # Absent}}
  BY DEF Incarnations, Known
<1> QED
  BY <1>1, <1>2 DEF Born

(* An object the operator creates is owned by an instance there has been.   *)
LEMMA MineBorn ==
    ASSUME NEW o \in Operators, NEW u, MineNow(o, u)
    PROVE  u \in Born
BY IncarnationsBorn DEF MineNow

LEMMA PutChanges ==
    ASSUME IInv, NEW k \in Keys, NEW v, Put(k, v), v \in VersionsOf(k.kind), HasHome(k, v),
           Made(k, v) \/ Provided(k, v) \/ Changed(k, v) \/ Removed(k, v)
    PROVE  Change(k, v)
BY PutAppends DEF IInv, Change

(* What is there now has its type and its home, and what it is of instances.*)
LEMMA CurrentTyped ==
    ASSUME IInv, NEW k \in Keys
    PROVE  /\ Current(k) \in VersionsOf(k.kind) /\ HasHome(k, Current(k))
           /\ Version(k) \in Nat \ {0}
           /\ Current(k) # Absent =>
                 /\ Current(k) \in [owner : Uids \cup {NoOwner}, body : BodiesOf(k.kind)]
                 /\ k \in InstanceKeys => Current(k).body \in Instances
<1>1. /\ Current(k) \in VersionsOf(k.kind) /\ Version(k) \in Nat \ {0}
      /\ Current(k) = log[k][Version(k)]
  BY VersionsTyped DEF IInv
<1>2. HasHome(k, Current(k))
  BY <1>1 DEF IInv, AtHome
<1>3. k \in InstanceKeys => BodiesOf(k.kind) = Instances
  BY DEF InstanceKeys, BodiesOf
<1> QED
  BY <1>1, <1>2, <1>3 DEF VersionsOf

LEMMA OperatorChanges ==
    ASSUME IInv, NEW o \in Operators, Operator(o)
    PROVE  log' = log \/ \E k \in Keys : \E v : Change(k, v)
<1>1. CASE log' = log
  BY <1>1
<1>2. CASE log' # log
  <2>1. Reconcile(o)
    BY <1>2 DEF Operator, Deliver, Relist, Observe, Crash, Start, NoCall
  <2>2. LogStep(o)
    BY <2>1, ReconcileSteps DEF ReconcileStep
  <2>3. PICK k \in Keys : \E v : Appends(k, v) /\ WritesWell(o, k, v)
    BY <1>2, <2>2 DEF LogStep
  <2>4. PICK v : Appends(k, v) /\ WritesWell(o, k, v)
    BY <2>3
  <2>5. k.kind = "JenkinsInstance" <=> k \in InstanceKeys
    BY DEF InstanceKeys
  <2>6. CASE Current(k) = Absent
    <3>1. Provided(k, v)
      BY <2>4, <2>5, <2>6, MineBorn DEF WritesWell, Provided
    <3> QED
      BY <2>4, <3>1 DEF WritesWell, Change
  <2>7. CASE Current(k) # Absent
    <3>1. Changed(k, v)
      BY <2>4, <2>5, <2>7 DEF WritesWell, Kept, Changed
    <3> QED
      BY <2>4, <3>1 DEF WritesWell, Change
  <2> QED
    BY <2>6, <2>7
<1> QED
  BY <1>1, <1>2

LEMMA UserChanges ==
    ASSUME IInv, User
    PROVE  \E k \in Keys : \E v : Change(k, v)
<1>1. PICK k \in Keys : \/ \E x \in Offered[k] : UserCreates(k, x) \/ UserEdits(k, x)
                        \/ k \in Deletable /\ UserDeletes(k)
  BY DEF User
<1>2. k \in InstanceKeys <=> k.kind = "JenkinsInstance"
  BY DEF InstanceKeys
<1>3. ASSUME NEW x \in Offered[k], UserCreates(k, x)
      PROVE  \E v : Change(k, v)
  <2> DEFINE v == Object(NoOwner, Submitted(k, x, Version(k) + 1))
  <2>1. Version(k) + 1 \in Nat
    BY CurrentTyped
  <2>2. Submitted(k, x, 1) \in BodiesOf(k.kind)
    BY InputsAssumption DEF InputsAssumption
  <2>3. /\ v \in [owner : Uids \cup {NoOwner}, body : BodiesOf(k.kind)]
        /\ v.owner = NoOwner /\ v.body = Submitted(k, x, Version(k) + 1)
    BY <2>1, <2>2, SubmittedTyped DEF Object
  <2>4. v \in VersionsOf(k.kind) /\ HasHome(k, v)
    BY <2>1, <2>2, <2>3, SubmittedTyped DEF VersionsOf, HasHome
  <2>5. v # Absent
    BY <2>3, SentinelsAssumption DEF SentinelsAssumption
  <2>6. k \in InstanceKeys => /\ v.body.uid.gen = Version(k) + 1 /\ v.body.phase = ""
    <3> SUFFICES ASSUME k.kind = "JenkinsInstance"
                 PROVE  v.body.uid.gen = Version(k) + 1 /\ v.body.phase = ""
      BY <1>2
    <3> DEFINE new == [uid |-> [ns |-> k.ns, name |-> k.name, gen |-> Version(k) + 1],
                       spec |-> x, phase |-> ""]
    <3>1. Submitted(k, x, Version(k) + 1) = new
      BY DEF Submitted
    <3>2. new.uid.gen = Version(k) + 1 /\ new.phase = ""
      OBVIOUS
    <3>3. v.body = new
      BY <2>3, <3>1
    <3> HIDE DEF v, new
    <3> QED
      BY <3>2, <3>3
  <2>7. Current(k) = Absent /\ Put(k, v)
    BY <1>3 DEF UserCreates
  <2> QED
    BY <2>3, <2>4, <2>5, <2>6, <2>7, PutChanges DEF Made
<1>4. ASSUME NEW x \in Offered[k], UserEdits(k, x)
      PROVE  \E v : Change(k, v)
  <2> DEFINE old == Current(k)
             body == Edited(k, old.body, x)
             v == [old EXCEPT !.body = body]
  <2>1. old # Absent /\ Put(k, v)
    BY <1>4 DEF UserEdits
  <2>2. old \in [owner : Uids \cup {NoOwner}, body : BodiesOf(k.kind)] /\ HasHome(k, old)
    BY <2>1, CurrentTyped
  <2>3. /\ body \in BodiesOf(k.kind)
        /\ k.kind = "JenkinsInstance" => body.uid = old.body.uid /\ body.phase = old.body.phase
    BY <1>4, <2>1, <2>2, EditedTyped
  <2>4. /\ v \in [owner : Uids \cup {NoOwner}, body : BodiesOf(k.kind)]
        /\ v.owner = old.owner /\ v.body = body
    BY <2>2, <2>3
  <2>5. v \in VersionsOf(k.kind) /\ v # Absent /\ HasHome(k, v)
    BY <2>1, <2>2, <2>3, <2>4, SentinelsAssumption DEF VersionsOf, HasHome, SentinelsAssumption
  <2> QED
    BY <1>2, <2>1, <2>3, <2>4, <2>5, PutChanges DEF Changed
<1>5. ASSUME k \in Deletable, UserDeletes(k)
      PROVE  Change(k, Absent)
  BY <1>5, AbsentTyped, PutChanges DEF UserDeletes, Removed
<1> QED
  BY <1>1, <1>3, <1>4, <1>5

LEMMA ClusterChanges ==
    ASSUME RInv, Cluster
    PROVE  log' = log \/ \E k \in Keys : \E v : Change(k, v)
<1>1. ASSUME NEW k \in Keys, Collect(k)
      PROVE  Change(k, Absent)
  <2>1. k \notin InstanceKeys
    <3>1. Garbage(k) => Current(k) # Absent /\ Current(k).owner # NoOwner
      BY DEF Garbage
    <3>2. k \in InstanceKeys => NumberedBy(Current(k), Version(k))
      BY CurrentTyped, VersionsTyped DEF RInv, Numbered, IInv
    <3> QED
      BY <1>1, <3>1, <3>2 DEF Collect, NumberedBy
  <2> QED
    BY <1>1, <2>1, AbsentTyped, PutChanges DEF Collect, Removed, Garbage, RInv
<1>2. ASSUME NEW k \in Keys, JenkinsStarts(k) \/ JenkinsLost(k)
      PROVE  Change(k, Current(k))
  <2>1. Current(k) # Absent /\ Put(k, Current(k))
    BY <1>2 DEF JenkinsStarts, JenkinsLost
  <2> QED
    BY <2>1, CurrentTyped, PutChanges DEF Changed, RInv
<1>3. ASSUME NEW u, JenkinsStops(u)
      PROVE  log' = log
  BY <1>3 DEF JenkinsStops
<1> QED
  BY <1>1, <1>2, <1>3 DEF Cluster

LEMMA EveryChange ==
    ASSUME RInv, [Next]_vars
    PROVE  log' = log \/ \E k \in Keys : \E v : Change(k, v)
BY OperatorChanges, UserChanges, ClusterChanges DEF Next, vars, RInv

-----------------------------------------------------------------------------
(* What a change does to what is seen.                                      *)

(* What is there afterwards.                                                *)
LEMMA CurrentChanges ==
    ASSUME IInv, NEW k \in Keys, NEW v, Change(k, v)
    PROVE  /\ Current(k)' = v
           /\ Version(k)' = Version(k) + 1
           /\ log'[k] = Append(log[k], v)
           /\ \A i \in 1..Version(k) : log'[k][i] = log[k][i]
           /\ log'[k][Version(k) + 1] = v
           /\ \A j \in Keys : j # k => log'[j] = log[j] /\ Current(j)' = Current(j)
                                      /\ Version(j)' = Version(j)
<1>1. log = [j \in Keys |-> log[j]] /\ log' = [log EXCEPT ![k] = Append(@, v)]
  BY DEF Change, Appends, IInv, TypeOK
<1>2. log'[k] = Append(log[k], v) /\ \A j \in Keys : j # k => log'[j] = log[j]
  BY <1>1
<1>3. log[k] \in Seq(VersionsOf(k.kind)) /\ v \in VersionsOf(k.kind)
  BY DEF IInv, TypeOK, Change
<1>4. /\ Len(Append(log[k], v)) = Len(log[k]) + 1
      /\ Append(log[k], v)[Len(log[k]) + 1] = v
      /\ \A i \in 1..Len(log[k]) : Append(log[k], v)[i] = log[k][i]
  BY <1>3
<1>5. \A j \in Keys : /\ Version(j) = Len(log[j]) /\ Version(j)' = Len(log'[j])
                      /\ Current(j) = log[j][Len(log[j])]
                      /\ Current(j)' = log'[j][Len(log'[j])]
  BY DEF Version, Current
<1> QED
  BY <1>2, <1>4, <1>5

(* Two instances never have the same identity.                              *)
LEMMA HomesDiffer ==
    ASSUME IInv, NEW j \in InstanceKeys, NEW k \in InstanceKeys, j # k,
           NEW v, HasHome(j, v), v # Absent, NEW w, HasHome(k, w), w # Absent
    PROVE  v.body.uid # w.body.uid
<1>1. /\ j \in [kind : STRING, ns : STRING, name : STRING]
      /\ k \in [kind : STRING, ns : STRING, name : STRING]
      /\ j.kind = "JenkinsInstance" /\ k.kind = "JenkinsInstance"
  BY KeysAssumption DEF KeysAssumption, InstanceKeys
<1>2. j.ns # k.ns \/ j.name # k.name
  BY <1>1
<1> QED
  BY <1>1, <1>2 DEF HasHome

(* Who has been born.                                                       *)
LEMMA BornDef ==
    ASSUME NEW u
    PROVE  u \in Born <=> \E k \in InstanceKeys : \E i \in 1..Version(k) :
                            log[k][i] # Absent /\ u = log[k][i].body.uid
BY DEF Born

LEMMA BornTyped ==
    ASSUME IInv
    PROVE  Born \subseteq Uids
<1> SUFFICES ASSUME NEW k \in InstanceKeys, NEW i \in 1..Version(k), log[k][i] # Absent
             PROVE  log[k][i].body.uid \in Uids
  BY BornDef
<1>1. log[k][i] \in VersionsOf("JenkinsInstance")
  BY VersionsTyped DEF InstanceKeys, IInv
<1> QED
  BY <1>1, Kinds, SpecTyped

LEMMA BornAfter ==
    ASSUME IInv, NEW k \in Keys, NEW v, Change(k, v)
    PROVE  Born' = IF k \in InstanceKeys /\ v # Absent THEN Born \cup {v.body.uid} ELSE Born
<1> DEFINE new == IF k \in InstanceKeys /\ v # Absent THEN {v.body.uid} ELSE {}
           In(u, j, i) == log[j][i] # Absent /\ u = log[j][i].body.uid
<1>1. \A j \in InstanceKeys : j \in Keys /\ Version(j) \in Nat
  BY CurrentTyped DEF InstanceKeys
<1>2. ASSUME NEW u
      PROVE  u \in Born' <=> \E j \in InstanceKeys : \E i \in 1..Version(j)' :
                              log'[j][i] # Absent /\ u = log'[j][i].body.uid
  BY DEF Born
<1>3. ASSUME NEW u
      PROVE  u \in Born' <=> u \in Born \cup new
  <2>1. ASSUME u \in Born
        PROVE  u \in Born'
    <3>1. PICK j \in InstanceKeys : \E i \in 1..Version(j) : In(u, j, i)
      BY <2>1, BornDef
    <3>2. PICK i \in 1..Version(j) : In(u, j, i)
      BY <3>1
    <3>3. i \in 1..Version(j)' /\ log'[j][i] = log[j][i]
      BY <1>1, CurrentChanges
    <3> QED
      BY <1>2, <3>2, <3>3
  <2>2. ASSUME u \in new
        PROVE  u \in Born'
    <3>1. k \in InstanceKeys /\ v # Absent /\ u = v.body.uid
      BY <2>2
    <3>2. Version(k) + 1 \in 1..Version(k)' /\ log'[k][Version(k) + 1] = v
      BY <1>1, <3>1, CurrentChanges
    <3> QED
      BY <1>2, <3>1, <3>2
  <2>3. ASSUME u \in Born'
        PROVE  u \in Born \cup new
    <3>1. PICK j \in InstanceKeys : \E i \in 1..Version(j)' :
             log'[j][i] # Absent /\ u = log'[j][i].body.uid
      BY <1>2, <2>3
    <3>2. PICK i \in 1..Version(j)' : log'[j][i] # Absent /\ u = log'[j][i].body.uid
      BY <3>1
    <3>3. CASE i \in 1..Version(j)
      <4>1. log'[j][i] = log[j][i]
        BY <1>1, <3>3, CurrentChanges
      <4> QED
        BY <3>2, <3>3, <4>1, BornDef
    <3>4. CASE i \notin 1..Version(j)
      <4>1. j = k /\ i = Version(k) + 1
        BY <1>1, <3>4, CurrentChanges
      <4> QED
        BY <3>2, <4>1, CurrentChanges
    <3> QED
      BY <3>3, <3>4
  <2> QED
    BY <2>1, <2>2, <2>3
<1> QED
  BY <1>3

(* Uids are numbered by the versions that brought them.                     *)
LEMMA NumberedKept ==
    ASSUME RInv, [Next]_vars
    PROVE  Numbered'
<1>1. CASE log' = log
  BY <1>1 DEF RInv, Numbered, Version
<1>2. ASSUME NEW k \in Keys, NEW v, Change(k, v)
      PROVE  Numbered'
  <2> SUFFICES ASSUME NEW j \in InstanceKeys, NEW i \in 1..Version(j)'
               PROVE  NumberedBy(log'[j][i], i)
    BY DEF Numbered, NumberedBy
  <2>1. j \in Keys /\ Version(j) \in Nat \ {0} /\ IInv
    BY CurrentTyped DEF InstanceKeys, RInv
  <2>2. CASE i \in 1..Version(j)
    <3>1. log'[j][i] = log[j][i]
      BY <1>2, <2>1, <2>2, CurrentChanges
    <3> QED
      BY <2>2, <3>1 DEF RInv, Numbered
  <2>3. CASE i \notin 1..Version(j)
    <3>1. j = k /\ i = Version(k) + 1 /\ log'[j][i] = v
      BY <1>2, <2>1, <2>3, CurrentChanges
    <3>2. NumberedBy(Current(k), Version(k))
      BY <2>1, <3>1, VersionsTyped DEF RInv, Numbered, IInv
    <3>3. k \in InstanceKeys /\ Version(k) \in Nat
      BY <2>1, <3>1
    <3>4. CASE Made(k, v)
      <4>1. v.owner = NoOwner /\ v.body.uid.gen = Version(k) + 1
        BY <3>3, <3>4 DEF Made
      <4> DEFINE g == v.body.uid.gen
      <4>2. g = Version(k) + 1
        BY <4>1
      <4> HIDE DEF g
      <4>3. g \in Nat /\ g <= Version(k) + 1
        BY <3>3, <4>2
      <4>4. v.body.uid.gen \in Nat /\ v.body.uid.gen <= Version(k) + 1
        BY <4>3 DEF g
      <4> QED
        BY <3>1, <4>1, <4>4 DEF NumberedBy
    <3>5. CASE Changed(k, v)
      <4> DEFINE g == Current(k).body.uid.gen
      <4>1. /\ v.owner = Current(k).owner /\ v.body.uid.gen = g
            /\ Current(k).owner = NoOwner /\ g \in Nat /\ g <= Version(k)
        BY <3>2, <3>3, <3>5 DEF Changed, NumberedBy
      <4> HIDE DEF g
      <4>2. g <= Version(k) + 1
        BY <3>3, <4>1
      <4> QED
        BY <3>1, <4>1, <4>2 DEF NumberedBy
    <3>6. CASE Provided(k, v) \/ Removed(k, v)
      BY <3>1, <3>3, <3>6 DEF Provided, Removed, NumberedBy
    <3> QED
      BY <1>2, <3>4, <3>5, <3>6 DEF Change
  <2> QED
    BY <2>2, <2>3
<1> QED
  BY <1>1, <1>2, EveryChange

LEMMA InitNumbered == Init => Numbered
<1> SUFFICES ASSUME Init, NEW k \in InstanceKeys
             PROVE  \A i \in 1..Version(k) : NumberedBy(log[k][i], i)
  BY DEF Numbered
<1>1. k \in Keys /\ k.kind = "JenkinsInstance"
  BY DEF InstanceKeys
<1>2. CASE k \notin DOMAIN Initial
  BY <1>1, <1>2 DEF Init, Version, NumberedBy
<1>3. CASE k \in DOMAIN Initial
  <2> DEFINE x == Initial[k]
  <2>1. log[k] = <<Object(NoOwner, Submitted(k, x, 1))>>
    BY <1>1, <1>3 DEF Init
  <2> DEFINE body == [uid |-> [ns |-> k.ns, name |-> k.name, gen |-> 1], spec |-> x, phase |-> ""]
             v == [owner |-> NoOwner, body |-> body]
  <2>2. log[k] = <<v>>
    BY <1>1, <2>1 DEF Submitted, Object
  <2>3. v.owner = NoOwner /\ v.body.uid.gen = 1
    OBVIOUS
  <2> HIDE DEF v
  <2>4. Version(k) = 1 /\ log[k][1] = v
    BY <2>2 DEF Version
  <2> QED
    BY <2>3, <2>4 DEF NumberedBy
<1> QED
  BY <1>2, <1>3

LEMMA RInvariance == Spec => []RInv
<1>1. Init => RInv
  BY InitHolds, InitNumbered DEF RInv
<1>2. RInv /\ [Next]_vars => RInv'
  BY NextKeeps, NumberedKept DEF RInv
<1> QED
  BY <1>1, <1>2, PTL DEF Spec

-----------------------------------------------------------------------------
(* Every step maps to a step of OwnedObjects, or to none.                   *)

present == [k \in InstanceKeys |-> PresentAt(k)]
owner == [k \in ObjectKeys |-> OwnerAt(k)]

(* What is seen of an object key, or of an instance key, after a change.    *)
LEMMA SeenAfter ==
    ASSUME IInv, NEW k \in Keys, NEW v, Change(k, v)
    PROVE  /\ k \in ObjectKeys =>
                 /\ owner' = [owner EXCEPT ![k] = IF v = Absent THEN Absent ELSE v.owner]
                 /\ UNCHANGED <<present, Born>>
           /\ k \in InstanceKeys =>
                 /\ present' = [present EXCEPT ![k] = IF v = Absent THEN Absent ELSE v.body.uid]
                 /\ UNCHANGED owner
<1>1. \A j \in Keys : j # k => Current(j)' = Current(j)
  BY CurrentChanges
<1>2. Current(k)' = v
  BY CurrentChanges
<1>3. owner' = [j \in ObjectKeys |-> OwnerAt(j)'] /\ present' = [j \in InstanceKeys |-> PresentAt(j)']
  BY DEF owner, present, ObjectKeys, InstanceKeys
<1>4. InstanceKeys \subseteq Keys /\ ObjectKeys \subseteq Keys /\ ObjectKeys \cap InstanceKeys = {}
  BY DEF InstanceKeys, ObjectKeys
<1>5. \A j \in Keys : /\ OwnerAt(j)' = IF Current(j)' = Absent THEN Absent ELSE Current(j)'.owner
                      /\ PresentAt(j)' = IF Current(j)' = Absent THEN Absent ELSE Current(j)'.body.uid
  BY DEF OwnerAt, PresentAt
<1>6. ASSUME k \in ObjectKeys
      PROVE  /\ owner' = [owner EXCEPT ![k] = IF v = Absent THEN Absent ELSE v.owner]
             /\ UNCHANGED <<present, Born>>
  <2>1. owner' = [owner EXCEPT ![k] = IF v = Absent THEN Absent ELSE v.owner]
    BY <1>1, <1>2, <1>3, <1>4, <1>5, <1>6 DEF owner, OwnerAt
  <2>2. \A j \in InstanceKeys : Current(j)' = Current(j)
    BY <1>1, <1>4, <1>6
  <2>3. present' = present
    BY <1>3, <1>4, <1>5, <2>2 DEF present, PresentAt
  <2>4. Born' = Born
    BY <1>4, <1>6, BornAfter
  <2> QED
    BY <2>1, <2>3, <2>4
<1>7. ASSUME k \in InstanceKeys
      PROVE  /\ present' = [present EXCEPT ![k] = IF v = Absent THEN Absent ELSE v.body.uid]
             /\ UNCHANGED owner
  <2>1. present' = [present EXCEPT ![k] = IF v = Absent THEN Absent ELSE v.body.uid]
    BY <1>1, <1>2, <1>3, <1>4, <1>5, <1>7 DEF present, PresentAt
  <2>2. \A j \in ObjectKeys : Current(j)' = Current(j)
    BY <1>1, <1>4, <1>7
  <2> QED
    BY <1>3, <1>4, <1>5, <2>1, <2>2 DEF owner, OwnerAt
<1> QED
  BY <1>6, <1>7

(* The instances that are there, as they are seen.                          *)
LEMMA LiveSeen == RInv => Owned!Live = Live
<1> SUFFICES ASSUME RInv
             PROVE  Owned!Live = Live
  OBVIOUS
<1>1. \A k \in InstanceKeys : Current(k) # Absent => Current(k).body.uid # Absent
  <2> SUFFICES ASSUME NEW k \in InstanceKeys, Current(k) # Absent
               PROVE  Current(k).body.uid # Absent
    OBVIOUS
  <2>1. Current(k).body \in Instances
    BY CurrentTyped DEF InstanceKeys, RInv
  <2>2. Current(k).body.uid \in Uids
    BY <2>1, SpecTyped
  <2> QED
    BY <2>2, SentinelsAssumption DEF SentinelsAssumption
<1> QED
  BY <1>1 DEF Owned!Live, Live, PresentAt

(* A version of an object key is a step for its owner.                      *)
LEMMA ObjectStep ==
    ASSUME RInv, NEW k \in ObjectKeys, NEW v, Change(k, v)
    PROVE  [Owned!Next]_(Owned!vars)
<1>1. k \in Keys /\ k \notin InstanceKeys /\ IInv
  BY DEF ObjectKeys, RInv
<1>2. /\ owner' = [owner EXCEPT ![k] = IF v = Absent THEN Absent ELSE v.owner]
      /\ UNCHANGED <<present, Born>>
  BY <1>1, SeenAfter
<1>3. owner[k] = IF Current(k) = Absent THEN Absent ELSE Current(k).owner
  BY DEF owner, OwnerAt
<1>4. Current(k) # Absent => Current(k).owner \in Uids \cup {NoOwner}
  BY <1>1, CurrentTyped
<1>5. Absent \notin Uids \cup {NoOwner}
  BY SentinelsAssumption DEF SentinelsAssumption
<1>6. CASE Made(k, v)
  <2>1. Owned!Submit(k)
    BY <1>1, <1>2, <1>3, <1>6 DEF Owned!Submit, Made, UserKeys, owner, present, ObjectKeys
  <2> QED
    BY <2>1 DEF Owned!Next, ObjectKeys
<1>7. CASE Provided(k, v)
  <2>1. owner'[k] = v.owner /\ v.owner # Absent
    BY <1>1, <1>2, <1>7, BornTyped, <1>5 DEF Provided, owner
  <2>2. Owned!Provide(k)
    BY <1>1, <1>2, <1>3, <1>7, <2>1 DEF Owned!Provide, Provided, owner, present, ObjectKeys
  <2> QED
    BY <2>2 DEF Owned!Next, ObjectKeys
<1>8. CASE Changed(k, v)
  <2>1. owner' = owner
    BY <1>2, <1>3, <1>8 DEF Changed, owner
  <2> QED
    BY <1>2, <2>1 DEF Owned!vars, owner, present, ObjectKeys
<1>9. CASE Removed(k, v)
  <2>1. Owned!Live = Live
    BY LiveSeen
  <2>2. owner'[k] = Absent
    BY <1>2, <1>9 DEF Removed, owner
  <2>3. Owned!Remove(k)
    BY <1>1, <1>2, <1>3, <1>4, <1>5, <1>9, <2>1, <2>2
       DEF Owned!Remove, Removed, Garbage, owner, present, ObjectKeys
  <2> QED
    BY <2>3 DEF Owned!Next, ObjectKeys
<1> QED
  BY <1>6, <1>7, <1>8, <1>9 DEF Change

(* An instance made at a key gets an identity no instance has had.          *)
LEMMA MadeFresh ==
    ASSUME RInv, NEW k \in InstanceKeys, NEW v, Change(k, v), Made(k, v)
    PROVE  v.body.uid \in Uids \ Born /\ v.body.uid.ns = k.ns /\ v.body.uid.name = k.name
<1> DEFINE u == v.body.uid
<1>1. k \in Keys /\ k.kind = "JenkinsInstance" /\ IInv
  BY DEF InstanceKeys, RInv
<1>2. v # Absent /\ HasHome(k, v) /\ v \in VersionsOf(k.kind) /\ u.gen = Version(k) + 1
  BY DEF Made, Change
<1>3. u \in Uids
  <2>1. v.body \in Instances
    BY <1>1, <1>2, Kinds
  <2> QED
    BY <2>1, SpecTyped
<1>4. u.ns = k.ns /\ u.name = k.name
  BY <1>1, <1>2 DEF HasHome
<1>5. ASSUME u \in Born
      PROVE  FALSE
  <2>1. PICK j \in InstanceKeys : \E i \in 1..Version(j) :
           log[j][i] # Absent /\ u = log[j][i].body.uid
    BY <1>5, BornDef
  <2>2. PICK i \in 1..Version(j) : log[j][i] # Absent /\ u = log[j][i].body.uid
    BY <2>1
  <2>3. j \in Keys /\ Version(j) \in Nat
    BY <1>1, CurrentTyped DEF InstanceKeys
  <2>4. CASE j # k
    <3>1. HasHome(j, log[j][i])
      BY <1>1, <2>3 DEF IInv, AtHome
    <3> QED
      BY <1>1, <1>2, <2>2, <2>4, <3>1, HomesDiffer
  <2>5. CASE j = k
    <3> DEFINE g == u.gen
    <3>1. g \in Nat /\ g <= i /\ g = Version(k) + 1
      BY <1>2, <2>2 DEF RInv, Numbered, NumberedBy
    <3> HIDE DEF g
    <3> QED
      BY <2>3, <2>5, <3>1
  <2> QED
    BY <2>4, <2>5
<1> QED
  BY <1>3, <1>4, <1>5

(* An instance that is there has been born.                                 *)
LEMMA CurrentSeen ==
    ASSUME IInv, NEW k \in InstanceKeys, Current(k) # Absent
    PROVE  /\ Current(k).body.uid \in Born
           /\ Current(k).body.uid \in Uids
<1>1. k \in Keys /\ InstanceKeys \subseteq Keys
  BY DEF InstanceKeys
<1>2. Current(k).body.uid \in Born
  BY <1>1, CurrentTyped, VersionsTyped, BornDef DEF IInv
<1>3. Current(k).body.uid \in Uids
  BY <1>1, CurrentTyped, SpecTyped
<1> QED
  BY <1>2, <1>3

(* A version of an instance key is a step of that instance's life.          *)
LEMMA InstanceStep ==
    ASSUME RInv, NEW k \in InstanceKeys, NEW v, Change(k, v)
    PROVE  [Owned!Next]_(Owned!vars)
<1> DEFINE u == IF v = Absent THEN Absent ELSE v.body.uid
<1>1. k \in Keys /\ IInv
  BY DEF InstanceKeys, RInv
<1>2. present' = [present EXCEPT ![k] = u] /\ owner' = owner
  BY <1>1, SeenAfter
<1>3. present[k] = IF Current(k) = Absent THEN Absent ELSE Current(k).body.uid
  BY DEF present, PresentAt
<1>4. Born' = IF v = Absent THEN Born ELSE Born \cup {u}
  BY <1>1, BornAfter
<1>5. Current(k) # Absent => /\ Current(k).body.uid \in Born
                             /\ Current(k).body.uid # Absent
  BY <1>1, CurrentSeen, SentinelsAssumption DEF SentinelsAssumption
<1>6. present'[k] = u
  BY <1>2 DEF present
<1>7. CASE Made(k, v)
  <2>1. Current(k) = Absent /\ v # Absent /\ k \in UserKeys
    BY <1>1, <1>7 DEF Made, UserKeys
  <2>2. Born' = Born \cup {u} /\ present[k] = Absent
    BY <1>3, <1>4, <2>1
  <2>3. Owned!FreshAt(k, u)
    BY <1>7, <2>1, MadeFresh DEF Owned!FreshAt
  <2>4. Owned!Bear(k)
    BY <1>2, <1>6, <2>1, <2>2, <2>3 DEF Owned!Bear, present, owner, ObjectKeys
  <2> QED
    BY <2>4 DEF Owned!Next
<1>8. CASE Changed(k, v)
  <2>1. Current(k) # Absent /\ v # Absent /\ u = Current(k).body.uid
    BY <1>8 DEF Changed
  <2>2. present[k] = u /\ Born' = Born
    BY <1>3, <1>4, <1>5, <2>1
  <2>3. present' = present
    BY <1>2, <2>2 DEF present
  <2> QED
    BY <1>2, <2>2, <2>3 DEF Owned!vars, present, owner, ObjectKeys
<1>9. CASE Removed(k, v)
  <2>1. Current(k) # Absent /\ v = Absent /\ k \in Deletable
    BY <1>9 DEF Removed
  <2>2. Born' = Born /\ present[k] # Absent
    BY <1>3, <1>4, <1>5, <2>1
  <2>3. Owned!Bury(k)
    BY <1>2, <2>1, <2>2 DEF Owned!Bury, present, owner, ObjectKeys
  <2> QED
    BY <2>3 DEF Owned!Next
<1>10. ~Provided(k, v)
  BY DEF Provided
<1> QED
  BY <1>7, <1>8, <1>9, <1>10 DEF Change

LEMMA StepMaps ==
    ASSUME RInv, [Next]_vars
    PROVE  [Owned!Next]_(Owned!vars)
<1>1. CASE log' = log
  BY <1>1 DEF Owned!vars, PresentAt, OwnerAt, Born, Current, Version
<1>2. ASSUME NEW k \in Keys, NEW v, Change(k, v)
      PROVE  [Owned!Next]_(Owned!vars)
  BY <1>2, ObjectStep, InstanceStep DEF ObjectKeys
<1> QED
  BY <1>1, <1>2, EveryChange

LEMMA InitMaps == Init => Owned!Init
<1> SUFFICES ASSUME Init
             PROVE  Owned!Init
  OBVIOUS
<1>1. RInv
  BY InitHolds, InitNumbered DEF RInv
<1>2. \A k \in Keys : Version(k) = 1 /\ Current(k) = log[k][1]
  BY DEF Init, Version, Current
<1>3. \A k \in InstanceKeys : Current(k) # Absent =>
         /\ Current(k).body.uid \in Uids
         /\ Current(k).body.uid.ns = k.ns /\ Current(k).body.uid.name = k.name
  BY <1>1, CurrentSeen, CurrentTyped DEF InstanceKeys, RInv, HasHome
<1>4. \A k \in Keys : Current(k) # Absent => Current(k).owner = NoOwner
  BY <1>2 DEF Init, Object
<1>5. Born = Live
  <2>1. \A k \in InstanceKeys : k \in Keys
    BY DEF InstanceKeys
  <2> QED
    BY <1>2, <2>1 DEF Born, Live
<1>6. present \in [InstanceKeys -> Uids \cup {Absent}]
  BY <1>3 DEF present, PresentAt
<1>7. owner \in [ObjectKeys -> {NoOwner, Absent}]
  BY <1>4 DEF owner, OwnerAt, ObjectKeys
<1>8. \A k \in InstanceKeys : PresentAt(k) # Absent =>
          PresentAt(k).ns = k.ns /\ PresentAt(k).name = k.name
  BY <1>3 DEF PresentAt
<1> QED
  BY <1>1, <1>5, <1>6, <1>7, <1>8, LiveSeen DEF Owned!Init, present, owner, ObjectKeys

(* The controller, with any number of replicas that crash, lag and lose     *)
(* calls, implements the one-step owner of objects that users rely on:      *)
(* nothing changes hands, nothing is made for an instance that never was,   *)
(* no instance is made or removed by the operator.                          *)
THEOREM Refinement == Spec => ImplementsOwnedObjects
BY InitMaps, StepMaps, RInvariance, PTL DEF Spec, Owned!Spec, ImplementsOwnedObjects
=============================================================================
