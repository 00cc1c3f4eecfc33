---------------------- MODULE JenkinsInstanceController ----------------------
(***************************************************************************)
(* The JenkinsInstance controller, its informer cache and work queue, the  *)
(* API server it writes to, the garbage collector, the Jenkins pods and    *)
(* the users who edit the cluster.                                         *)
(*                                                                         *)
(* Reads of the controller are served by the cache, writes go to the API   *)
(* server.  log[k] is every version the API server ever held at key k, so  *)
(* an index into it is a resourceVersion; seen[o][k] is the version in the *)
(* cache of operator replica o, which trails the log.                      *)
(*                                                                         *)
(* One step of a replica runs from one read of the instance to the next,   *)
(* or from one API write or HTTP exchange to the next.  A write is decided *)
(* on cached versions; taking the read and the write it leads to in one    *)
(* step loses nothing, because the cache may lag the log by any amount.    *)
(***************************************************************************)
EXTENDS Naturals, FiniteSets, SetupData

CONSTANTS
    Operators,         \* replicas of the operator process; none is elected leader
    Keys,              \* the API objects considered: [kind, ns, name]
    Specs,             \* the JenkinsInstance specs users may submit
    Offered,           \* Offered[k]: what users may submit at key k
    Initial,           \* a function from keys to what is there at the start
    Deletable,         \* the keys users may delete
    WatchedNamespaces, \* the --namespace flag; {} when it is not set
    WatchBreaks,       \* whether a watch may break and be replaced by a list
    AutoNodePort,      \* the node port the API server allocates
    MaxEdits,          \* bound: user edits
    MaxFaults,         \* bound: failed or lost calls, crashes and pod losses
    MaxVersion,        \* bound: versions of one key
    MaxBehind,         \* bound: keys a running replica's cache is behind on at once
    Nil, Absent, NoOwner

VARIABLES
    log,     \* API server: the versions of every key
    seen,    \* the version of every key each replica's cache holds
    queue,   \* each replica's work queue; a set, because the queue deduplicates
    worker,  \* each replica's one worker: where it is in Reconcile, and its locals
    up,      \* uids of the instances whose Jenkins answers
    served,  \* uids of the instances whose Jenkins has ever answered
    stale,   \* uids in up whose Jenkins runs with setup data replaced since
    edits, faults

vars == <<log, seen, queue, worker, up, served, stale, edits, faults>>
world == <<up, served, edits>>

-----------------------------------------------------------------------------
(* Objects and keys.                                                        *)

JenkinsInstancePhaseReady == "Ready"

Key(kind, ns, name) == [kind |-> kind, ns |-> ns, name |-> name]
Requests == [ns : STRING, name : STRING]
Uids == [ns : STRING, name : STRING, gen : Nat]
Instances == [uid : Uids, spec : Specs, phase : {"", "Ready"}]
Templates == [image : STRING, account : STRING, claim : STRING,
              cascSecret : STRING, groovySecret : STRING, groovyKeys : SUBSET DataKeys,
              casc : STRING, cascKeys : SUBSET DataKeys]
Services == [type : STRING, nodePort : Nat, annotations : STRING]

BodiesOf(kind) == CASE kind = "JenkinsInstance" -> Instances
                    [] kind = "Deployment" -> Templates
                    [] kind = "Service" -> Services
                    [] kind \in {"ConfigMap", "Secret"} -> DataMaps
                    [] OTHER -> {Nil}

(* Mutant: SetControllerReference is left out.                              *)
Ownerless(owner, body) == [owner |-> NoOwner, body |-> body]

(* What is stored: a body under its controller reference.                   *)
Object(owner, body) == [owner |-> owner, body |-> body]
VersionsOf(kind) ==
    [owner : Uids \cup {NoOwner}, body : BodiesOf(kind)] \cup {Absent}

InstanceKeys == {k \in Keys : k.kind = "JenkinsInstance"}
InstanceKey(r) == Key("JenkinsInstance", r.ns, r.name)
SetupKey(ji) == Key("ConfigMap", ji.uid.ns, ji.uid.name)
DeploymentKey(ji) == Key("Deployment", ji.uid.ns, ji.uid.name)
AdminSecretKey(ji) == Key("Secret", ji.uid.ns, ji.spec.adminSecret)
ServiceKey(ji) ==
    Key("Service", ji.uid.ns,
        IF ji.spec.service # Nil /\ ji.spec.service.name # "" THEN ji.spec.service.name
                                                              ELSE ji.uid.name)
ClaimName(ji) == IF ji.spec.storage.pvc # "" THEN ji.spec.storage.pvc ELSE ji.uid.name
ClaimKey(ji) == Key("PersistentVolumeClaim", ji.uid.ns, ClaimName(ji))

(* What the API server stores when x is submitted at key k as version n.    *)
(* A spec becomes a new instance with a fresh uid; a Service gets the       *)
(* defaults of its type.                                                    *)
Exposing(type) == type \in {"NodePort", "LoadBalancer"}
Defaulted(svc) ==
    LET type == IF svc.type = "" THEN "ClusterIP" ELSE svc.type
        allocate == Exposing(type) /\ svc.nodePort = 0
    IN  [type |-> type, annotations |-> svc.annotations,
         nodePort |-> IF allocate THEN AutoNodePort ELSE svc.nodePort]
Submitted(k, x, n) ==
    CASE k.kind = "JenkinsInstance" ->
            [uid |-> [ns |-> k.ns, name |-> k.name, gen |-> n], spec |-> x, phase |-> ""]
      [] k.kind = "Service" -> Defaulted(x)
      [] OTHER -> x

Version(k) == Len(log[k])
Current(k) == IF k \in Keys THEN log[k][Version(k)] ELSE Absent
Cached(o, k) == IF k \in Keys THEN log[k][seen[o][k]] ELSE Absent
UpToDate(o, k) == seen[o][k] = Version(k)
IsControlledBy(object, ji) == object.owner = ji.uid
Owns(ji, k) == Current(k) # Absent /\ IsControlledBy(Current(k), ji)

(* Uids of the instances the API server holds now. *)
Live == {Current(k).body.uid : k \in {j \in InstanceKeys : Current(j) # Absent}}

-----------------------------------------------------------------------------
(* Assumptions on the constants.                                            *)

ASSUME KeysAssumption ==
    /\ Keys \subseteq [kind : STRING, ns : STRING, name : STRING]
    /\ \A k \in InstanceKeys, s \in Specs :
          LET ji == Submitted(k, s, 1)
          IN  /\ {SetupKey(ji), DeploymentKey(ji), ServiceKey(ji)} \subseteq Keys
              /\ s.storage # Nil => ClaimKey(ji) \in Keys

ASSUME SpecsAssumption ==
    \A s \in Specs :
       /\ {s.adminSecret, s.image, s.account, s.cascSecret, s.groovySecret} \subseteq STRING
       /\ s.plugins \in PluginSpecs
       /\ s.casc \in [configMap : STRING, configString : Texts \cup {""}] \cup {Nil}
       /\ s.service \in {Nil} \cup
             [name : STRING, type : STRING, nodePort : Nat, annotations : STRING]
       /\ s.storage \in [pvc : STRING, create : BOOLEAN] \cup {Nil}

ASSUME InputsAssumption ==
    /\ DOMAIN Offered = Keys
    /\ DOMAIN Initial \subseteq Keys
    /\ \A k \in Keys : \A x \in Offered[k] \cup {Initial[j] : j \in DOMAIN Initial \cap {k}} :
          Submitted(k, x, 1) \in BodiesOf(k.kind)
    /\ WatchBreaks \in BOOLEAN
    /\ AutoNodePort \in Nat \ {0}
    /\ {MaxEdits, MaxFaults, MaxVersion, MaxBehind} \subseteq Nat

(* String literals are strings, which the provers have to be told.          *)
ASSUME LiteralsAssumption == {"", "ClusterIP"} \subseteq STRING

(* Nothing the API server holds is taken for the lack of something.         *)
ASSUME SentinelsAssumption ==
    /\ Nil \notin Requests \cup Instances
    /\ NoOwner \notin Uids
    /\ Absent \notin Uids \cup {NoOwner}
    /\ \A kind \in {k.kind : k \in Keys} :
          Absent \notin [owner : Uids \cup {NoOwner}, body : BodiesOf(kind)]

-----------------------------------------------------------------------------
(* Events.  A watch delivers a new version of k to the handlers if the       *)
(* predicate lets its namespace through.                                     *)

InScope(ns) == WatchedNamespaces = {} \/ ns \in WatchedNamespaces

RequestFor(x) == [ns |-> x.ns, name |-> x.name]

(* EnqueueRequestForOwner, for the old and the new object of the event. *)
OwnerRequests(versions) == {RequestFor(v.owner) : v \in
                              {w \in versions : w # Absent /\ w.owner # NoOwner}}

(* The instances a replica whose cache is at `at` lists, in any namespace. *)
Listed(at) == {v.body : v \in {log[k][at[k]] : k \in InstanceKeys} \ {Absent}}

(* The map function of the ConfigMap watch dereferences spec.cascConfig of  *)
(* every instance it lists.                                                 *)
MapPanics(k, at) == /\ k.kind = "ConfigMap" /\ InScope(k.ns)
                    /\ \E ji \in Listed(at) : ji.spec.casc = Nil
CascRequests(k, at) == {RequestFor(ji.uid) : ji \in
                          {i \in Listed(at) : i.spec.casc.configMap = k.name}}

(* What is queued when the cache moves to `at` and versions of k are seen.  *)
RequestsOf(k, at, versions) ==
    IF ~InScope(k.ns) THEN {}
    ELSE CASE k.kind = "JenkinsInstance" -> {RequestFor(k)}
           [] k.kind = "ConfigMap" -> CascRequests(k, at)
           [] k.kind \in {"Deployment", "PersistentVolumeClaim", "Secret", "Service"} ->
                OwnerRequests(versions)
           [] OTHER -> {}

(* A create event for every object there is: what a start of the operator  *)
(* brings.                                                                  *)
Everything(at) == UNION {RequestsOf(k, at, {log[k][at[k]]}) :
                            k \in {j \in Keys : log[j][at[j]] # Absent}}

-----------------------------------------------------------------------------
(* The worker of a replica.  `ji` is the instance a function of the         *)
(* controller holds across one of its own steps, `found` whether            *)
(* newDeployment read a Deployment.                                         *)

Steps == {"idle", "down", "setup", "restart", "post", "deploy", "template",
          "service", "expose", "check", "status"}
Resting(step) == [at |-> step, req |-> Nil, ji |-> Nil, found |-> FALSE]

GoWith(o, step, ji, found) ==
    /\ worker' = [worker EXCEPT ![o] =
                     [at |-> step, req |-> @.req, ji |-> ji, found |-> found]]
    /\ UNCHANGED queue
Go(o, step) == GoWith(o, step, Nil, FALSE)

(* Mutant: an error ends the request like a success.                        *)
ForgetRequest(o) == worker' = [worker EXCEPT ![o] = Resting("idle")] /\ UNCHANGED queue

(* Reconcile returns: nil drops the request, an error puts it back.         *)
Done(o) == worker' = [worker EXCEPT ![o] = Resting("idle")] /\ UNCHANGED queue
Requeue(o) == /\ worker' = [worker EXCEPT ![o] = Resting("idle")]
              /\ queue' = [queue EXCEPT ![o] = @ \cup {worker[o].req}]

(* Nothing recovers a panic: the process dies, and with it its queue.       *)
Die(o) == /\ worker' = [worker EXCEPT ![o] = Resting("down")]
          /\ queue' = [queue EXCEPT ![o] = {}]

NoCall == UNCHANGED <<log, faults>>
(* Mutant: an error found in the cache is absorbed, as that of a missing    *)
(* AdminSecret name is.                                                     *)
Absorb(o) == Done(o) /\ NoCall

Pass(o, step) == Go(o, step) /\ NoCall
Fail(o) == Requeue(o) /\ NoCall
Panic(o) == Die(o) /\ NoCall

-----------------------------------------------------------------------------
(* Calls.  Any call may fail; one that fails may still have been carried    *)
(* out, its answer lost.                                                    *)

Fault == faults < MaxFaults /\ faults' = faults + 1

Behind(o) == IF worker[o].at = "down" THEN {} ELSE {k \in Keys : ~UpToDate(o, k)}

Put(k, object) ==
    /\ Version(k) < MaxVersion
    /\ \A o \in Operators : Cardinality(Behind(o) \cup {k}) <= MaxBehind
    /\ log' = [log EXCEPT ![k] = Append(@, object)]

Write(k, accepted, object, onSuccess, onError) ==
    \/ accepted /\ Put(k, object) /\ onSuccess /\ UNCHANGED faults
    \/ ~accepted /\ onError /\ NoCall
    \/ Fault /\ onError /\ (UNCHANGED log \/ (accepted /\ Put(k, object)))

Create(k, valid, object, onSuccess, onError) ==
    Write(k, valid /\ Current(k) = Absent, object, onSuccess, onError)

(* An update carries the resourceVersion of the cached object it changes.   *)
Update(o, k, valid, body, onSuccess, onError) ==
    Write(k, valid /\ UpToDate(o, k), [Cached(o, k) EXCEPT !.body = body], onSuccess, onError)

(* A request to the Jenkins behind a Service: its pods are those of the     *)
(* instance that owns it; a Service of someone else is taken to answer.     *)
Answers(k) == /\ Current(k) # Absent
              /\ Current(k).owner \in up \cup {NoOwner}

-----------------------------------------------------------------------------
(* Reconcile, step by step.                                                 *)

(* The instance a replica reads when it re-reads the one it reconciles.     *)
ReadInstance(o) == Cached(o, InstanceKey(worker[o].req))
Reading(o, step) == worker[o].at = step /\ ReadInstance(o) # Absent
(* Mutant: the IsControlledBy checks are left out.                          *)
NeverForeign(object, ji) == FALSE

Foreign(object, ji) == object # Absent /\ ~IsControlledBy(object, ji)

(* Mutant: an instance that is gone is an error, so its request goes back.  *)
BeginOrRetry(o, r) ==
    LET inst == Cached(o, InstanceKey(r))
    IN  /\ worker[o].at = "idle"
        /\ r \in queue[o]
        /\ queue' = [queue EXCEPT ![o] = @ \ {r}]
        /\ inst # Absent
        /\ IF inst.body.spec.adminSecret = ""
           THEN UNCHANGED worker
           ELSE /\ Cached(o, AdminSecretKey(inst.body)) # Absent
                /\ worker' = [worker EXCEPT ![o] = [Resting("setup") EXCEPT !.req = r]]
        /\ NoCall /\ UNCHANGED <<seen, stale, world>>

(* The worker takes a request.  A request whose admin Secret is missing     *)
(* goes back to the queue, which changes nothing.                           *)
Begin(o, r) ==
    LET inst == Cached(o, InstanceKey(r))
    IN  /\ worker[o].at = "idle"
        /\ r \in queue[o]
        /\ queue' = [queue EXCEPT ![o] = @ \ {r}]
        /\ IF inst = Absent \/ inst.body.spec.adminSecret = ""
           THEN UNCHANGED worker
           ELSE /\ Cached(o, AdminSecretKey(inst.body)) # Absent
                /\ worker' = [worker EXCEPT ![o] = [Resting("setup") EXCEPT !.req = r]]
        /\ NoCall /\ UNCHANGED <<seen, stale, world>>

(* Every function starts by reading the instance again, and returns an      *)
(* error when it is gone.                                                   *)
InstanceGone(o) ==
    /\ worker[o].at \in Steps \ {"idle", "down", "template"}
    /\ ReadInstance(o) = Absent
    /\ Fail(o)
    /\ UNCHANGED <<seen, stale, world>>

(* newSetupConfigMap, up to its write.  Data already there wins the merge;  *)
(* spec.cascConfig is dereferenced unchecked.                               *)
SetupStringData(ji) == StringData(ji.spec.plugins, ji.spec.casc.configString)

NewSetupConfigMap(o) ==
    /\ Reading(o, "setup")
    /\ LET ji == ReadInstance(o).body
           key == SetupKey(ji)
           cm == Cached(o, key)
           data == SetupStringData(ji)
           merged == MergeData(data, cm.body)
       IN  \/ Foreign(cm, ji) /\ Fail(o)
           \/ ~Foreign(cm, ji) /\ ji.spec.casc = Nil /\ Panic(o)
           \/ /\ ji.spec.casc # Nil
              /\ cm = Absent
              /\ Create(key, TRUE, Object(ji.uid, data), Go(o, "deploy"), Requeue(o))
           \/ /\ ji.spec.casc # Nil
              /\ cm # Absent /\ ~Foreign(cm, ji)
              /\ \/ merged = cm.body /\ Pass(o, "deploy")
                 \/ /\ merged # cm.body
                    /\ Update(o, key, TRUE, merged, Go(o, "restart"), Requeue(o))
    /\ stale' = IF log' = log \/ Cached(o, SetupKey(ReadInstance(o).body)) = Absent
                THEN stale
                ELSE stale \cup (up \cap {ReadInstance(o).body.uid})
    /\ UNCHANGED <<seen, world>>

(* After an update of the ConfigMap: getService ...                         *)
ReadServiceToRestart(o) ==
    /\ Reading(o, "restart")
    /\ LET ji == ReadInstance(o).body
       IN  \/ Cached(o, ServiceKey(ji)) = Absent /\ Fail(o)
           \/ Cached(o, ServiceKey(ji)) # Absent /\ GoWith(o, "post", ji, FALSE) /\ NoCall
    /\ UNCHANGED <<seen, stale, world>>

(* ... then getAdminSecret and SafeRestartJenkins, whose inside is           *)
(* JenkinsHttp: a success may be a refused restart, and Jenkins going down  *)
(* for the restart may make it an error.                                    *)
SafeRestartJenkins(o, service) ==
    LET Restarted == stale' = stale \ {Current(service).owner}
    IN  \/ ~Answers(service) /\ Fail(o) /\ UNCHANGED stale
        \/ Answers(service) /\ (Pass(o, "deploy") \/ Fail(o)) /\ Restarted
        \/ /\ Answers(service)
           /\ Fault /\ UNCHANGED <<log, stale>>
           /\ Requeue(o) \/ Go(o, "deploy")

SafeRestart(o) ==
    /\ Reading(o, "post")
    /\ LET secret == Cached(o, AdminSecretKey(ReadInstance(o).body))
       IN  \/ secret = Absent /\ Fail(o) /\ UNCHANGED stale
           \/ secret # Absent /\ SafeRestartJenkins(o, ServiceKey(worker[o].ji))
    /\ UNCHANGED <<seen, world>>

(* newDeployment, up to the PersistentVolumeClaim.                          *)
Lacks(o, kind, ns, name) == name # "" /\ Cached(o, Key(kind, ns, name)) = Absent

NewDeployment(o) ==
    /\ Reading(o, "deploy")
    /\ LET ji == ReadInstance(o).body
           deployment == Cached(o, DeploymentKey(ji))
           noAccount == Lacks(o, "ServiceAccount", ji.uid.ns, ji.spec.account)
           noClaim == ji.spec.storage # Nil /\ Cached(o, ClaimKey(ji)) = Absent
           Proceed == GoWith(o, "template", ji, deployment # Absent)
       IN  \/ Foreign(deployment, ji) /\ Fail(o)
           \/ ~Foreign(deployment, ji) /\ noAccount /\ Fail(o)
           \/ /\ ~Foreign(deployment, ji) /\ ~noAccount
              /\ \/ ~noClaim /\ Proceed /\ NoCall
                 \/ noClaim /\ ~ji.spec.storage.create /\ Fail(o)
                 \/ noClaim /\ ji.spec.storage.create
                    /\ Create(ClaimKey(ji), TRUE, Object(ji.uid, Nil), Proceed, Requeue(o))
    /\ UNCHANGED <<seen, stale, world>>

(* newDeployment, from the volumes on.                                      *)
KeysAt(o, kind, ns, name) == IF name = "" THEN {} ELSE DOMAIN Cached(o, Key(kind, ns, name)).body

Template(o, ji) ==
    LET s == ji.spec
        named == s.casc # Nil /\ s.casc.configMap # ""
    IN  [image |-> s.image, account |-> s.account,
         claim |-> IF s.storage = Nil THEN "" ELSE ClaimName(ji),
         cascSecret |-> s.cascSecret,
         groovySecret |-> s.groovySecret,
         groovyKeys |-> KeysAt(o, "Secret", ji.uid.ns, s.groovySecret),
         casc |-> IF named THEN s.casc.configMap ELSE ji.uid.name,
         cascKeys |-> IF named THEN KeysAt(o, "ConfigMap", ji.uid.ns, s.casc.configMap)
                      ELSE {"jenkins.yaml"}]

MissingSource(o, ji) ==
    \/ Lacks(o, "Secret", ji.uid.ns, ji.spec.cascSecret)
    \/ Lacks(o, "Secret", ji.uid.ns, ji.spec.groovySecret)
    \/ /\ ji.spec.casc # Nil
       /\ \/ Lacks(o, "ConfigMap", ji.uid.ns, ji.spec.casc.configMap)
          \/ ji.spec.casc.configMap = "" /\ ji.spec.casc.configString = ""

(* An existing Deployment is left alone: `changed` is a conjunction of      *)
(* equalities, among them one of two pointers that never are the same, so   *)
(* its negation always holds.  Without spec.cascConfig the template mounts  *)
(* a volume it does not declare, which the API server refuses.              *)
CreateDeployment(o) ==
    /\ worker[o].at = "template"
    /\ LET ji == worker[o].ji
       IN  \/ MissingSource(o, ji) /\ Fail(o)
           \/ ~MissingSource(o, ji) /\ worker[o].found /\ Pass(o, "service")
           \/ /\ ~MissingSource(o, ji) /\ ~worker[o].found
              /\ Create(DeploymentKey(ji), ji.spec.casc # Nil,
                        Object(ji.uid, Template(o, ji)), Go(o, "service"), Requeue(o))
    /\ UNCHANGED <<seen, stale, world>>

(* Mutant: the status is set in the instance it works on.                   *)
ReadAndMark(o) ==
    /\ Reading(o, "service")
    /\ GoWith(o, "expose", [ReadInstance(o).body EXCEPT !.phase = "Ready"], FALSE)
    /\ NoCall /\ UNCHANGED <<seen, stale, world>>

(* newService reads the instance, and getService in it reads it again.      *)
ReadForService(o) ==
    /\ Reading(o, "service")
    /\ GoWith(o, "expose", ReadInstance(o).body, FALSE)
    /\ NoCall /\ UNCHANGED <<seen, stale, world>>

(* The copy newService makes of an existing Service, and the one it builds. *)
(* The API server refuses a node port on a Service that exposes none.       *)
ServiceCopy(body, s) ==
    IF s = Nil THEN body
    ELSE [body EXCEPT !.annotations = s.annotations,
                      !.type = IF s.type # "" THEN s.type ELSE @]
BuiltService(s) == [type |-> s.type, nodePort |-> s.nodePort, annotations |-> s.annotations]
ValidService(svc) == Defaulted(svc).nodePort = 0 \/ Exposing(svc.type)
SameServiceSpec(a, b) == a.type = b.type /\ a.nodePort = b.nodePort

(* newService from there on: the error of its Create is dropped.            *)
NewService(o) ==
    /\ Reading(o, "expose")
    /\ LET ji == worker[o].ji
           key == ServiceKey(ReadInstance(o).body)
           service == Cached(o, key)
           copy == ServiceCopy(service.body, ji.spec.service)
           built == BuiltService(ji.spec.service)
       IN  \/ Foreign(service, ji) /\ Fail(o)
           \/ /\ service # Absent /\ ~Foreign(service, ji)
              /\ \/ SameServiceSpec(copy, service.body) /\ Pass(o, "check")
                 \/ /\ ~SameServiceSpec(copy, service.body)
                    /\ Update(o, key, ValidService(copy), Defaulted(copy),
                              Go(o, "check"), Requeue(o))
           \/ service = Absent /\ ji.spec.service = Nil /\ Panic(o)
           \/ /\ service = Absent /\ ji.spec.service # Nil
              /\ Create(ServiceKey(ji), ValidService(built), Object(ji.uid, Defaulted(built)),
                        Go(o, "check"), Go(o, "check"))
    /\ UNCHANGED <<seen, stale, world>>

(* Mutant: any answer will do, even none.                                   *)
AssumeReady(o, service) == Pass(o, "status")

(* updateJenkinsInstanceStatus: getService and CheckJenkinsReady ...        *)
CheckJenkinsReady(o, service) ==
    \/ ~Answers(service) /\ Fail(o)
    \/ Answers(service) /\ Pass(o, "status")
    \/ Answers(service) /\ Fault /\ Requeue(o) /\ UNCHANGED log

(* Mutant: what is Ready is not looked at again.                            *)
CheckOnce(o) ==
    /\ Reading(o, "check")
    /\ LET service == ServiceKey(ReadInstance(o).body)
       IN  \/ ReadInstance(o).body.phase = "Ready" /\ Done(o) /\ NoCall
           \/ /\ ReadInstance(o).body.phase # "Ready"
              /\ \/ Cached(o, service) = Absent /\ Fail(o)
                 \/ Cached(o, service) # Absent /\ CheckJenkinsReady(o, service)
    /\ UNCHANGED <<seen, stale, world>>

CheckReady(o) ==
    /\ Reading(o, "check")
    /\ LET service == ServiceKey(ReadInstance(o).body)
       IN  \/ Cached(o, service) = Absent /\ Fail(o)
           \/ Cached(o, service) # Absent /\ CheckJenkinsReady(o, service)
    /\ UNCHANGED <<seen, stale, world>>

(* Mutant: the error of the status update is dropped.                       *)
TryUpdateStatus(o) ==
    /\ Reading(o, "status")
    /\ LET ji == ReadInstance(o).body
       IN  \/ ji.phase = "Ready" /\ Done(o) /\ NoCall
           \/ ji.phase # "Ready"
              /\ Update(o, InstanceKey(ji.uid), TRUE, [ji EXCEPT !.phase = "Ready"],
                        Done(o), Done(o))
    /\ UNCHANGED <<seen, stale, world>>

(* ... then the phase of the instance as it is read now.                    *)
UpdateStatus(o) ==
    /\ Reading(o, "status")
    /\ LET ji == ReadInstance(o).body
       IN  \/ ji.phase = JenkinsInstancePhaseReady /\ Done(o) /\ NoCall
           \/ ji.phase # JenkinsInstancePhaseReady
              /\ Update(o, InstanceKey(ji.uid), TRUE, [ji EXCEPT !.phase = JenkinsInstancePhaseReady],
                        Done(o), Requeue(o))
    /\ UNCHANGED <<seen, stale, world>>

-----------------------------------------------------------------------------
(* The rest of the operator process: watches, crash, start.                 *)

(* The cache of o moves on to version v of k.                               *)
Observe(o, k, v) ==
    LET at == [seen[o] EXCEPT ![k] = v]
        versions == {log[k][seen[o][k]], log[k][v]}
    IN  /\ worker[o].at # "down"
        /\ seen' = [seen EXCEPT ![o] = at]
        /\ IF MapPanics(k, at) THEN Die(o)
           ELSE /\ queue' = [queue EXCEPT ![o] = @ \cup RequestsOf(k, at, versions)]
                /\ UNCHANGED worker
        /\ UNCHANGED <<log, stale, world>>

(* The watch of k brings its next version.                                  *)
Deliver(o, k) ==
    /\ seen[o][k] < Version(k)
    /\ Observe(o, k, seen[o][k] + 1)
    /\ UNCHANGED faults

(* The watch broke; the list that replaces it shows the last version only,  *)
(* and an object made and gone in between is never heard of.                *)
Relist(o, k) ==
    /\ WatchBreaks
    /\ seen[o][k] + 1 < Version(k)
    /\ Fault
    /\ Observe(o, k, Version(k))

Crash(o) ==
    /\ worker[o].at # "down"
    /\ Fault
    /\ Die(o)
    /\ UNCHANGED <<log, seen, stale, world>>

(* A start lists everything and gets a create event for each object; while  *)
(* one of these panics, every start ends in the next crash.                 *)
Start(o) ==
    LET at == [k \in Keys |-> Version(k)]
    IN  /\ worker[o].at = "down"
        /\ \A k \in Keys : Current(k) # Absent => ~MapPanics(k, at)
        /\ seen' = [seen EXCEPT ![o] = at]
        /\ queue' = [queue EXCEPT ![o] = Everything(at)]
        /\ worker' = [worker EXCEPT ![o] = Resting("idle")]
        /\ NoCall /\ UNCHANGED <<stale, world>>

-----------------------------------------------------------------------------
(* The cluster around the operator.                                         *)

operatorState == <<seen, queue, worker>>

Edit == edits < MaxEdits /\ edits' = edits + 1

UserCreates(k, x) ==
    /\ Edit
    /\ Current(k) = Absent
    /\ Put(k, Object(NoOwner, Submitted(k, x, Version(k) + 1)))
    /\ UNCHANGED <<operatorState, up, served, stale, faults>>

(* Of an instance the spec is edited, of a ConfigMap or Secret some keys.   *)
Edited(k, old, x) == CASE k.kind = "JenkinsInstance" -> [old EXCEPT !.spec = x]
                       [] k.kind \in {"ConfigMap", "Secret"} -> MergeData(old, x)
                       [] OTHER -> Submitted(k, x, 1)

UserEdits(k, x) ==
    /\ Edit
    /\ Current(k) # Absent
    /\ Edited(k, Current(k).body, x) # Current(k).body
    /\ Put(k, [Current(k) EXCEPT !.body = Edited(k, @, x)])
    /\ UNCHANGED <<operatorState, up, served, stale, faults>>

UserDeletes(k) ==
    /\ Edit
    /\ Current(k) # Absent
    /\ Put(k, Absent)
    /\ UNCHANGED <<operatorState, up, served, stale, faults>>

(* The garbage collector removes what an instance that is gone owned.       *)
Garbage(k) == Current(k) # Absent /\ Current(k).owner \notin Live \cup {NoOwner}
Collect(k) ==
    /\ Garbage(k)
    /\ Put(k, Absent)
    /\ UNCHANGED <<operatorState, up, served, stale, edits, faults>>

(* A pod of Deployment k can start once all it mounts is there.  Starts and *)
(* losses of pods show in the status of the Deployment: a new version of it *)
(* with the same body.                                                      *)
Has(kind, ns, name, files) ==
    LET object == Current(Key(kind, ns, name))
    IN  object # Absent /\ files \subseteq DOMAIN object.body
Mountable(k, t) ==
    /\ Has("ConfigMap", k.ns, k.name, {"plugins.txt"})
    /\ Has("ConfigMap", k.ns, t.casc, t.cascKeys)
    /\ t.claim # "" => Current(Key("PersistentVolumeClaim", k.ns, t.claim)) # Absent
    /\ t.cascSecret # "" => Has("Secret", k.ns, t.cascSecret, {})
    /\ t.groovySecret # "" => Has("Secret", k.ns, t.groovySecret, t.groovyKeys)

JenkinsStarts(k) ==
    /\ k.kind = "Deployment"
    /\ Current(k) # Absent
    /\ Current(k).owner \notin up \cup {NoOwner}
    /\ Mountable(k, Current(k).body)
    /\ Put(k, Current(k))
    /\ up' = up \cup {Current(k).owner}
    /\ served' = served \cup {Current(k).owner}
    /\ UNCHANGED <<operatorState, stale, edits, faults>>

(* The pods of a Deployment follow it when it goes; one may also be lost.   *)
(* The next one reads the setup data afresh.                                *)
JenkinsStops(u) ==
    /\ u \in up
    /\ ~Owns([uid |-> u], Key("Deployment", u.ns, u.name))
    /\ up' = up \ {u}
    /\ stale' = stale \ {u}
    /\ UNCHANGED <<log, operatorState, served, edits, faults>>

JenkinsLost(k) ==
    /\ k.kind = "Deployment"
    /\ Current(k) # Absent
    /\ Current(k).owner \in up
    /\ Fault
    /\ Put(k, Current(k))
    /\ up' = up \ {Current(k).owner}
    /\ stale' = stale \ {Current(k).owner}
    /\ UNCHANGED <<operatorState, served, edits>>

-----------------------------------------------------------------------------
Init ==
    /\ log = [k \in Keys |-> IF k \in DOMAIN Initial
                             THEN <<Object(NoOwner, Submitted(k, Initial[k], 1))>>
                             ELSE <<Absent>>]
    /\ seen = [o \in Operators |-> [k \in Keys |-> 1]]
    /\ queue = [o \in Operators |-> {}]
    /\ worker = [o \in Operators |-> Resting("down")]
    /\ up = {} /\ served = {} /\ stale = {}
    /\ edits = 0 /\ faults = 0

Reconcile(o) ==
    \/ \E r \in queue[o] : Begin(o, r)
    \/ InstanceGone(o)
    \/ NewSetupConfigMap(o)
    \/ ReadServiceToRestart(o)
    \/ SafeRestart(o)
    \/ NewDeployment(o)
    \/ CreateDeployment(o)
    \/ ReadForService(o)
    \/ NewService(o)
    \/ CheckReady(o)
    \/ UpdateStatus(o)

Operator(o) ==
    \/ Reconcile(o)
    \/ \E k \in Keys : Deliver(o, k) \/ Relist(o, k)
    \/ Crash(o)
    \/ Start(o)

User == \E k \in Keys : \/ \E x \in Offered[k] : UserCreates(k, x) \/ UserEdits(k, x)
                        \/ k \in Deletable /\ UserDeletes(k)

Cluster == \/ \E k \in Keys : Collect(k) \/ JenkinsStarts(k) \/ JenkinsLost(k)
           \/ \E u \in up : JenkinsStops(u)

Next == (\E o \in Operators : Operator(o)) \/ User \/ Cluster

Spec == Init /\ [][Next]_vars

(* The worker goroutine and the informers of a running process go on, the   *)
(* Deployment behind the operator restarts it, requests are taken in the    *)
(* order they came (so each is taken in the end), and the cluster's own     *)
(* controllers do their work.  Users, failures and crashes owe nothing.     *)
Fairness ==
    /\ \A o \in Operators :
          /\ WF_vars(Reconcile(o))
          /\ WF_vars(Start(o))
          /\ \A k \in InstanceKeys : SF_vars(Begin(o, RequestFor(k)))
          /\ \A k \in Keys : WF_vars(Deliver(o, k))
    /\ \A k \in Keys : WF_vars(Collect(k)) /\ WF_vars(JenkinsStarts(k))

FairSpec == Spec /\ Fairness

-----------------------------------------------------------------------------
(* Properties.                                                              *)

(* The steps at which a function of the controller holds an instance.       *)
Holding == {"post", "template", "expose"}

(* What the API server has ever held of the instance a request names, and   *)
(* the incarnations of it.                                                  *)
Known(r) == {v.body : v \in
    {log[InstanceKey(r)][i] : i \in 1..Version(InstanceKey(r))} \ {Absent}}
Incarnations(r) == {ji.uid : ji \in Known(r)}

(* Every variable has its type, every object the shape of its kind; what a  *)
(* cache shows is a version there has been, and the instance a function     *)
(* holds across one of its steps is, as it is, one the API server has held  *)
(* for the request in hand: never one of another request, or an altered one.*)
TypeOK ==
    /\ log = [k \in Keys |-> log[k]]
    /\ \A k \in Keys : log[k] \in Seq(VersionsOf(k.kind)) \ {<<>>}
    /\ seen \in [Operators -> [Keys -> Nat \ {0}]]
    /\ \A o \in Operators, k \in Keys : seen[o][k] <= Version(k)
    /\ queue \in [Operators -> SUBSET Requests]
    /\ worker \in [Operators -> [at : Steps, req : Requests \cup {Nil},
                                 ji : Instances \cup {Nil}, found : BOOLEAN]]
    /\ \A o \in Operators : worker[o].at \in Holding =>
          InstanceKey(worker[o].req) \in Keys /\ worker[o].ji \in Known(worker[o].req)
    /\ served \subseteq Uids /\ up \subseteq served /\ stale \subseteq up
    /\ edits \in 0..MaxEdits /\ faults \in 0..MaxFaults

(* Nothing is left to do for anyone but users.                              *)
Quiescent ==
    /\ \A o \in Operators : /\ worker[o].at = "idle" /\ queue[o] = {}
                            /\ \A k \in Keys : UpToDate(o, k)
    /\ \A k \in Keys : ~Garbage(k)

Managed == {k \in InstanceKeys : /\ InScope(k.ns)
                                 /\ Current(k) # Absent
                                 /\ Current(k).body.spec.adminSecret # ""}

(* What an instance must have when the operator has nothing left to do: its *)
(* own three objects, the files its spec asks for, a claim to mount, the    *)
(* Service type it asks for, and a status that says so.                     *)
Complete(ji) ==
    /\ Owns(ji, SetupKey(ji)) /\ Owns(ji, DeploymentKey(ji)) /\ Owns(ji, ServiceKey(ji))
    /\ DOMAIN SetupStringData(ji) \subseteq DOMAIN Current(SetupKey(ji)).body
    /\ ji.spec.storage # Nil => Current(ClaimKey(ji)) # Absent
    /\ ji.spec.service # Nil =>
          ji.spec.service.type \in {"", Current(ServiceKey(ji)).body.type}
    /\ ji.phase = "Ready"

(* Reconcile is level-based: whatever interleaving of edits, deletions,     *)
(* stale reads, failed calls and crashes led there, once the work queue is  *)
(* empty every instance is complete; no request was dropped too early.      *)
QuiescentConverged == Quiescent => \A k \in Managed : Complete(Current(k).body)

(* The incarnations a replica has in hand: the one it holds and the one in  *)
(* its cache.                                                               *)
InHand(o) == {ji.uid : ji \in {worker[o].ji} \ {Nil}}
             \cup {v.body.uid : v \in {ReadInstance(o)} \ {Absent}}

(* The phase is set once and never taken back, so while a Jenkins is down   *)
(* its instance may still be said to be Ready.  But the status has to       *)
(* reflect the state of the world again in the end: when nothing is left    *)
(* to do, what is Ready runs; no loss of a Jenkins passes unnoticed, and    *)
(* none is checked upon once only.                                          *)
ReadyRunsAtRest ==
    Quiescent => \A k \in Managed :
                    Current(k).body.phase = "Ready" => Current(k).body.uid \in up

(* What replica o may do to key k in one step (the IsControlledBy checks    *)
(* and SetControllerReference): create an object owned by the incarnation   *)
(* in hand of the instance it reconciles, change the body of one that is,   *)
(* or change that instance itself; never delete, adopt or hand over one.    *)
WritesOwn(o, k) ==
    LET r == worker[o].req
        object == log'[k][Len(log'[k])]
        Mine(owner) == owner \in InHand(o) \cap Incarnations(r)
    IN  /\ r # Nil
        /\ object # Absent
        /\ Current(k) = Absent => Mine(object.owner)
        /\ Current(k) # Absent => /\ object.owner = Current(k).owner
                                  /\ k = InstanceKey(r) \/ Mine(object.owner)

(* An operator step never touches an object of a user, of another instance  *)
(* or of another incarnation of the same one, whatever its cache shows it.  *)
OnlyOwnObjectsChange ==
    [][\A o \in Operators, k \in Keys :
          worker'[o] # worker[o] /\ log'[k] # log[k] => WritesOwn(o, k)]_vars

(* What users put into a ConfigMap or into a spec survives every write of   *)
(* the operator: MergeData keeps the entries that are there, and a write    *)
(* decided on an older version is refused.                                  *)
UserDataSurvives ==
    [][\A o \in Operators, k \in Keys :
          worker'[o] # worker[o] /\ log'[k] # log[k] /\ Current(k) # Absent =>
             LET old == Current(k).body
                 new == log'[k][Len(log'[k])].body
             IN  /\ k.kind = "ConfigMap" =>
                       \A f \in DOMAIN old : f \in DOMAIN new /\ new[f] = old[f]
                 /\ k.kind = "JenkinsInstance" => new.spec = old.spec /\ new.uid = old.uid]_vars

(* An instance is only said to be Ready when its own Jenkins has answered.  *)
ReadyMeansServed ==
    \A k \in InstanceKeys :
       Current(k) # Absent /\ Current(k).body.phase = "Ready" => Current(k).body.uid \in served

(* The setup ConfigMap the operator makes or changes has a plugins.txt, and *)
(* unless that was there already it starts with the required plugins and    *)
(* names none twice, however often and in whatever spelling a spec does.    *)
PluginsOnce ==
    [][\A o \in Operators, k \in Keys :
          worker'[o] # worker[o] /\ log'[k] # log[k] /\ k.kind = "ConfigMap" =>
             LET old == IF Current(k) = Absent THEN {} ELSE DOMAIN Current(k).body
                 new == log'[k][Len(log'[k])].body
             IN  /\ "plugins.txt" \in DOMAIN new
                 /\ "plugins.txt" \notin old => WellListed(new["plugins.txt"])]_vars

(* Once users stop and failures cease the operator comes to rest: no        *)
(* handler, retry or replica keeps another one busy, and nothing waits      *)
(* for ever.                                                                *)
Settles == <>[]Quiescent

(* What an instance needs from its users: a complete spec, the Secrets,     *)
(* accounts and ConfigMaps it names, and names no one else has taken.       *)
Present(kind, ns, name) == name # "" => Current(Key(kind, ns, name)) # Absent
FreeOrOwn(ji, k) == Current(k) # Absent => IsControlledBy(Current(k), ji)
Startable(ji) ==
    /\ ji.spec.adminSecret # "" /\ ji.spec.service # Nil /\ ji.spec.casc # Nil
    /\ \A name \in {ji.spec.adminSecret, ji.spec.cascSecret, ji.spec.groovySecret} :
          Present("Secret", ji.uid.ns, name)
    /\ Present("ServiceAccount", ji.uid.ns, ji.spec.account)
    /\ Present("ConfigMap", ji.uid.ns, ji.spec.casc.configMap)
    /\ ji.spec.casc.configMap # "" \/ ji.spec.casc.configString # ""
    /\ ji.spec.storage = Nil \/ ji.spec.storage.create
    /\ \A k \in {SetupKey(ji), DeploymentKey(ji), ServiceKey(ji)} : FreeOrOwn(ji, k)

(* An instance that can be started is Ready in the end, whatever else is    *)
(* in the queue: one that keeps failing does not starve the others.         *)
ServedInTheEnd ==
    \A k \in InstanceKeys :
       <>[](Current(k) # Absent /\ Startable(Current(k).body)) =>
          <>[](Current(k) # Absent /\ Current(k).body.phase = "Ready")
-----------------------------------------------------------------------------
(* What two of the properties take for granted.  The controller looks at    *)
(* names, not at identities, and repairs what an event tells it of.         *)

ServiceOf(j, spec) == ServiceKey(Submitted(j, spec, 1))
SetupOf(j) == Key("ConfigMap", j.ns, j.name)
ClaimOf(j, spec) == ClaimKey(Submitted(j, spec, 1))
MayName(j, k) == \E s \in Specs : s.storage # Nil /\ k = ClaimOf(j, s)
MayMake(j, k) == \E s \in Specs : s.storage # Nil /\ s.storage.create /\ k = ClaimOf(j, s)

(* Users make no Service, and no two instances may ask for a Service of the *)
(* same name.                                                               *)
SoleServices ==
    /\ \A k \in Keys : k.kind = "Service" => Offered[k] = {} /\ k \notin DOMAIN Initial
    /\ \A j, k \in InstanceKeys : \A s, t \in Specs : ServiceOf(j, s) = ServiceOf(k, t) => j = k

(* Nor do users delete instances: a name is as good as an identity.         *)
(* ReadyMeansServed is for such clusters.                                   *)
Undisputed == SoleServices /\ InstanceKeys \cap Deletable = {}

(* A broken watch hides nothing, and what an instance has come to rely on   *)
(* does not go without an event that names the instance: setup ConfigMaps   *)
(* are not deleted; a claim that an instance may make is no one else's;     *)
(* those users make they leave alone.  QuiescentConverged and               *)
(* ReadyRunsAtRest are for these.                                           *)
Attended ==
    /\ Operators # {} /\ ~WatchBreaks
    /\ SoleServices
    /\ \A j \in InstanceKeys : SetupOf(j) \notin Deletable
    /\ \A k \in Keys : k.kind = "PersistentVolumeClaim" =>
          /\ k \in Deletable => Offered[k] = {} /\ k \notin DOMAIN Initial
          /\ \A i, j \in InstanceKeys : MayMake(i, k) /\ MayName(j, k) => i = j

-----------------------------------------------------------------------------
(* What all this is for: OwnedObjects.  Of the log it sees the owner of     *)
(* what is there now, and of the instances who they are and who they were.  *)

ObjectKeys == Keys \ InstanceKeys
UserKeys == {k \in Keys : Offered[k] # {}}
OwnerAt(k) == IF Current(k) = Absent THEN Absent ELSE Current(k).owner
PresentAt(k) == IF Current(k) = Absent THEN Absent ELSE Current(k).body.uid
Born == UNION {{log[k][i].body.uid : i \in {j \in 1..Version(k) : log[k][j] # Absent}}
                  : k \in InstanceKeys}

Owned == INSTANCE OwnedObjects WITH
            Nobody <- Absent,
            present <- [k \in InstanceKeys |-> PresentAt(k)],
            born <- Born,
            owner <- [k \in ObjectKeys |-> OwnerAt(k)]

(* Whatever the replicas, their caches and their failures do, users see a   *)
(* cluster in which objects are made in one step for an instance there has  *)
(* been and never change hands, and in which only users make or delete      *)
(* instances, and each that is made is a new one.                           *)
ImplementsOwnedObjects == Owned!Spec
=============================================================================
