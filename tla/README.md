# A TLA+ model of jenkins-operator

jenkins-operator keeps one Jenkins per `JenkinsInstance` object of a Kubernetes cluster: a
setup ConfigMap, a Deployment, a PersistentVolumeClaim and a Service.  It is a controller:
watches bring changes of the cluster into a cache and a work queue, one worker takes a
request from the queue and compares, for the instance the request names, what is there with
what the spec asks for.  This directory holds a model of that controller in the cluster it
works in, of the HTTP calls it makes to Jenkins and of how its replicas start; what TLC checks
of these on small instances; and what TLAPS proves of them for all.

Paths below are relative to `src/`; `C` stands for
`pkg/controller/jenkinsinstance/jenkinsinstance_controller.go` and `J` for `pkg/util/jenkins.go`.

## Inventory

| Component | State it keeps | Operations | Interacts with |
| --- | --- | --- | --- |
| Controller, `C` | none of its own but Reconcile's locals | `Reconcile`: `newSetupConfigMap` (with `SafeRestartJenkins` after an update), `newDeployment` (with the claim), `newService`, `updateJenkinsInstanceStatus` | reads the cache, writes to the API server, talks HTTP to Jenkins |
| Watches, `C:88-180`, and vendored controller-runtime / client-go | cache, work queue | deliver an event, list again, enqueue through owner or map function, retry | API server, worker |
| Setup data, `C:396-439`, `pkg/util/util.go:17-26` | none | plugin list, `stringData`, `MergeData` | called by `newSetupConfigMap` |
| Namespace predicate, `pkg/util/namespace_predicate.go` | the namespaces of `--namespace` | filter an event | watches |
| Jenkins HTTP client, `pkg/util/jenkins.go` | none | crumb, `SafeRestartJenkins`, `CheckJenkinsReady`, each retried by pester | Jenkins through a Service |
| Service endpoint, `pkg/util/util.go:53-130` | none | `GetServiceEndpoint` | nodes, Service |
| Start, `cmd/manager/cmd/root.go`, with vendored `envtest` | none; the RESTMapper's picture of the kinds | parse flags, install the CRD and wait for it, make the manager, set up the watches | API server |
| Registration, `pkg/controller/controller.go`, `pkg/apis` | none | `AddToManager`, `AddToScheme` | start |
| API types, generated code, version command, mock, charts | none | | |

What is hard here is not any one function but the order of things.  Every read comes from a
cache that is behind by an unknown amount, and every function of Reconcile reads the instance
again.  Any call may fail, or succeed and lose its answer.  The process may die, by a crash or
by a nil pointer, and it loses its queue when it does.  No leader is elected
(`root.go:126`) although the chart has a `replicaCount`, so several replicas may work on one
instance.  Users edit, delete and create again at any moment, and the garbage collector
follows.  What makes the controller correct:

- it is level-based: wherever an interleaving led, when nothing is left to do every instance
  is complete (`QuiescentConverged`);
- it comes to rest (`Settles`), and serves an instance that can be served, late or beside a
  broken one (`ServedInTheEnd`);
- it only writes what belongs to the instance it reconciles (`OnlyOwnObjectsChange`) and loses
  nothing users wrote (`UserDataSurvives`);
- what it says in the status is so: Ready is only set for a Jenkins that answered
  (`ReadyMeansServed`), and in the end, when nothing is left to do, what is Ready runs
  (`ReadyRunsAtRest`);
- seen by its users it is no more than `OwnedObjects`: objects made once for an instance of
  theirs, which never change hands (`ImplementsOwnedObjects`).

`ReadyRunsAtRest` is less than `C:320-321` say, that the phase is updated "to reflect the
current state of the world": the code sets the phase Ready and never takes it back, so while a
Jenkins is down its instance still says Ready.  The model has that (`JenkinsLost`), no
property denies it, and what is claimed is the state at rest.

What makes the HTTP client correct: what a call reports is so (`RestartDone`,
`ReadyMeansAnswered`), whether it retried or not, and whether Jenkins restarted meanwhile or
not; a Jenkins that serves is reached (`AnsweredWhenUp`); the blind repetition of a POST is
bounded (`RestartsBounded`); and a call returns (`Terminates`), since the operator has one
worker.  What makes the start correct: replicas that race for one CRD do not stop each other
for good (`AllRun`), and the one that made it gets through (`CreatorSurvives`).

`PROJECT.json` lists the hazards behind these, each at its line.

## Modules

| Module | What it is |
| --- | --- |
| `SetupData` | the pure part: `PluginList`, `StringData`, `MergeData` |
| `JenkinsInstanceController` | the controller, its cache and queue, API server, garbage collector, Jenkins pods, users; the properties |
| `JenkinsInstancePromises` | what documents and comments say and the code does not do |
| `MCJenkinsInstance`, `MCAttended`, `MCJenkinsPromises` | the small clusters for TLC; those whose runs state what `Attended` and `Undisputed` are needed for; the promises in them |
| `OwnedObjects` | the abstract promise: who owns what, without cache, queue, worker or replica |
| `ServiceEndpoint` | the pure `GetServiceEndpoint`, and where an endpoint leads |
| `JenkinsHttp`, `MCJenkinsHttp` | `SafeRestartJenkins` and `CheckJenkinsReady` request by request, through pester, against a Jenkins that restarts; the sites for TLC |
| `OperatorStart` | installation of the CRD, `manager.New` and the first watch, for several replicas |
| `SetupData_proofs`, `JenkinsInstanceController_proofs`, `OwnedObjects_proofs`, `ReadyServed_proofs`, `Convergence_proofs` | lemmas and theorems about the controller, each extending the one before it |
| `JenkinsHttp_proofs`, `OperatorStart_proofs` | lemmas and theorems about the calls, with the endpoint, and the start |
| `NaturalLemmas` | two facts about natural numbers: a least element, and induction over a segment |

`JenkinsInstanceController` extends `SetupData`, and instantiates `OwnedObjects` under a
refinement mapping.  `JenkinsHttp` extends `ServiceEndpoint`.  `JenkinsHttp` and `OperatorStart`
look inside what are single steps of `JenkinsInstanceController`: an HTTP call, and `Start`.

### State

`log[k]` is the sequence of all versions the API server held at key `k`, the last one being
what is there (`Absent` when deleted); the index is the resourceVersion.  `seen[o][k]` is the
version in replica `o`'s cache.  `queue[o]` is a set, since the work queue deduplicates.
`worker[o]` is the place in Reconcile (`at`), the request, and the two locals that live across
a step: the instance a function holds and whether `newDeployment` found a Deployment.  `up` are
the uids of the instances whose Jenkins answers, `served` those whose Jenkins ever did, `stale`
those in `up` whose Jenkins still runs with setup data that has been replaced.  A uid is the
key it was made at and the version that made it, so an instance made again has another.
Objects carry what the properties tell apart: owner and body; a body is the spec, uid and
phase of an instance, the files of a ConfigMap or Secret, type, node port and annotations of a
Service, image and mounts of a Deployment.

### Steps

An action runs from one read of the instance to the next, or from one write or HTTP exchange
to the next.

| `worker.at` | Action | Code |
| --- | --- | --- |
| idle | `Begin` | `Reconcile` to the admin Secret, `C:265-290` |
| setup | `NewSetupConfigMap` | `newSetupConfigMap` to its Create or Update |
| restart, post | `ReadServiceToRestart`, `SafeRestart` | `C:452-472` |
| deploy | `NewDeployment` | `newDeployment` to the claim, `C:634-767` |
| template | `CreateDeployment` | the rest of it |
| service, expose | `ReadForService`, `NewService` | `newService` |
| check, status | `CheckReady`, `UpdateStatus` | `updateJenkinsInstanceStatus` |
| any read | `InstanceGone` | the error of `getJenkinsInstance` |

The other objects a function reads between two such points (ServiceAccount, claim, Secrets,
ConfigMap) are read in the step that uses them.  This loses no behaviour that the properties
can see: `Deliver` and the writes of others may come between any two steps, each cache entry
moves by itself, and a write decided on what was read is accepted or refused by what the API
server has at that moment, by existence for a Create and by resourceVersion for an Update.

A call (`Write`) is accepted, is refused, or - within `MaxFaults` - fails in transit, either
before or after it was carried out.  `Deliver` moves the cache on by one version and queues
what the handlers of the code queue; `Relist` jumps to the last one, as a list after a broken
watch does.  `Crash` and the panics (`Die`) lose queue and locals; `Start` lists everything.  A
start that would panic again is not taken: an operator in a crash loop is `down` for as long
as the object that causes it is there.

Around it, `UserCreates`, `UserEdits` and `UserDeletes` are what users may do at the keys
`Offered` and `Deletable`; `Collect` is the garbage collector; `JenkinsStarts`, `JenkinsStops`
and `JenkinsLost` are the pods of a Deployment, which start once all they mount is there and
whose coming and going is a new version of the Deployment.

### The promise: `OwnedObjects`

Its state is who is present at each instance key, who was ever born, and who owns the object
at each other key.  Users bear and bury instances and submit objects;
an object is provided, in one step, for an instance of its namespace that has been born; it goes
when a user deletes it or its owner is not alive; nothing else happens.  The mapping takes
`present` and `owner` from the last version of each key, and `born` from all versions.  Of the
phase the promise says nothing.  That an object may be provided for an instance already buried is no
carelessness of the promise: the operator does so when its cache is behind, and the garbage
collector removes the object.

### HTTP calls: `JenkinsHttp`

`client[c]` is the request replica `c` is at (`crumb`, `post`, the `root` page a redirect leads
to, `login`), the attempt, and the answer it has or waits for; `result[c]` is how its last call
ended.  `Call` is the code up to the first `client.Do`, `GetServiceEndpoint` with its list of
nodes included; `UseCrumb`, `EndRestart` and `EndReady` are what `J` does with an answer, and
`Retry` is pester's loop (`vendor/github.com/sethgrid/pester/pester.go:247-324`): a lost
connection and a 5xx are tried again from the request itself, and after the last attempt a 5xx
is handed over as an answer, without an error.  On the other side Jenkins is `up`, `quieting`
once a safe restart was asked for, `booting` (it answers 503) or `gone`; a connection may break
before or after its request got through, and a POST that was given up may still arrive
(`late`).  Only an administrator restarts Jenkins, a reader gets a crumb, and `nobody` neither:
`site.trust` says which of these the credentials in the admin Secret are.  `since` is a history
variable: how often Jenkins had gone down when the call began, whether it served at some moment
since, and whether it did at all of them with nothing going wrong.

The controller's `SafeRestartJenkins` and `CheckJenkinsReady` take a call in one step, with the
outcomes that `Exchange` allows: it may fail with or without having restarted Jenkins, it may
succeed with no restart (an answer that refuses), and a successful check had an answer.

### Start: `OperatorStart`

`at[r]` is the place of replica `r` in `operator()`: `install` (`CreateCRDs`), `wait`
(`WaitForCRDs`), `manager` (`NewManager`, which takes the picture `kinds[r]` of what the API
server serves), `watch` (`AddToManager`) and `running`; every error ends the process, and its
Deployment starts it again.  A CRD is `stored`, `served` once it is established, `terminating`
on its way out, or `absent`.  A CRD that exists already, in whichever of these states, is warned
of and not waited for (`root.go:114`).  One CRD stands for the one the operator has.

## Runs

| Run | Asks | Cluster and bounds |
| --- | --- | --- |
| `Lifecycle` | `TypeOK`, `QuiescentConverged`, `ReadyRunsAtRest`, `OnlyOwnObjectsChange`, `ImplementsOwnedObjects` | one instance, specs with and without storage, Service and configuration and with two Service names, 2 edits, 1 fault |
| `Replicas` | `QuiescentConverged`, `ReadyMeansServed`, `UserDataSurvives`, `PluginsOnce` | 2 replicas (symmetric), 2 edits of spec and setup ConfigMap, 1 fault; a spec that names plugins twice and in other spellings |
| `Lagging` | `QuiescentConverged` | one instance, 2 edits (deletions, creation again), no fault, a cache behind on any number of keys |
| `Settling` | `Settles` | one instance with storage, 2 edits, 1 fault, watches that break, with fairness |
| `LateSources` | `ServedInTheEnd`, `OnlyOwnObjectsChange` | an instance with everything it may need, 3 edits that bring or take these or take its Service's name, a neighbour that fails for ever |
| `Exchange` | `TypeOK`, `RestartDone`, `ReadyMeansAnswered`, `AnsweredWhenUp`, `RestartsBounded`, `Terminates` | 2 replicas, 7 sites, 2 calls of 3 attempts to a request, Jenkins goes down twice, 1 fault |
| `Startup` | `TypeOK`, `CreatorSurvives`, `AllRun` | 2 replicas with or without `--install-crds`, 2 polls, users make or delete the CRD twice, 2 faults |
| `NewImage` | `ImageDeployed` is violated | 1 edit |
| `LostRestart` | `RestartedAfterUpdate` is violated | 1 edit, 1 fault; needs none when Jenkins refuses the restart |
| `NoCascConfig` | `ConfiguredInstanceServed` is violated | no edit, no fault |
| `OtherNamespace` | `OnlyWatchedNamespaces` is violated | no edit, no fault |
| `RecreatedInstance` | `ReadyMeansServed` is violated | delete and create |

Two edits are what most of the interesting stories need: delete and create again, edit twice
during one reconciliation, make a foreign object and remove it.  One fault suffices to put a
crash, a lost answer or a lost pod at every place of them, because recovery does not depend
on how often something failed.

`MaxBehind` bounds on how many keys a running cache may lag at once.  With 1, a write waits
until the caches have seen the one before, unless it is to the same key; `RecreatedInstance`
and `LateSources` have 2, and `Lagging` has no bound (5 keys, 5 may lag).  `MaxVersion` keeps
the state space finite.  With `MaxBehind = 1` no run reaches it: every state of `Lifecycle`,
`Replicas` and `Settling`, and of `LateSources` too, has fewer versions.  In
`Lagging` it does bind: as long as a replica has not heard that its instance is gone, it makes
the instance's objects again and the garbage collector removes them, any number of times, and
5 versions of a key let it do so once or twice.  Safety under lag does not rest on these runs
alone: every safety property of a run is also proved, without any of the bounds.

In `Exchange` the code's 5 attempts are 3: a request that fails first, in the middle and last is
there, and the proofs are for any number.  Two calls and two restarts let one call overtake the
other's restart, the crumb of one be used after the restart asked for by the other, and a POST
given up arrive in the boot that follows.  The sites are inside the cluster with each kind of
credentials, and outside with an external address on the second node, with internal ones only,
without a node port, and without nodes.  In `Startup` two polls stand for the hundred of the
code: one that comes too early and one that ends the wait.

Deadlock is not checked: when users are done and the operator is at rest, nothing happens.

`QuiescentConverged` and `ReadyRunsAtRest` are stated for clusters that are `Attended`, and `ReadyMeansServed` for those
that are `Undisputed`; `MCAttended` has TLC check that the clusters of `Lifecycle`, `Replicas` and
`Lagging` are.  Each part of the two is needed.  TLC finds `QuiescentConverged` violated in the
clusters of `Lifecycle` and `Lagging`, or one with a second instance, when one of them is given up:

- a watch may break: an object made and deleted in between is never heard of, and a request that
  an event about it would have brought is not there; the periodic resync, which could have helped,
  is filtered out by `ResourceVersionChangedPredicate`;
- users may delete a setup ConfigMap: it is not watched as an owned object (`C:144`);
- users may delete a claim they made: it has no owner the event could name;
- an instance may use a claim another instance makes: it goes with that one, and the event names
  that one;
- users may make a Service: when it takes the name of the instance's Service after the cached
  read, the error of the `Create` is dropped (`C:626`), the steps after it find the user's Service,
  and the request ends with the instance Ready and without a Service of its own;
- two instances may ask for one Service name: when the Service is deleted the other one may take the
  name, with the same end.

`Settling` has watches that break, and `LateSources` users who make Services; they ask other
questions.  That instances are not deleted is what `RecreatedInstance` gives up.

### Fairness

`FairSpec` of the controller assumes that a process with work goes on (the worker goroutine, `Reconcile`, and the
informers, `Deliver`), that a dead one is started again by its Deployment (`Start`), and that
the cluster's controllers act (`Collect`, `JenkinsStarts`).  `Begin` is strongly fair per
request: the queue is first in, first out, so a request that keeps coming back does not
pass one that waits, although the worker is busy in between and the set that stands for the
queue has no order.  Users, faults and crashes are under no fairness; there are
finitely many of them, which is what "once failures cease" means.

In `JenkinsHttp` a client goes on with an answer it has (its goroutine runs), and a request is
answered or its connection ends.  The second is an assumption about the network and Jenkins: the
code sets no timeout (`J:92`, `J:129`), so a Jenkins that takes a connection and stays silent
would hold the one worker for ever.  Jenkins is not assumed to restart or boot in the end.  In
`OperatorStart` a process that runs goes on, its Deployment starts it again, and the API server
establishes and removes CRDs.

### What the violations show

- **An existing Deployment is never updated** (`NewImage`).  `C:1000` compares two pointers
  inside a conjunction named `changed`, and `C:1009` returns when it is false.
- **A restart is lost** (`LostRestart`).  After an update of the setup ConfigMap any failure
  before the restart leads to a retry that finds nothing to update, and so nothing to restart.
  The shortest trace is shorter still: Jenkins refuses the restart, and `J:97` does not look.
- **One instance without `spec.cascConfig` stops the operator for all** (`NoCascConfig`), by
  `C:161` or `C:433`.
- **`--namespace` leaks** (`OtherNamespace`): the map function of the ConfigMap watch lists all
  namespaces and compares names.
- **Ready for another's answer** (`RecreatedInstance`): the instance is read again by name
  after the check.

Met while modelling and part of the model, without a run of their own: plugins of an existing
instance are never updated, since data already there wins (`C:439`); the setup
ConfigMap is not watched as an owned object, so its deletion is not repaired; a missing
`spec.service` is dereferenced (`C:596`, while `README.md:119` of the repository promises a
default Service); a user's Service under the instance's Service name lets the instance be Ready
without its own (`C:626`); annotations alone do not make the Service an update (`C:566`); a change from
NodePort to ClusterIP keeps node ports that the API server refuses (`C:538`), whoever makes it;
a failed list of nodes counts as none (`pkg/util/util.go:74`); a replica that meets a CRD not yet
served dies once at its watches (`root.go:114`); the phase Ready
is never taken back; the keys of a ConfigMap or groovy Secret are frozen into the Deployment, so
a pod started after one was removed cannot mount it (`C:844`, `C:876`); a renamed Service leaves the old one behind; the claim has the name of
the instance where the repository's README promises an EmptyDir (`C:728`); a claim two
instances share belongs to the first.

## Proofs

### The controller

The theorems hold for every set of replicas, keys, specs, inputs and bounds that satisfies the
assumptions in `JenkinsInstanceController`:

- `TypeCorrect`: `Spec => []TypeOK`;
- `OwnObjectsOnly`: `Spec => OnlyOwnObjectsChange`;
- `UserDataKept`: `Spec => UserDataSurvives`;
- `PluginsListedOnce`: `Spec => PluginsOnce`;
- `Refinement` (in `OwnedObjects_proofs`): `Spec => ImplementsOwnedObjects`;
- `ReadyOnlyWhenServed` (in `ReadyServed_proofs`): `Spec => []ReadyMeansServed`, where the cluster
  is `Undisputed`;
- `LevelBased` and `ReadyRuns` (in `Convergence_proofs`): `Spec => []QuiescentConverged` and
  `Spec => []ReadyRunsAtRest`, where it is `Attended`;
- `PluginListWell` (in `SetupData_proofs`): what the loop over `spec.plugins` returns for any list.

`TypeOK` says of a worker that holds an instance across a step (`Holding`) that this is one the
API server has held under the request's name: `CreateDeployment` and `NewService` write what they
read some steps ago.  It is not inductive.  One has to know where in Reconcile a worker has a
request at all (`InReconcile`).  And the keys that an instance's
objects have are made of its uid, so one has to know that an instance has the uid of the key it
lives at (`AtHome`).  With these, `IInv` is inductive.

The shape of the proof follows from one observation.  All a step of Reconcile does to the API
server is to append at most one version of one key, and there it writes well (`WritesWell`): a
fresh object is owned by the incarnation in hand; a changed one keeps its owner, is owned by that
incarnation or is the instance itself, and keeps what users put into it.  Every writing action is
shown to have this form once (`...Steps` lemmas, over `CreateLogs` and `UpdateLogs`); type
correctness, `OwnObjectsOnly`, `UserDataKept` and `PluginsListedOnce` are then short.  The key to
`UpdateLogs` is that an update is accepted only when the cache is up to date for that key, so that
what was checked in the cache (owner, data, spec) holds at the API server.

Assumptions: the keys the code derives from an instance are in `Keys` (`KeysAssumption`), specs and
inputs have their types (`SpecsAssumption`, `InputsAssumption`), the plugin ids can be case folded
and the list built into the operator (`pkg/configdata/data.go`, an embedded asset) names none twice
(`SetupDataAssumption`), the sentinels are not taken for data (`SentinelsAssumption`), and the two
string literals that occur are strings, which the provers do not know (`LiteralsAssumption`).

The refinement rests on the same observation, widened to the cluster: every step of the whole
system either leaves `log` alone or appends one version to one key (`EveryChange`), and what that
version may be depends only on whose step it is: an object made fresh for an incarnation that has
been there, or with its owner kept; an instance made under a uid never used before; a deletion
users or the garbage collector are entitled to.  `SeenAfter` and `BornAfter` say
what such a version changes of what `OwnedObjects` sees, and `ObjectStep` and `InstanceStep` find
the abstract step.  It needs one more invariant, `Numbered`: a uid carries the number of the
version at which its instance was made, so that one made again is new.

`PluginsListedOnce` comes from the one list the operator writes.  `PluginList` is a recursive
function, so `PluginListWell` is proved by induction over the segment of `spec.plugins` the loop
has been through (`SegmentInduction` of `NaturalLemmas`, which takes the set of the good lengths
and so needs no operator for a parameter): the list so far names each of its plugins once, whatever
the spelling.

**`ReadyOnlyWhenServed`.**  The controller goes by names: it asks whatever answers at the Service's
name, and sets the phase of whatever instance has the request's name.  `Undisputed` says when a
name is as good as an identity: instances are not made again under their name, no two may ask for
one Service name, and users make no Service.  The inductive invariant `SInv` adds to `IInv` that
every owner has been born and that a Service belongs to an instance that may ask for its name
(`OInv`), that a key has one incarnation only (`OneLife`), and the fact in the middle: a worker at
`status` is there because the instance's own Jenkins did answer (`StatusServed`).  Nothing is
assumed of caches, queues, failures or the number of replicas.

**`LevelBased`.**  `QuiescentConverged` speaks of the moment when nothing is left to do; what makes
it true is a promise kept at all others, `Tended`.  For each replica that runs, and each instance
in its cache, either a request for it is queued, or what the steps taken so far for the request
have seen to holds.  How far that is `Place` tells (a worker at another request has gone all the
way), and `Past` what each place has seen to: the setup ConfigMap with its files, the claim, the
Deployment, the Service as the spec wants it, the phase.  Caches are behind, so to have been seen
to does not mean to be there: it means that among the version the replica has seen last and all
that are on their way to it (`Ahead`) is a good one.  If the object has been lost since, the loss
is on its way too, and when it is delivered the handlers queue a request (`HeardOf`, `PastHeard`).
When nothing is on its way, `Ahead` is one version, the current one, and the promise is the
property.

Two parts cannot rest on events.  The setup ConfigMap brings none, so about it the promise is that
it stays (`Lasting`: what users do not delete lasts as long as its owner, and a ConfigMap keeps its
files).  And the event of a lost claim names the owner, so one has to know whose a claim may be
(`ClaimsMade`).  With these `CInv` is inductive.  There is one lemma for each step of Reconcile
(`SetupTurn`, `DeploymentTurn`, ...), which shows that the step sees to its part or puts the
request back, and others for deliveries, for what other replicas, users and the cluster write, and
for the start, which queues every instance there is.

`ReadyRuns` is proved along with it, since the phase says nothing about now: once a worker is past
`check`, either the instance's Jenkins runs or an event is on its way that names the owner
(`Running`, `Told`), whose delivery queues the instance again.  That event is about the Service
when it was another's Jenkins that answered, at a Service the instance has lost (`AnswerRuns`), and
about the Deployment when the Jenkins goes later: its pod is lost with a new version of the
Deployment, or follows a Deployment that has gone (`RunningStays`).  That the event is mapped to a
request for the right instance takes that an owner lives in the namespace of what it owns
(`OwnersNear`).

The hypothesis `Attended` is about the cluster; under *Runs* is what happens without each of its
conditions.  It does not restrict how far caches are behind, how often calls fail or the process
dies, or how often instances, Deployments, Services and the operator's claims are deleted and made
again.

### HTTP calls and start

- `HttpTypes`, `RestartIsDone`, `ReadyIsAnswered` (in `JenkinsHttp_proofs`): `TypeOK`,
  `RestartDone` and `ReadyMeansAnswered`, for any number of replicas, attempts, calls, faults and
  restarts, and any site;
- `AnswersWhenUp`: `AnsweredWhenUp`, on the same terms; and `EndpointLeads`, which it rests on:
  where the Service can be reached from the operator's site, `GetServiceEndpoint` returns an
  address that leads to it;
- `RestartsAreBounded`: `RestartsBounded`, on the same terms;
- `StartTypes`, `CreatorIsSafe` (in `OperatorStart_proofs`): `TypeOK` and `CreatorSurvives`, for
  any number of replicas and any limits.

`RestartDone` is about the end of a call, and its reason is in the middle: a crumb is only handed
out by a Jenkins that serves.  So from the crumb on, whenever Jenkins does not serve it has gone
down since the call began, and whatever then answers the POST (a redirect after the restart was
asked for, a 503 from a Jenkins that boots) comes with a restart.  `CrumbShows` states this for
each place a call may be at, `PageShows` the like for the login page; with the fact that a call is
only at requests of its own kind (`InStep`) they are inductive.

`AnsweredWhenUp` is about calls during which Jenkins served throughout and no connection broke.
`Upheld` says for such a call that no answer so far was one that is retried, that the crumb and the
login page came back, and that it did not end in an error; every step that could disturb this (a
restart, a lost connection, a pod that goes) is recorded in `since` by the same step.
`RestartsBounded` counts over all calls, and no sum over replicas is needed for it: `Outstanding`
is the set of the attempts at a POST that calls may still make, as pairs of a replica and a number.
A new call adds at most `MaxRetries` of them, an attempt made takes one out, and so restarts asked
for, POSTs still on their way and outstanding attempts together are at most `MaxRetries` for each
call (`Budget`).

The assumptions on the constants are that `MaxRetries` is not zero, that sites are what the API
server lets them be (an address is not empty, and no two ports of a Service have one number;
`HttpAssumption`, `WellFormed`), and that the answer "no endpoint" is not an endpoint
(`EndpointAssumption`).

For the start, `OnCourse` states for each place what the creator of the CRD knows there: it exists
while the creator waits, is served at `manager`, and is in the picture at `watch`.

### Only model-checked

The liveness properties `Settles`, `ServedInTheEnd`, `Terminates` and `AllRun`: liveness under
fairness, and the `ENABLED` it needs, are out of the provers' reach.  `QuiescentConverged`, and
`Tended` in it, is the safety half of `Settles`.  What the runs with an expected violation show is
a counterexample, which needs no proof.

## Not modelled

The time a retry or a poll waits; timeouts of the operating system's TCP connections; the parsing
of flags (`--namespace` is a set, `--install-crds` a Boolean); several CRDs, of which the first that
exists would end the installation of the rest (`root.go:114`; the operator has one); what is copied
into the pod template without being decided on; events, labels and logs; admission, quota and
scheduling (two Jenkins pods ask for the same host port); generated code, registration of types,
the version command, the mock server, and charts.

Roles are not modelled either: every call is one the operator is allowed to make.  The
repository's own roles do not see to that for the status.  The CRD has a status subresource and
`C:354` updates it, while `rbac/rbac_role.yaml:112` and
`deployments/helm/jenkins-operator/RBAC/rbac_role.yaml:118` grant `jenkinsinstances` and not
`jenkinsinstances/status`; under these the API server would refuse the update of the phase.

Also outside what the properties say: an instance whose `adminSecret` is empty is taken out of
the queue without being looked at (`C:275-282`), so `Managed`, which `QuiescentConverged` and
`ReadyRunsAtRest` are about, leaves it out; that data already in the setup ConfigMap wins over a
new plugin list (`UserDataSurvives` is the other side of that merge); and a call whose list of
nodes failed (`AnsweredWhenUp` claims nothing of it).

## Plan

Done in this order: `SetupData`, `JenkinsInstanceController`, its clusters and promises, types and
the two action properties proved; then `OwnedObjects` and the refinement with its proof,
`ServiceEndpoint` and `JenkinsHttp` with theirs, `OperatorStart` with its own, and `PluginsOnce`; then
proofs of `ReadyMeansServed`, `QuiescentConverged`, `ReadyRunsAtRest`, `AnsweredWhenUp`, `RestartsBounded` and `PluginsOnce`.
Next:

1. `LevelBased` with fewer conditions: two instances that share a claim, and users who make
   Services under names no instance asks for.
2. The HTTP call shown to implement what the controller's step takes it for (`Exchange` in
   `SafeRestartJenkins` and `CheckJenkinsReady`).
3. Properties for the hazards that have none yet, where the code gives one to state.
