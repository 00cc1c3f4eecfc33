---------------------------- MODULE OperatorStart ----------------------------
(***************************************************************************)
(* How the replicas of the operator come up: the CRD of JenkinsInstance is *)
(* installed by those told to, the manager takes a picture of the kinds    *)
(* the API server serves, and the controller's watches are set up against  *)
(* that picture.  Whatever goes wrong is fatal, and the Deployment starts  *)
(* the process again.  JenkinsInstanceController takes all this as its one *)
(* action Start.                                                           *)
(***************************************************************************)
EXTENDS Naturals

CONSTANTS
    Replicas,
    PollLimit,  \* WaitForCRDs: polls before it gives up
    MaxEdits,   \* bound: CRDs made or deleted by users
    MaxFaults   \* bound: crashes and failed calls

ASSUME StartAssumption == {PollLimit, MaxEdits, MaxFaults} \subseteq Nat

VARIABLES
    installs,  \* the replicas with --install-crds
    crd,       \* "absent", "stored", "served" once established, "terminating"
    at,        \* each replica's place in operator()
    polls,     \* each replica's polls in WaitForCRDs
    kinds,     \* each replica's RESTMapper: whether it knows JenkinsInstance
    created,   \* each replica: whether this start of it created the CRD
    deleted,   \* each replica: whether the CRD was deleted since it started
    died,      \* each replica: where it last ended
    edits, faults

vars == <<installs, crd, at, polls, kinds, created, deleted, died, edits, faults>>
bounds == <<edits, faults>>

Places == {"dead", "install", "wait", "manager", "watch", "running"}
Discovered == crd \in {"served", "terminating"}

Goes(r, place) == at' = [at EXCEPT ![r] = place]

(* glog.Fatal, or the process ends by itself.                               *)
Fatal(r) == Goes(r, "dead") /\ died' = [died EXCEPT ![r] = at[r]]

Launch(r) ==
    /\ at[r] = "dead"
    /\ Goes(r, IF r \in installs THEN "install" ELSE "manager")
    /\ polls' = [polls EXCEPT ![r] = 0]
    /\ kinds' = [kinds EXCEPT ![r] = FALSE]
    /\ created' = [created EXCEPT ![r] = FALSE]
    /\ deleted' = [deleted EXCEPT ![r] = FALSE]
    /\ UNCHANGED <<installs, crd, died, bounds>>

-----------------------------------------------------------------------------
(* envtest.InstallCRDs.                                                     *)

(* Mutant: a CRD that is there already is an error like any other.          *)
FatalIfExists(r) == Fatal(r)

(* A CRD that is there already - older, not yet served or on its way out -  *)
(* is only warned of, and not waited for.                                   *)
AlreadyExists(r) == Goes(r, "manager") /\ UNCHANGED died

(* Mutant: what was created is not waited for.                              *)
NoWait(r) == Goes(r, "manager") /\ created' = [created EXCEPT ![r] = TRUE]

Created(r) == Goes(r, "wait") /\ created' = [created EXCEPT ![r] = TRUE]

CreateCRDs(r) ==
    /\ at[r] = "install"
    /\ \/ crd = "absent" /\ crd' = "stored" /\ Created(r) /\ UNCHANGED died
       \/ crd # "absent" /\ AlreadyExists(r) /\ UNCHANGED <<crd, created>>
    /\ UNCHANGED <<installs, polls, kinds, deleted, bounds>>

Fault == faults < MaxFaults /\ faults' = faults + 1

(* Mutant: one poll too many.                                               *)
OneMorePoll(r) == polls[r] <= PollLimit

PollsLeft(r) == polls[r] < PollLimit

(* A poll that fails finds nothing.                                         *)
WaitForCRDs(r) ==
    /\ at[r] = "wait"
    /\ \/ Discovered /\ Goes(r, "manager") /\ UNCHANGED <<polls, died, faults>>
       \/ /\ PollsLeft(r)
          /\ polls' = [polls EXCEPT ![r] = @ + 1]
          /\ IF Discovered THEN Fault ELSE UNCHANGED faults
          /\ UNCHANGED <<at, died>>
       \/ ~Discovered /\ ~PollsLeft(r) /\ Fatal(r) /\ UNCHANGED <<polls, faults>>
    /\ UNCHANGED <<installs, crd, kinds, created, deleted, edits>>

-----------------------------------------------------------------------------
(* manager.New and controller.AddToManager.                                 *)

NewManager(r) ==
    /\ at[r] = "manager"
    /\ kinds' = [kinds EXCEPT ![r] = Discovered]
    /\ Goes(r, "watch")
    /\ UNCHANGED <<installs, crd, polls, created, deleted, died, bounds>>

(* The informer of a kind the mapper does not know is an error; one that is *)
(* set up outlives its CRD.                                                 *)
AddToManager(r) ==
    /\ at[r] = "watch"
    /\ \/ kinds[r] /\ Goes(r, "running") /\ UNCHANGED died
       \/ ~kinds[r] /\ Fatal(r)
    /\ UNCHANGED <<installs, crd, polls, kinds, created, deleted, bounds>>

(* The process ends by itself, or a call fails, with or without effect:     *)
(* every error of operator() is fatal.                                      *)
Crash(r) ==
    /\ at[r] # "dead"
    /\ Fault
    /\ Goes(r, "dead") /\ died' = [died EXCEPT ![r] = "crash"]
    /\ UNCHANGED <<installs, crd, polls, kinds, created, deleted, edits>>

Operator(r) ==
    Launch(r) \/ CreateCRDs(r) \/ WaitForCRDs(r) \/ NewManager(r) \/ AddToManager(r)

-----------------------------------------------------------------------------
(* The API server and the users of the cluster.                             *)

replicaState == <<at, polls, kinds, created, died>>

Establish ==
    /\ crd = "stored" /\ crd' = "served"
    /\ UNCHANGED <<installs, replicaState, deleted, bounds>>

Finalize ==
    /\ crd = "terminating" /\ crd' = "absent"
    /\ UNCHANGED <<installs, replicaState, deleted, bounds>>

Edit == edits < MaxEdits /\ edits' = edits + 1

UserCreates ==
    /\ Edit
    /\ crd = "absent" /\ crd' = "stored"
    /\ UNCHANGED <<installs, replicaState, deleted, faults>>

UserDeletes ==
    /\ Edit
    /\ \/ crd = "stored" /\ crd' = "absent"
       \/ crd = "served" /\ crd' = "terminating"
    /\ deleted' = [r \in Replicas |-> TRUE]
    /\ UNCHANGED <<installs, replicaState, faults>>

-----------------------------------------------------------------------------
Init ==
    /\ installs \in SUBSET Replicas
    /\ crd \in {"absent", "served"}
    /\ at = [r \in Replicas |-> "dead"]
    /\ polls = [r \in Replicas |-> 0]
    /\ kinds = [r \in Replicas |-> FALSE]
    /\ created = [r \in Replicas |-> FALSE]
    /\ deleted = [r \in Replicas |-> FALSE]
    /\ died = [r \in Replicas |-> "never"]
    /\ edits = 0 /\ faults = 0

Next ==
    \/ \E r \in Replicas : Operator(r) \/ Crash(r)
    \/ Establish \/ Finalize \/ UserCreates \/ UserDeletes

Spec == Init /\ [][Next]_vars

(* A process that runs goes on, the Deployment starts one that ended, and   *)
(* the API server establishes and removes CRDs in the end.                  *)
Fairness == /\ \A r \in Replicas : WF_vars(Operator(r))
            /\ WF_vars(Establish) /\ WF_vars(Finalize)

FairSpec == Spec /\ Fairness

-----------------------------------------------------------------------------
(* Properties.                                                              *)

(* Every variable has its type.                                             *)
TypeOK ==
    /\ installs \subseteq Replicas
    /\ crd \in {"absent", "stored", "served", "terminating"}
    /\ at \in [Replicas -> Places]
    /\ polls \in [Replicas -> 0..PollLimit]
    /\ kinds \in [Replicas -> BOOLEAN]
    /\ created \in [Replicas -> BOOLEAN]
    /\ deleted \in [Replicas -> BOOLEAN]
    /\ died \in [Replicas -> Places \cup {"never", "crash"}]
    /\ edits \in 0..MaxEdits /\ faults \in 0..MaxFaults

(* A replica that created the CRD gets through to its watches: the wait and *)
(* the order of manager.New after it are what makes the picture complete,   *)
(* unless somebody deletes the CRD meanwhile.  (One that found a CRD there  *)
(* has no such promise: it may come before the CRD is served.)              *)
CreatorSurvives ==
    \A r \in Replicas :
       at[r] = "dead" /\ died[r] = "watch" => ~created[r] \/ deleted[r]

(* Replicas that come up together, find the CRD half made by another one,   *)
(* time out or crash are all running in the end: each of those that install *)
(* the CRD whatever happens to it, the others if it is there to stay.       *)
AllRun ==
    \A r \in Replicas :
       (r \in installs \/ <>[](crd = "served")) => <>[](at[r] = "running")
=============================================================================
