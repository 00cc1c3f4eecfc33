----------------------- MODULE JenkinsInstancePromises -----------------------
(***************************************************************************)
(* What the README and the comments of jenkins-operator say of it and the  *)
(* code does not do.  Each property below is refuted by a run of its own,  *)
(* in a cluster of MCJenkinsPromises.                                      *)
(***************************************************************************)
EXTENDS JenkinsInstanceController

(* "makes changes based on the state read and what is in the               *)
(* JenkinsInstance.Spec": once there is nothing left to do, the Deployment  *)
(* runs the image of the spec.                                              *)
ImageDeployed ==
    Quiescent => \A k \in Managed :
       LET ji == Current(k).body
       IN  Owns(ji, DeploymentKey(ji)) => Current(DeploymentKey(ji)).body.image = ji.spec.image

(* "safe restart jenkins", requeued on errors like everything else: once    *)
(* there is nothing left to do, no Jenkins runs with setup data that has    *)
(* been replaced.                                                           *)
RestartedAfterUpdate == Quiescent => stale = {}

(* spec.cascConfig may be left out: newDeployment asks whether it is there. *)
(* An instance without it does not keep others from being served.           *)
ConfiguredInstanceServed ==
    \A k \in InstanceKeys :
       <>(Current(k) # Absent /\ Current(k).body.spec.casc # Nil =>
             Current(k).body.phase = "Ready")

(* "scope operator to a these namespaces": what is reconciled is in them.   *)
OnlyWatchedNamespaces ==
    \A o \in Operators : worker[o].req # Nil => InScope(worker[o].req.ns)
=============================================================================
