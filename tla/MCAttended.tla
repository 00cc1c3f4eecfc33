----------------------------- MODULE MCAttended -----------------------------
(***************************************************************************)
(* The clusters of MCJenkinsInstance whose runs state QuiescentConverged,  *)
(* ReadyRunsAtRest or ReadyMeansServed: TLC makes sure that they are such  *)
(* as these need, and so that the theorems about the three are about these *)
(* clusters too.                                                           *)
(***************************************************************************)
EXTENDS MCJenkinsInstance

CONSTANT DeletesInstances  \* whether users of the cluster delete instances

ASSUME ClusterAssumption == Attended /\ (Undisputed <=> ~DeletesInstances)
=============================================================================
