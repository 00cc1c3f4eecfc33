-------------------------- MODULE MCJenkinsPromises --------------------------
(***************************************************************************)
(* The clusters in which the promises of JenkinsInstancePromises break:    *)
(* each the smallest one, with the one edit, fault or object that does it. *)
(***************************************************************************)
EXTENDS MCJenkinsInstance, JenkinsInstancePromises

\* A new image under a running instance.
NewImage == [Plain EXCEPT !.image = "v2"]
ImageSpecs == {Plain, NewImage}
ImageOffered == Offers(CiKeys, CiKey :> {NewImage})

\* From a named ConfigMap to configuration in the spec: jenkins.yaml is added.
NamedOffered == Offers(NamedKeys, CiKey :> {Plain})

\* An instance that is deleted and made again under its name.
InstanceDeletable == {CiKey}
AgainOffered == Offers(CiKeys, CiKey :> {Plain})

\* An instance without spec.cascConfig beside a plain one.
UnconfiguredSpecs == {Unconfigured, Plain}
UnconfiguredInitial == (CiKey :> Unconfigured) @@ (OtherKey :> Plain) @@ CiInitial
PairOffered == Offers(PairKeys, CiKey :> {})

\* An instance in a namespace that is not watched, and a ConfigMap in one that is, with
\* the name of the one the instance takes its configuration from.
FarKey == InstanceKey(Ci("b"))
FarKeys == InstanceAndChildren(Ci("b")) \cup {Admin("b"), CascMap, Key("ConfigMap", "b", "casc")}
FarSpecs == {Named}
FarInitial == (FarKey :> Named) @@ (Admin("b") :> AdminData) @@ (CascMap :> Notes)
FarOffered == Offers(FarKeys, FarKey :> {})
=============================================================================
