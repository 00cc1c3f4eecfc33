-------------------------- MODULE MCJenkinsInstance --------------------------
(***************************************************************************)
(* Small instances of JenkinsInstanceController for TLC: the clusters,     *)
(* specs and user inputs of the runs.                                      *)
(***************************************************************************)
EXTENDS JenkinsInstanceController

CONSTANTS yaml, yaml2, note  \* the texts: two casc configurations and a user's file

MCTexts == {yaml, yaml2, note}
MCDataKeys == {"plugins.txt", "jenkins.yaml", "notes"}

\* One required plugin, one a spec adds; a spec may also repeat either in capitals.
Casc == [id |-> "casc", version |-> "1"]
CascAgain == [id |-> "CASC", version |-> "2"]
Git == [id |-> "git", version |-> "1"]
GitAgain == [id |-> "GIT", version |-> "2"]
MyPlugins == <<CascAgain, Git, GitAgain>>
MCPluginSpecs == {<<>>, MyPlugins}
MCRequiredPlugins == <<Casc>>
MCFolded == [id \in {"casc", "CASC", "git", "GIT"} |->
                IF id \in {"casc", "CASC"} THEN "casc" ELSE "git"]

Service(name, type) == [name |-> name, type |-> type, nodePort |-> 0, annotations |-> ""]

\* The plain spec: configuration as code in the spec, a ClusterIP Service, no storage.
Plain == [adminSecret |-> "admin", image |-> "v1", account |-> "", plugins |-> MyPlugins,
          cascSecret |-> "", groovySecret |-> "",
          casc |-> [configMap |-> "", configString |-> yaml],
          service |-> Service("", "ClusterIP"),
          storage |-> Nil]

Ci(ns) == [ns |-> ns, name |-> "ci"]
ChildKinds == {"ConfigMap", "Deployment", "Service"}
InstanceAndChildren(r) == {Key(kind, r.ns, r.name) : kind \in ChildKinds \cup {"JenkinsInstance"}}
Admin(ns) == Key("Secret", ns, "admin")
AdminData == [f \in {} |-> yaml]
Claim(ns) == Key("PersistentVolumeClaim", ns, "ci")

Symmetry == Permutations(Operators)

Offers(keys, some) == some @@ [k \in keys |-> {}]

CiKey == InstanceKey(Ci("a"))
CiSetup == Key("ConfigMap", "a", "ci")
CiDeployment == Key("Deployment", "a", "ci")
CiService == Key("Service", "a", "ci")
CiClaim == Key("PersistentVolumeClaim", "a", "ci")
CiKeys == {CiKey, CiSetup, CiDeployment, CiService, Admin("a")}
StoredKeys == CiKeys \cup {CiClaim}
CiInitial == (CiKey :> Plain) @@ (Admin("a") :> AdminData)

-----------------------------------------------------------------------------
\* Lifecycle: one instance that comes, is edited - also to a spec with another name for its
\* Service, and to specs without the options that the code dereferences -, goes, and comes
\* back.
NodePort == [Plain EXCEPT !.service = Service("", "NodePort"),
                          !.storage = [pvc |-> "", create |-> TRUE]]
Renamed == [Plain EXCEPT !.service = Service("ui", "ClusterIP")]
Serviceless == [Plain EXCEPT !.service = Nil]
Unconfigured == [Plain EXCEPT !.casc = Nil]
LifeSpecs == {Plain, NodePort, Renamed, Serviceless, Unconfigured}
LifeKeys == StoredKeys \cup {Key("Service", "a", "ui")}
LifeOffered == Offers(LifeKeys, CiKey :> LifeSpecs)
LifeDeletable == {CiKey, CiDeployment, CiService, CiClaim}

\* Lagging: an instance, its Deployment or its Service goes and may come back, and the
\* cache may show none of it for as long as it takes.
LagSpecs == {Plain}
LagOffered == Offers(CiKeys, CiKey :> LagSpecs)
LagDeletable == {CiKey, CiDeployment, CiService}

\* Settling: no way back from NodePort to ClusterIP, which the API server refuses.
SettleSpecs == {Plain, NodePort}
SettleDeletable == {CiKey, CiService}
SettleOffered == Offers(StoredKeys, CiKey :> {NodePort})

\* Replicas: users write a file of their own into the setup ConfigMap, and move the
\* configuration from a named ConfigMap into the spec, which adds jenkins.yaml to it.
Notes == [f \in {"notes"} |-> note]
CascMap == Key("ConfigMap", "a", "casc")
Named == [Plain EXCEPT !.casc = [configMap |-> "casc", configString |-> ""]]
OwnYaml == [f \in {"jenkins.yaml", "notes"} |-> IF f = "notes" THEN note ELSE yaml2]
NamedSpecs == {Named, Plain}
NamedKeys == CiKeys \cup {CascMap}
NamedInitial == (CiKey :> Named) @@ (CascMap :> [f \in {"jenkins.yaml"} |-> yaml]) @@ CiInitial
ReplicaOffered == Offers(NamedKeys, (CiKey :> {Plain}) @@ (CiSetup :> {OwnYaml}))

\* Late sources: an instance that needs a claim, an account, Secrets and a ConfigMap, of
\* which some come later, beside one whose account never comes; a user may take the name of
\* the first one's Service.
Other == [ns |-> "a", name |-> "other"]
OtherKey == InstanceKey(Other)
PairKeys == CiKeys \cup InstanceAndChildren(Other)
Full == [Plain EXCEPT !.account = "jenkins", !.cascSecret = "casc", !.groovySecret = "groovy",
                      !.casc = [configMap |-> "casc", configString |-> ""],
                      !.storage = [pvc |-> "", create |-> TRUE]]
Accountless == [Plain EXCEPT !.account = "nobody"]
CascSecret == Key("Secret", "a", "casc")
GroovySecret == Key("Secret", "a", "groovy")
Account == Key("ServiceAccount", "a", "jenkins")
LateSpecs == {Full, Accountless}
LateKeys == PairKeys \cup {CiClaim, Key("PersistentVolumeClaim", "a", "other"),
                           CascMap, CascSecret, GroovySecret, Account}
LateInitial == (CiKey :> Full) @@ (OtherKey :> Accountless) @@ (CascSecret :> AdminData)
               @@ (GroovySecret :> Notes) @@ CiInitial
LateOffered == Offers(LateKeys, (CascMap :> {Notes}) @@ (Account :> {Nil})
                                @@ (CiService :> {Service("", "ExternalName")}))
LateDeletable == {CiClaim, GroovySecret}
=============================================================================
