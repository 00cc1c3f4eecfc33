--------------------------- MODULE ServiceEndpoint ---------------------------
(***************************************************************************)
(* Where the operator finds the Jenkins behind a Service: by the name of   *)
(* the Service inside the cluster, at the mock server in a test, and else  *)
(* at a node's address and the node port of the Service.                   *)
(*                                                                         *)
(* A site is where the operator runs and what it sees from there:          *)
(* inCluster and inTest stand for the environment variables, nodes is the  *)
(* sequence of nodes, each a sequence of [type, address], and ports is the *)
(* Service's sequence of [port, nodePort], nodePort 0 when it has none.    *)
(***************************************************************************)
EXTENDS Naturals, Sequences, SequencesExt

CONSTANT NoEndpoint  \* the error of GetServiceEndpoint

Endpoints == [host : {"service", "mock"} \cup STRING, port : Nat]

ASSUME EndpointAssumption == NoEndpoint \notin Endpoints

JenkinsMasterPort == 8080

(* The first address a node has of a type, on the first node where it is    *)
(* not empty; "" when there is none.                                        *)
AddressOf(node, type) ==
    LET i == SelectInSeq(node, LAMBDA a : a.type = type)
    IN  IF i = 0 THEN "" ELSE node[i].address

FirstAddress(nodes, type) ==
    LET i == SelectInSeq(nodes, LAMBDA node : AddressOf(node, type) # "")
    IN  IF i = 0 THEN "" ELSE AddressOf(nodes[i], type)

(* Mutant: no node with an external address is an error.                    *)
ExternalHost(nodes) == FirstAddress(nodes, "ExternalIP")

Host(nodes) ==
    LET external == FirstAddress(nodes, "ExternalIP")
    IN  IF external # "" THEN external ELSE FirstAddress(nodes, "InternalIP")

(* Mutant: the node port of whatever port comes first.                      *)
FirstNodePort(ports, internalPort) == IF ports = <<>> THEN 0 ELSE Head(ports).nodePort

NodePortOf(ports, internalPort) ==
    LET i == SelectInSeq(ports, LAMBDA p : p.port = internalPort)
    IN  IF i = 0 THEN 0 ELSE ports[i].nodePort

(* The error of listing the nodes is not looked at: a list that fails is an *)
(* empty one, which `nodes` then is.                                        *)
GetServiceEndpoint(loc, nodes, internalPort) ==
    LET host == Host(nodes)
        port == NodePortOf(loc.ports, internalPort)
    IN  CASE loc.inCluster -> [host |-> "service", port |-> internalPort]
          [] ~loc.inCluster /\ loc.inTest -> [host |-> "mock", port |-> 0]
          [] ~loc.inCluster /\ ~loc.inTest ->
                 IF host = "" \/ port = 0 THEN NoEndpoint
                 ELSE [host |-> host, port |-> port]

-----------------------------------------------------------------------------
(* What the network does with an endpoint, said without GetServiceEndpoint: *)
(* a node forwards a node port to the Service port it belongs to, and the   *)
(* name of the Service leads to its own ports.                              *)

IPs == {"ExternalIP", "InternalIP"}
Addresses(loc) ==
    UNION {{node[i].address : i \in {j \in DOMAIN node : node[j].type \in IPs}} :
              node \in {loc.nodes[j] : j \in DOMAIN loc.nodes}}
NodePorts(loc, port) == {loc.ports[i].nodePort :
                             i \in {j \in DOMAIN loc.ports : loc.ports[j].port = port}} \ {0}

LeadsTo(loc, endpoint, port) ==
    IF loc.inCluster
    THEN endpoint = [host |-> "service", port |-> port]
    ELSE endpoint \in [host : Addresses(loc), port : NodePorts(loc, port)]

(* Jenkins can be reached from the site at all.                             *)
Reachable(loc, port) ==
    \/ loc.inCluster
    \/ ~loc.inTest /\ Addresses(loc) # {} /\ NodePorts(loc, port) # {}

(* What the API server lets nodes and Services be: an address that is there *)
(* is not empty, and no two ports of a Service have the same number.        *)
WellFormed(loc) ==
    /\ {loc.inCluster, loc.inTest} \subseteq BOOLEAN
    /\ loc.nodes \in Seq(Seq([type : STRING, address : STRING \ {""}]))
    /\ loc.ports \in Seq([port : Nat, nodePort : Nat])
    /\ \A i, j \in DOMAIN loc.ports : loc.ports[i].port = loc.ports[j].port => i = j
=============================================================================
