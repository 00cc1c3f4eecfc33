---------------------------- MODULE MCJenkinsHttp ----------------------------
(***************************************************************************)
(* Two replicas that call one Jenkins, from sites that differ in what they *)
(* find there.                                                             *)
(***************************************************************************)
EXTENDS JenkinsHttp

Agent == [port |-> 50000, nodePort |-> 31000]
Ports(nodePort) == <<Agent, [port |-> JenkinsMasterPort, nodePort |-> nodePort]>>
Internal(address) == [type |-> "InternalIP", address |-> address]
External(address) == [type |-> "ExternalIP", address |-> address]

Site(inCluster, trust, nodes, ports) ==
    [inCluster |-> inCluster, inTest |-> FALSE, trust |-> trust, nodes |-> nodes, ports |-> ports]
Inside(trust) == Site(TRUE, trust, <<>>, Ports(0))
Outside(nodes, ports) == Site(FALSE, "admin", nodes, ports)

MCSites == {Inside(trust) : trust \in Trusts} \cup {
    Outside(<<<<Internal("10.0.0.1")>>, <<Internal("10.0.0.2"), External("1.2.3.4")>>>>, Ports(30080)),
    Outside(<<<<>>, <<Internal("10.0.0.2")>>>>, Ports(30080)),
    Outside(<<<<Internal("10.0.0.1")>>>>, Ports(0)),
    Outside(<<>>, Ports(30080))}
=============================================================================
