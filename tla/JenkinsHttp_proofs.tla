------------------------- MODULE JenkinsHttp_proofs -------------------------
(***************************************************************************)
(* Proofs about JenkinsHttp and the ServiceEndpoint it extends: whatever   *)
(* the nodes and ports, what GetServiceEndpoint finds leads to Jenkins;    *)
(* types, what a successful restart means, what a successful check means,  *)
(* that a call to a Jenkins that serves all the time succeeds, and that    *)
(* restarts are bounded, for any number of replicas, attempts, calls and   *)
(* failures, and at any site.                                              *)
(***************************************************************************)
EXTENDS JenkinsHttp, NaturalLemmas, FiniteSetTheorems, TLAPS

-----------------------------------------------------------------------------
(* The endpoint.                                                            *)

LEMMA FirstIndex ==
    ASSUME NEW n, NEW S \in SUBSET (1..n), S # {}, n \in Nat
    PROVE  Min(S) \in S
<1>1. S \subseteq Nat
  OBVIOUS
<1>2. \E i \in S : \A j \in S : i <= j
  BY <1>1, LeastNatural
<1>3. QED
  BY <1>2 DEF Min

LEMMA Positive ==
    ASSUME NEW n \in Nat, NEW i \in 1..n
    PROVE  i # 0
OBVIOUS

LEMMA SequenceFacts ==
    ASSUME NEW T, NEW s \in Seq(T)
    PROVE  Len(s) \in Nat /\ DOMAIN s = 1..Len(s) /\ \A i \in DOMAIN s : s[i] \in T
OBVIOUS

(* A loop that breaks at the first address of a type finds one exactly when *)
(* the node has one.                                                        *)
LEMMA AddressFound ==
    ASSUME NEW node, NEW type, NEW n \in Nat, Len(node) = n, DOMAIN node = 1..n,
           \A i \in DOMAIN node : node[i].address # ""
    PROVE  /\ AddressOf(node, type) # "" =>
                 \E i \in DOMAIN node : node[i].type = type /\ AddressOf(node, type) = node[i].address
           /\ \A i \in DOMAIN node : node[i].type = type => AddressOf(node, type) # ""
<1> DEFINE S == {i \in 1..n : node[i].type = type}
<1>1. AddressOf(node, type) = IF S = {} \/ Min(S) = 0 THEN "" ELSE node[Min(S)].address
  BY DEF AddressOf, SelectInSeq
<1>2. ASSUME S # {} PROVE Min(S) \in S
  <2>1. S \in SUBSET (1..n)
    OBVIOUS
  <2> HIDE DEF S
  <2>2. QED
    BY <1>2, <2>1, FirstIndex
<1>3. \A i \in S : i \in DOMAIN node /\ node[i].type = type /\ i # 0
  BY Positive
<1>4. S = {} => \A i \in DOMAIN node : node[i].type # type
  OBVIOUS
<1> HIDE DEF S
<1>5. S # {} => AddressOf(node, type) = node[Min(S)].address
  BY <1>1, <1>2, <1>3
<1>6. QED
  BY <1>1, <1>2, <1>3, <1>4, <1>5

(* The same of the loop over the nodes around it.                           *)
LEMMA NodeFound ==
    ASSUME NEW nodes, NEW type, NEW n \in Nat, Len(nodes) = n, DOMAIN nodes = 1..n
    PROVE  /\ FirstAddress(nodes, type) # "" =>
                 \E i \in DOMAIN nodes : FirstAddress(nodes, type) = AddressOf(nodes[i], type)
           /\ \A i \in DOMAIN nodes :
                 AddressOf(nodes[i], type) # "" => FirstAddress(nodes, type) # ""
<1> DEFINE S == {i \in 1..n : AddressOf(nodes[i], type) # ""}
<1>1. FirstAddress(nodes, type) = IF S = {} \/ Min(S) = 0 THEN "" ELSE AddressOf(nodes[Min(S)], type)
  BY DEF FirstAddress, SelectInSeq
<1>2. ASSUME S # {} PROVE Min(S) \in S
  <2>1. S \in SUBSET (1..n)
    OBVIOUS
  <2> HIDE DEF S
  <2>2. QED
    BY <1>2, <2>1, FirstIndex
<1>3. \A i \in S : i \in DOMAIN nodes /\ AddressOf(nodes[i], type) # "" /\ i # 0
  BY Positive
<1>4. S = {} => \A i \in DOMAIN nodes : AddressOf(nodes[i], type) = ""
  OBVIOUS
<1> HIDE DEF S
<1>5. QED
  BY <1>1, <1>2, <1>3, <1>4

(* The node port of the one Service port with the number.                   *)
LEMMA PortFound ==
    ASSUME NEW ports, NEW port, NEW n \in Nat, Len(ports) = n, DOMAIN ports = 1..n,
           \A i, j \in DOMAIN ports : ports[i].port = ports[j].port => i = j
    PROVE  /\ \A i \in DOMAIN ports : ports[i].port = port => NodePortOf(ports, port) = ports[i].nodePort
           /\ (\A i \in DOMAIN ports : ports[i].port # port) => NodePortOf(ports, port) = 0
<1> DEFINE S == {i \in 1..n : ports[i].port = port}
<1>1. NodePortOf(ports, port) = IF S = {} \/ Min(S) = 0 THEN 0 ELSE ports[Min(S)].nodePort
  BY DEF NodePortOf, SelectInSeq
<1>2. ASSUME S # {} PROVE Min(S) \in S
  <2>1. S \in SUBSET (1..n)
    OBVIOUS
  <2> HIDE DEF S
  <2>2. QED
    BY <1>2, <2>1, FirstIndex
<1>3. /\ \A i \in S : i \in DOMAIN ports /\ ports[i].port = port /\ i # 0
      /\ \A i \in DOMAIN ports : ports[i].port = port => i \in S
  BY Positive
<1> HIDE DEF S
<1>4. QED
  BY <1>1, <1>2, <1>3

(* From any site the endpoint that is found is one where Jenkins is, and    *)
(* when Jenkins can be reached from the site at all, one is found: on any   *)
(* nodes, the first of which may have no address, or none of the kind that  *)
(* is looked for first, and for any ports, in any order.                    *)
THEOREM EndpointLeads ==
    ASSUME NEW loc, WellFormed(loc), NEW port \in Nat, Reachable(loc, port)
    PROVE  LET endpoint == GetServiceEndpoint(loc, loc.nodes, port)
           IN  endpoint # NoEndpoint /\ LeadsTo(loc, endpoint, port)
<1> DEFINE nodes == loc.nodes
           ports == loc.ports
           Entry == [type : STRING, address : STRING \ {""}]
<1>1. CASE loc.inCluster
  <2>1. GetServiceEndpoint(loc, nodes, port) = [host |-> "service", port |-> port]
    BY <1>1 DEF GetServiceEndpoint
  <2>2. [host |-> "service", port |-> port] \in Endpoints
    BY DEF Endpoints
  <2>3. QED
    BY <1>1, <2>1, <2>2, EndpointAssumption DEF LeadsTo
<1>2. CASE ~loc.inCluster
  <2>1. ~loc.inTest /\ Addresses(loc) # {} /\ NodePorts(loc, port) # {}
    BY <1>2 DEF Reachable
  <2>2. PICK j \in DOMAIN nodes : \E i \in DOMAIN nodes[j] : nodes[j][i].type \in IPs
    BY <2>1 DEF Addresses
  <2>3. PICK i \in DOMAIN nodes[j] : nodes[j][i].type \in IPs
    BY <2>2
  <2>4. ASSUME NEW type \in IPs
        PROVE  /\ FirstAddress(nodes, type) # "" =>
                     FirstAddress(nodes, type) \in Addresses(loc) \cap STRING
               /\ nodes[j][i].type = type => FirstAddress(nodes, type) # ""
    <3>1. /\ Len(nodes) \in Nat /\ DOMAIN nodes = 1..Len(nodes)
          /\ \A k \in DOMAIN nodes : nodes[k] \in Seq(Entry)
      <4>1. nodes \in Seq(Seq(Entry))
        BY DEF WellFormed
      <4> HIDE DEF nodes, Entry
      <4>2. QED
        BY <4>1, SequenceFacts
    <3>2. \A k \in DOMAIN nodes :
             /\ Len(nodes[k]) \in Nat /\ DOMAIN nodes[k] = 1..Len(nodes[k])
             /\ \A m \in DOMAIN nodes[k] : nodes[k][m].address \in STRING \ {""}
      <4>1. \A entry \in Entry : entry.address \in STRING \ {""}
        OBVIOUS
      <4> HIDE DEF nodes, Entry
      <4>2. QED
        BY <3>1, <4>1, SequenceFacts
    <3>3. ASSUME NEW k \in DOMAIN nodes
          PROVE  /\ AddressOf(nodes[k], type) # "" =>
                       AddressOf(nodes[k], type) \in Addresses(loc) \cap STRING
                 /\ \A m \in DOMAIN nodes[k] :
                       nodes[k][m].type = type => AddressOf(nodes[k], type) # ""
      <4>1. /\ AddressOf(nodes[k], type) # "" =>
                  \E m \in DOMAIN nodes[k] : /\ nodes[k][m].type = type
                                             /\ AddressOf(nodes[k], type) = nodes[k][m].address
            /\ \A m \in DOMAIN nodes[k] :
                  nodes[k][m].type = type => AddressOf(nodes[k], type) # ""
        <5>1. /\ Len(nodes[k]) \in Nat /\ DOMAIN nodes[k] = 1..Len(nodes[k])
              /\ \A m \in DOMAIN nodes[k] : nodes[k][m].address # ""
          BY <3>2
        <5> HIDE DEF nodes
        <5>2. QED
          BY <5>1, AddressFound
      <4>2. \A m \in DOMAIN nodes[k] :
               nodes[k][m].type = type => nodes[k][m].address \in Addresses(loc)
        BY DEF Addresses
      <4>3. QED
        BY <4>1, <4>2, <3>2
    <3>4. /\ FirstAddress(nodes, type) # "" =>
                \E k \in DOMAIN nodes : FirstAddress(nodes, type) = AddressOf(nodes[k], type)
          /\ \A k \in DOMAIN nodes :
                AddressOf(nodes[k], type) # "" => FirstAddress(nodes, type) # ""
      BY <3>1, NodeFound
    <3>5. QED
      BY <2>3, <3>3, <3>4
  <2>5. Host(nodes) # "" /\ Host(nodes) \in Addresses(loc) \cap STRING
    BY <2>3, <2>4 DEF Host, IPs
  <2>6. NodePortOf(ports, port) # 0 /\ NodePortOf(ports, port) \in NodePorts(loc, port) \cap Nat
    <3>1. /\ Len(ports) \in Nat /\ DOMAIN ports = 1..Len(ports)
          /\ \A k \in DOMAIN ports : ports[k].nodePort \in Nat
          /\ \A k, m \in DOMAIN ports : ports[k].port = ports[m].port => k = m
      <4>1. ports \in Seq([port : Nat, nodePort : Nat])
        BY DEF WellFormed
      <4>2. \A k, m \in DOMAIN ports : ports[k].port = ports[m].port => k = m
        BY DEF WellFormed
      <4> HIDE DEF ports
      <4>3. /\ Len(ports) \in Nat /\ DOMAIN ports = 1..Len(ports)
            /\ \A k \in DOMAIN ports : ports[k] \in [port : Nat, nodePort : Nat]
        BY <4>1, SequenceFacts
      <4>4. QED
        BY <4>2, <4>3
    <3>2. PICK k \in DOMAIN ports : ports[k].port = port /\ ports[k].nodePort # 0
      BY <2>1 DEF NodePorts
    <3>3. NodePortOf(ports, port) = ports[k].nodePort
      BY <3>1, <3>2, PortFound
    <3>4. ports[k].nodePort \in NodePorts(loc, port)
      BY <3>2 DEF NodePorts
    <3>5. QED
      BY <3>1, <3>2, <3>3, <3>4
  <2>7. GetServiceEndpoint(loc, nodes, port) = [host |-> Host(nodes), port |-> NodePortOf(ports, port)]
    BY <1>2, <2>1, <2>5, <2>6 DEF GetServiceEndpoint
  <2>8. [host |-> Host(nodes), port |-> NodePortOf(ports, port)] \in Endpoints
    BY <2>5, <2>6 DEF Endpoints
  <2>9. LeadsTo(loc, [host |-> Host(nodes), port |-> NodePortOf(ports, port)], port)
    BY <1>2, <2>5, <2>6 DEF LeadsTo
  <2>10. QED
    BY <2>7, <2>8, <2>9, EndpointAssumption
<1>3. QED
  BY <1>1, <1>2

-----------------------------------------------------------------------------
(* Calls.                                                                   *)

(* A call is at one of its own requests.                                    *)
InStep(c) ==
    /\ client[c].at \in {"crumb", "post", "root"} => client[c].call = "restart"
    /\ client[c].at = "login" => client[c].call = "ready"

(* Jenkins went down since the call of c began, or has been asked to.       *)
Restarting(c) == downs > since[c].downs \/ jenkins = "quieting"

(* Once the crumb is there, a Jenkins that does not serve has gone down     *)
(* since the call began; so a POST that it answers, or declines, is one     *)
(* after which it has restarted or will.                                    *)
CrumbShows(c) ==
    LET cl == client[c]
        hasCrumb == cl.at \in {"post", "root"} \/ (cl.at = "crumb" /\ cl.answer = "json")
    IN  /\ downs >= since[c].downs
        /\ hasCrumb /\ ~Serving => downs > since[c].downs
        /\ cl.at = "post" /\ site.trust = "admin" /\ cl.answer \notin {"waiting", "refused"} =>
              Restarting(c)
        /\ cl.at = "root" /\ site.trust = "admin" => Restarting(c)
        /\ Ended(c, "restart", "ok") /\ site.trust = "admin" => Restarting(c)

(* A login page comes from a Jenkins that serves, and one that does has     *)
(* been serving at some moment of every call.                               *)
PageShows(c) ==
    /\ Serving => since[c].served
    /\ client[c].at = "login" /\ client[c].answer = "page" => since[c].served
    /\ Ended(c, "ready", "ok") => since[c].served

Good(c) == InStep(c) /\ CrumbShows(c) /\ PageShows(c)
IInv == TypeOK /\ \A c \in Replicas : Good(c)

USE HttpAssumption

(***************************************************************************)
(* Types.                                                                  *)
(***************************************************************************)
LEMMA Records ==
    /\ Idle \in Clients
    /\ \A call \in CallKinds, request \in Requests : First(call, request) \in Clients
    /\ \A call \in CallKinds, how \in {"pending", "ok", "error"} :
          [call |-> call, how |-> how] \in Results
    /\ downs \in Nat => Fresh \in Histories
BY DEF Idle, First, Clients, CallKinds, Requests, Answers, Results, Fresh, Histories, Serving

LEMMA ClientEdits ==
    ASSUME NEW cl \in Clients
    PROVE  /\ cl.call \in CallKinds
           /\ TriesLeft(cl) => Attempt(cl) \in Clients
           /\ \A answer \in Answers : [cl EXCEPT !.answer = answer] \in Clients
           /\ [cl EXCEPT !.at = "root", !.answer = "waiting"] \in Clients
<1> USE DEF Clients, Requests, Answers
<1>1. ASSUME TriesLeft(cl) PROVE Attempt(cl) \in Clients
  <2>1. cl.tries + 1 \in 0..MaxRetries
    BY <1>1 DEF TriesLeft
  <2>2. ASSUME NEW at \in Requests \cup {"idle"}
        PROVE  [cl EXCEPT !.at = at, !.tries = cl.tries + 1, !.answer = "waiting"] \in Clients
    BY <2>1
  <2>3. (IF cl.at = "root" THEN "post" ELSE cl.at) \in Requests \cup {"idle"}
    OBVIOUS
  <2>4. QED
    BY <2>2, <2>3 DEF Attempt
<1>2. cl.call \in CallKinds
  OBVIOUS
<1>3. \A answer \in Answers : [cl EXCEPT !.answer = answer] \in Clients
  OBVIOUS
<1>4. [cl EXCEPT !.at = "root", !.answer = "waiting"] \in Clients
  OBVIOUS
<1>5. QED
  BY <1>1, <1>2, <1>3, <1>4

LEMMA HistoryEdits ==
    ASSUME NEW h \in Histories
    PROVE  /\ [h EXCEPT !.smooth = FALSE] \in Histories
           /\ [h EXCEPT !.served = TRUE] \in Histories
BY DEF Histories

LEMMA InitTypes == Init => TypeOK
<1> SUFFICES ASSUME Init PROVE TypeOK
    OBVIOUS
<1>1. Fresh \in Histories
  BY Records DEF Init
<1>2. [call |-> "none", how |-> "pending"] \in Results
  BY Records DEF CallKinds
<1>3. QED
  BY <1>1, <1>2, Records DEF Init, TypeOK

LEMMA TypesKept == TypeOK /\ [Next]_vars => TypeOK'
<1> SUFFICES ASSUME TypeOK, [Next]_vars PROVE TypeOK'
    OBVIOUS
<1> USE DEF TypeOK
<1>1. ASSUME NEW c \in Replicas, Replica(c) PROVE TypeOK'
  <2>1. /\ client[c] \in Clients /\ client[c].call \in CallKinds
        /\ Idle \in Clients
        /\ \A how \in {"pending", "ok", "error"} : [call |-> client[c].call, how |-> how] \in Results
    BY ClientEdits, Records
  <2>2. ASSUME NEW call \in CallKinds, NEW request \in Requests, Call(c, call, request)
        PROVE  TypeOK'
    <3>1. /\ First(call, request) \in Clients
          /\ Fresh \in Histories /\ [Fresh EXCEPT !.smooth = FALSE] \in Histories
          /\ \A how \in {"pending", "error"} : [call |-> call, how |-> how] \in Results
      BY Records, HistoryEdits
    <3>2. /\ client' \in [Replicas -> Clients]
          /\ result' \in [Replicas -> Results]
          /\ since' \in [Replicas -> Histories]
      BY <2>2, <3>1 DEF Call
    <3>3. calls' \in Nat /\ faults' \in Nat
      BY <2>2 DEF Call, Fault
    <3>4. QED
      BY <2>2, <3>2, <3>3 DEF Call, cluster
  <2>3. CASE SafeRestartJenkins(c) \/ CheckJenkinsReady(c)
    BY <2>2, <2>3 DEF SafeRestartJenkins, CheckJenkinsReady, CallKinds, Requests
  <2>4. CASE Retry(c)
    BY <2>4, <2>1, ClientEdits DEF Retry, cluster
  <2>5. ASSUME NEW how \in {"ok", "error"}, Return(c, how) PROVE TypeOK'
    BY <2>5, <2>1 DEF Return, cluster
  <2>6. CASE UseCrumb(c)
    <3>1. First("restart", "post") \in Clients
      BY Records DEF CallKinds, Requests
    <3>2. QED
      BY <2>6, <2>5, <3>1 DEF UseCrumb, cluster
  <2>7. CASE Follow(c)
    <3>1. [client[c] EXCEPT !.at = "root", !.answer = "waiting"] \in Clients
      BY <2>1, ClientEdits
    <3>2. client' = [client EXCEPT ![c] = [client[c] EXCEPT !.at = "root", !.answer = "waiting"]]
      BY <2>7 DEF Follow
    <3>3. QED
      BY <2>7, <3>1, <3>2 DEF Follow, cluster
  <2>8. CASE EndRestart(c) \/ EndReady(c)
    BY <2>8, <2>5 DEF EndRestart, EndReady
  <2>9. QED
    BY <1>1, <2>3, <2>4, <2>6, <2>7, <2>8 DEF Replica
<1>2. ASSUME NEW c \in Replicas, Network(c) PROVE TypeOK'
  <2>1. \A answer \in Answers : [client EXCEPT ![c].answer = answer] \in [Replicas -> Clients]
    <3>1. \A answer \in Answers : [client[c] EXCEPT !.answer = answer] \in Clients
      BY ClientEdits
    <3>2. QED
      BY <3>1
  <2>2. CASE Serve(c)
    <3>1. ServedAnswer(client[c].at) \in Answers
      BY DEF ServedAnswer, Answers
    <3>2. QED
      BY <2>1, <2>2, <3>1 DEF Serve, Sends
  <2>3. CASE Decline(c)
    BY <2>1, <2>3 DEF Decline, Sends, Answers
  <2>4. CASE Break(c)
    <3>1. since' \in [Replicas -> Histories]
      BY <2>4, HistoryEdits DEF Break, Disturbed
    <3>2. client' \in [Replicas -> Clients]
      BY <2>1, <2>4 DEF Break, Answers
    <3>3. late' \in Nat /\ faults' \in Nat
      BY <2>4 DEF Break, Fault
    <3>4. QED
      BY <2>4, <3>1, <3>2, <3>3 DEF Break
  <2>5. QED
    BY <1>2, <2>2, <2>3, <2>4 DEF Network
<1>3. CASE Jenkins
  <2>1. CASE ServeLate
    BY <2>1 DEF ServeLate
  <2>2. CASE Restart \/ LosePod
    <3>1. since' \in [Replicas -> Histories]
      BY <2>2, HistoryEdits DEF Restart, LosePod, GoDown, Disturbed
    <3>2. faults' \in Nat /\ downs' \in Nat
      BY <2>2 DEF Restart, LosePod, GoDown, Fault
    <3>3. QED
      BY <2>2, <3>1, <3>2 DEF Restart, LosePod, GoDown
  <2>3. CASE StartPod \/ FinishBoot
    BY <2>3, HistoryEdits DEF StartPod, FinishBoot
  <2>4. QED
    BY <1>3, <2>1, <2>2, <2>3 DEF Jenkins
<1>4. CASE UNCHANGED vars
  BY <1>4 DEF vars
<1>5. QED
  BY <1>1, <1>2, <1>3, <1>4 DEF Next

(* Types, for any number of replicas, calls and failures: among them that   *)
(* pester stops after MaxRetries attempts.                                  *)
THEOREM HttpTypes == Spec => []TypeOK
BY InitTypes, TypesKept, PTL DEF Spec

(***************************************************************************)
(* What a success means.                                                   *)
(***************************************************************************)
LEMMA InitGood == Init => \A c \in Replicas : Good(c)
<1> SUFFICES ASSUME Init, NEW c \in Replicas PROVE Good(c)
    OBVIOUS
<1>1. /\ client[c].at = "idle" /\ result[c].how = "pending"
      /\ since[c].downs = 0 /\ downs = 0
      /\ Serving => since[c].served
  BY DEF Init, Idle, Fresh
<1>2. ~Ended(c, "restart", "ok") /\ ~Ended(c, "ready", "ok")
  BY <1>1 DEF Ended
<1>3. QED
  BY <1>1, <1>2 DEF Good, InStep, CrumbShows, PageShows

(* What is known of a replica depends on its own variables and on Jenkins;  *)
(* asking Jenkins for a restart makes none of it false.                     *)
LEMMA Bystander ==
    ASSUME NEW d \in Replicas, Good(d),
           client'[d] = client[d], result'[d] = result[d], since'[d] = since[d],
           site' = site, downs' = downs,
           jenkins' = jenkins \/ (Serving /\ jenkins' = "quieting")
    PROVE  Good(d)'
<1>1. Restarting(d) => Restarting(d)'
  BY DEF Restarting
<1>2. (~Serving)' => ~Serving
  BY DEF Serving
<1>3. Serving' => Serving
  BY DEF Serving
<1>4. InStep(d)'
  BY DEF Good, InStep
<1>5. CrumbShows(d)'
  BY <1>1, <1>2 DEF Good, CrumbShows, Ended
<1>6. PageShows(d)'
  BY <1>3 DEF Good, PageShows, Ended
<1>7. QED
  BY <1>4, <1>5, <1>6 DEF Good

LEMMA ReplicaStep ==
    ASSUME TypeOK, NEW c \in Replicas, NEW d \in Replicas, Good(d), Replica(c)
    PROVE  Good(d)'
<1> /\ client[c] \in Clients /\ result[c] \in Results /\ since[c] \in Histories
    BY DEF TypeOK
<1> /\ client \in [Replicas -> Clients] /\ result \in [Replicas -> Results]
    /\ since \in [Replicas -> Histories] /\ downs \in Nat
    BY DEF TypeOK
<1>1. UNCHANGED <<site, jenkins, downs>>
  BY DEF Replica, SafeRestartJenkins, CheckJenkinsReady, Call, Retry, UseCrumb, Follow,
         EndRestart, EndReady, Return, cluster
<1>2. CASE c # d
  <2>1. client'[d] = client[d] /\ result'[d] = result[d] /\ since'[d] = since[d]
    BY <1>2 DEF Replica, SafeRestartJenkins, CheckJenkinsReady, Call, Retry, UseCrumb, Follow,
                EndRestart, EndReady, Return
  <2>2. QED
    BY <1>1, <2>1, Bystander
<1>3. CASE c = d
  <2> USE DEF Good, InStep, CrumbShows, PageShows, Restarting, Serving, Ended
  <2>1. ASSUME NEW call, NEW request, Call(c, call, request),
               \/ call = "restart" /\ request = "crumb"
               \/ call = "ready" /\ request = "login"
        PROVE  Good(d)'
    <3>1. since'[c] \in {Fresh, [Fresh EXCEPT !.smooth = FALSE]}
      BY <2>1 DEF Call
    <3>2. /\ since'[c].downs = downs
          /\ Serving => since'[c].served
          /\ result'[c].how \in {"pending", "error"}
          /\ \/ client'[c] = First(call, request)
             \/ client'[c] = client[c] /\ client[c].at = "idle"
      <4>1. since'[c].downs = downs /\ (Serving => since'[c].served)
        <5>1. Fresh.downs = downs /\ [Fresh EXCEPT !.smooth = FALSE].downs = downs
          BY DEF Fresh
        <5>2. ASSUME Serving
              PROVE  Fresh.served /\ [Fresh EXCEPT !.smooth = FALSE].served
          <6>1. Fresh = [downs |-> downs, served |-> TRUE, smooth |-> TRUE]
            BY <5>2, Zenon DEF Fresh
          <6>2. QED
            BY <6>1
        <5>3. QED
          BY <3>1, <5>1, <5>2
      <4>2. result'[c].how \in {"pending", "error"}
        BY <2>1 DEF Call
      <4>3. \/ client'[c] = First(call, request)
            \/ client'[c] = client[c] /\ client[c].at = "idle"
        BY <2>1 DEF Call
      <4>4. QED
        BY <4>1, <4>2, <4>3
    <3>3. /\ client'[c].at = "crumb" => client'[c].call = "restart"
          /\ client'[c].at = "login" => client'[c].call = "ready"
          /\ client'[c].at \in {"crumb", "login", "idle"}
          /\ client'[c].at # "idle" => client'[c].answer = "waiting"
      BY <2>1, <3>2 DEF First
    <3>4. ~Ended(c, "restart", "ok")' /\ ~Ended(c, "ready", "ok")'
      BY <3>2
    <3>5. QED
      BY <1>1, <1>3, <3>2, <3>3, <3>4
  <2>2. CASE SafeRestartJenkins(c) \/ CheckJenkinsReady(c)
    BY <2>1, <2>2 DEF SafeRestartJenkins, CheckJenkinsReady
  <2>3. CASE Retry(c)
    <3>1. /\ client'[c].at = IF client[c].at = "root" THEN "post" ELSE client[c].at
          /\ client'[c].call = client[c].call /\ client'[c].answer = "waiting"
          /\ UNCHANGED <<result, since>>
      BY <2>3 DEF Retry, Attempt, Clients
    <3>2. QED
      BY <1>1, <1>3, <3>1
  <2>4. CASE UseCrumb(c)
    BY <1>1, <1>3, <2>4 DEF UseCrumb, IsCrumb, Answered, Return, Idle, First
  <2>5. CASE Follow(c)
    <3>1. /\ client'[c].at = "root" /\ client'[c].answer = "waiting"
          /\ client'[c].call = client[c].call
          /\ UNCHANGED <<result, since>>
      BY <2>5 DEF Follow, Clients
    <3>2. QED
      BY <1>1, <1>3, <2>5, <3>1 DEF Follow
  <2>6. CASE EndRestart(c)
    BY <1>1, <1>3, <2>6 DEF EndRestart, IsError, Answered, Return, Idle
  <2>7. CASE EndReady(c)
    BY <1>1, <1>3, <2>7 DEF EndReady, StatusOK, Answered, Return, Idle
  <2>8. QED
    BY <2>2, <2>3, <2>4, <2>5, <2>6, <2>7 DEF Replica
<1>4. QED
  BY <1>2, <1>3

LEMMA NetworkStep ==
    ASSUME TypeOK, NEW c \in Replicas, NEW d \in Replicas, Good(d), Network(c)
    PROVE  Good(d)'
<1> /\ client \in [Replicas -> Clients] /\ client[c] \in Clients
    /\ since \in [Replicas -> Histories] /\ since[d] \in Histories /\ downs \in Nat
    BY DEF TypeOK
<1>1. CASE Serve(c)
  <2>1. /\ UNCHANGED <<result, since, site, downs>> /\ Serving
        /\ jenkins' = jenkins \/ jenkins' = "quieting"
        /\ client[c].at = "post" /\ site.trust = "admin" => jenkins' = "quieting"
    BY <1>1 DEF Serve, Sends
  <2>2. CASE c # d
    BY <2>1, <2>2, <1>1, Bystander DEF Serve, Sends
  <2>3. CASE c = d
    <3>1. /\ client'[c].at = client[c].at /\ client'[c].call = client[c].call
          /\ client'[c].answer = ServedAnswer(client[c].at)
      BY <1>1 DEF Serve, Sends, Clients
    <3>2. QED
      BY <2>1, <2>3, <3>1 DEF Good, InStep, CrumbShows, PageShows, Restarting, Serving, Ended
  <2>4. QED
    BY <2>2, <2>3
<1>2. CASE Decline(c)
  <2>1. /\ UNCHANGED <<result, since, site, downs, jenkins>> /\ Waiting(c)
    BY <1>2 DEF Decline, Sends
  <2>2. CASE c # d
    BY <2>1, <2>2, <1>2, Bystander DEF Decline, Sends
  <2>3. CASE c = d
    <3>1. /\ client'[c].at = client[c].at /\ client'[c].call = client[c].call
          /\ \/ client'[c].answer = "refused"
             \/ client'[c].answer = "unavailable" /\ jenkins = "booting"
      BY <1>2 DEF Decline, Sends, Clients
    <3>2. QED
      BY <2>1, <2>3, <3>1 DEF Good, InStep, CrumbShows, PageShows, Restarting, Serving, Ended
  <2>4. QED
    BY <2>2, <2>3
<1>3. CASE Break(c)
  <2>1. /\ UNCHANGED <<result, site, downs, jenkins>>
        /\ since'[d].downs = since[d].downs /\ since'[d].served = since[d].served
    BY <1>3 DEF Break, Disturbed, Histories
  <2>2. /\ client'[d].at = client[d].at /\ client'[d].call = client[d].call
        /\ client'[d].answer \in {client[d].answer, "refused"}
    BY <1>3 DEF Break, Clients
  <2>3. QED
    BY <2>1, <2>2 DEF Good, InStep, CrumbShows, PageShows, Restarting, Serving, Ended
<1>4. QED
  BY <1>1, <1>2, <1>3 DEF Network

LEMMA JenkinsStep ==
    ASSUME TypeOK, NEW d \in Replicas, Good(d), Jenkins
    PROVE  Good(d)'
<1> since \in [Replicas -> Histories] /\ since[d] \in Histories /\ downs \in Nat
    BY DEF TypeOK
<1>1. CASE ServeLate \/ StartPod
  BY <1>1 DEF ServeLate, StartPod, Good, InStep, CrumbShows, PageShows, Restarting, Serving, Ended
<1>2. CASE Restart \/ LosePod
  <2>1. /\ since'[d].downs = since[d].downs /\ since'[d].served = since[d].served
        /\ downs' = downs + 1 /\ jenkins' \in {"booting", "gone"}
        /\ UNCHANGED <<site, client, result>>
    BY <1>2 DEF Restart, LosePod, GoDown, Disturbed, Histories
  <2>2. QED
    BY <2>1 DEF Good, InStep, CrumbShows, PageShows, Restarting, Serving, Ended, Histories
<1>3. CASE FinishBoot
  <2>1. /\ since'[d].downs = since[d].downs /\ since'[d].served = TRUE
        /\ jenkins = "booting" /\ jenkins' = "up"
        /\ UNCHANGED <<site, client, result, downs>>
    BY <1>3 DEF FinishBoot, Histories
  <2>2. QED
    BY <2>1 DEF Good, InStep, CrumbShows, PageShows, Restarting, Serving, Ended
<1>4. QED
  BY <1>1, <1>2, <1>3 DEF Jenkins

LEMMA Invariant == Spec => []IInv
<1>1. Init => IInv
  BY InitTypes, InitGood DEF IInv
<1>2. IInv /\ [Next]_vars => IInv'
  <2> SUFFICES ASSUME IInv, [Next]_vars PROVE IInv'
      OBVIOUS
  <2>1. TypeOK'
    BY TypesKept DEF IInv
  <2>2. ASSUME NEW d \in Replicas PROVE Good(d)'
    <3>1. CASE UNCHANGED vars
      BY <3>1, Bystander DEF IInv, vars
    <3>2. QED
      BY <3>1, ReplicaStep, NetworkStep, JenkinsStep DEF IInv, Next
  <2>3. QED
    BY <2>1, <2>2 DEF IInv
<1>3. QED
  BY <1>1, <1>2, PTL DEF Spec

(* A successful SafeRestartJenkins means a restart, although the status of  *)
(* its answer is not looked at, for any number of replicas, attempts and    *)
(* failures: the crumb is the evidence.                                     *)
THEOREM RestartIsDone == Spec => []RestartDone
<1>1. IInv => RestartDone
  BY DEF IInv, Good, CrumbShows, Restarting, RestartDone
<1>2. QED
  BY <1>1, Invariant, PTL

(* A successful CheckJenkinsReady was answered by a serving Jenkins while   *)
(* it lasted.                                                               *)
THEOREM ReadyIsAnswered == Spec => []ReadyMeansAnswered
<1>1. IInv => ReadyMeansAnswered
  BY DEF IInv, Good, PageShows, ReadyMeansAnswered
<1>2. QED
  BY <1>1, Invariant, PTL

(***************************************************************************)
(* A Jenkins that serves all the time answers.                             *)
(***************************************************************************)

(* While Jenkins has been serving since the call of c began, over           *)
(* connections that hold, no request of the call was declined, crumbs and   *)
(* login pages came back, and so the call did not fail.                     *)
Upheld(c) ==
    LET cl == client[c]
    IN  since[c].smooth /\ Reachable(site, JenkinsMasterPort) =>
           /\ Serving
           /\ ~Retriable(cl.answer)
           /\ cl.at = "crumb" /\ site.trust # "nobody" => cl.answer \in {"waiting", "json"}
           /\ cl.at = "login" => cl.answer \in {"waiting", "page"}
           /\ (result[c].call = "restart" => site.trust # "nobody") => result[c].how # "error"

LEMMA Found ==
    ASSUME TypeOK, Reachable(site, JenkinsMasterPort)
    PROVE  Routed /\ GetServiceEndpoint(site, site.nodes, JenkinsMasterPort) # NoEndpoint
<1>1. site \in Sites /\ WellFormed(site)
  BY DEF TypeOK
<1>2. JenkinsMasterPort \in Nat
  BY DEF JenkinsMasterPort
<1>3. QED
  BY <1>1, <1>2, EndpointLeads DEF Routed, Led

LEMMA InitUpheld == Init => \A c \in Replicas : Upheld(c)
<1> SUFFICES ASSUME Init, NEW c \in Replicas PROVE Upheld(c)
    OBVIOUS
<1>1. client[c] = Idle /\ result[c].how = "pending" /\ since[c] = Fresh
  BY DEF Init
<1>2. since[c].smooth => Serving
  BY <1>1 DEF Fresh
<1>3. QED
  BY <1>1, <1>2 DEF Upheld, Idle, Retriable

LEMMA LeftAlone ==
    ASSUME NEW d \in Replicas, Upheld(d),
           client'[d] = client[d], result'[d] = result[d], site' = site,
           since'[d].smooth => since[d].smooth /\ (Serving => Serving')
    PROVE  Upheld(d)'
BY DEF Upheld

LEMMA ReplicaUpholds ==
    ASSUME TypeOK, NEW c \in Replicas, NEW d \in Replicas, Good(d), Upheld(d), Replica(c)
    PROVE  Upheld(d)'
<1> /\ client[c] \in Clients /\ client \in [Replicas -> Clients]
    /\ result \in [Replicas -> Results] /\ since \in [Replicas -> Histories]
    BY DEF TypeOK
<1>1. UNCHANGED <<site, jenkins>> /\ Serving' = Serving
  BY DEF Replica, SafeRestartJenkins, CheckJenkinsReady, Call, Retry, UseCrumb, Follow,
         EndRestart, EndReady, Return, cluster, Serving
<1>2. CASE c # d
  <2>1. client'[d] = client[d] /\ result'[d] = result[d] /\ since'[d] = since[d]
    BY <1>2 DEF Replica, SafeRestartJenkins, CheckJenkinsReady, Call, Retry, UseCrumb, Follow,
                EndRestart, EndReady, Return
  <2>2. QED
    BY <1>1, <2>1, LeftAlone
<1>3. CASE c = d
  <2>1. ASSUME NEW call, NEW request \in {"crumb", "login"}, Call(c, call, request)
        PROVE  Upheld(d)'
    <3> SUFFICES ASSUME since'[c].smooth, Reachable(site, JenkinsMasterPort)
                 PROVE  /\ Serving
                        /\ client'[c].answer = "waiting"
                        /\ result'[c].how # "error"
        BY <1>1, <1>3 DEF Upheld, Retriable
    <3>1. GetServiceEndpoint(site, site.nodes, JenkinsMasterPort) # NoEndpoint
      BY Found
    <3>2. Fresh.smooth => Serving
      BY DEF Fresh
    <3>3. ~[Fresh EXCEPT !.smooth = FALSE].smooth
      BY DEF Fresh
    <3>4. since'[c] \in {Fresh, [Fresh EXCEPT !.smooth = FALSE]}
      BY <2>1 DEF Call
    <3>5. since'[c] = [Fresh EXCEPT !.smooth = FALSE] \/
            (client'[c] = First(call, request) /\ result'[c].how = "pending")
      BY <2>1, <3>1 DEF Call
    <3>6. since'[c] # [Fresh EXCEPT !.smooth = FALSE]
      BY <3>3
    <3>7. Serving
      BY <3>2, <3>4, <3>6
    <3>8. client'[c] = First(call, request) /\ result'[c].how = "pending"
      BY <3>5, <3>6
    <3>9. QED
      BY <3>7, <3>8 DEF First
  <2>2. CASE SafeRestartJenkins(c) \/ CheckJenkinsReady(c)
    BY <2>1, <2>2 DEF SafeRestartJenkins, CheckJenkinsReady
  <2>3. CASE ~(since[c].smooth /\ Reachable(site, JenkinsMasterPort)) /\ since' = since
    BY <1>1, <1>3, <2>3 DEF Upheld
  <2>4. CASE since[c].smooth /\ Reachable(site, JenkinsMasterPort)
    <3> USE <2>4, <1>3 DEF Upheld, Retriable
    <3>1. CASE Retry(c)
      BY <3>1 DEF Retry
    <3>2. CASE UseCrumb(c)
      <4>1. client[c].call = "restart" /\ since' = since
        BY <3>2 DEF UseCrumb, Answered, Good, InStep, Return
      <4>2. CASE ~IsCrumb(client[c].answer)
        <5>1. site.trust = "nobody"
          BY <3>2, <4>2 DEF UseCrumb, Answered, IsCrumb
        <5>2. client'[c] = Idle /\ result'[c].call = "restart"
          BY <3>2, <4>1, <4>2 DEF UseCrumb, Return
        <5>3. QED
          BY <1>1, <4>1, <5>1, <5>2 DEF Idle
      <4>3. CASE IsCrumb(client[c].answer)
        <5>1. client'[c] = First("restart", "post") /\ result' = result
          BY <3>2, <4>3 DEF UseCrumb
        <5>2. QED
          BY <1>1, <4>1, <5>1 DEF First
      <4>4. QED
        BY <4>2, <4>3
    <3>3. CASE Follow(c)
      <4>1. client'[c].at = "root" /\ client'[c].answer = "waiting" /\ UNCHANGED <<result, since>>
        BY <3>3 DEF Follow, Clients
      <4>2. QED
        BY <1>1, <4>1
    <3>4. CASE EndRestart(c)
      <4>1. client'[c] = Idle /\ result'[c].how = "ok" /\ since' = since
        BY <3>4 DEF EndRestart, IsError, Return
      <4>2. QED
        BY <1>1, <4>1 DEF Idle
    <3>5. CASE EndReady(c)
      <4>1. client'[c] = Idle /\ result'[c].how = "ok" /\ since' = since
        BY <3>5 DEF EndReady, Answered, StatusOK, Return
      <4>2. QED
        BY <1>1, <4>1 DEF Idle
    <3>6. QED
      BY <2>2, <3>1, <3>2, <3>3, <3>4, <3>5 DEF Replica
  <2>5. since' = since \/ SafeRestartJenkins(c) \/ CheckJenkinsReady(c)
    BY DEF Replica, Retry, UseCrumb, Follow, EndRestart, EndReady, Return
  <2>6. QED
    BY <2>2, <2>3, <2>4, <2>5
<1>4. QED
  BY <1>2, <1>3

LEMMA NetworkUpholds ==
    ASSUME TypeOK, NEW c \in Replicas, NEW d \in Replicas, Upheld(d), Network(c)
    PROVE  Upheld(d)'
<1> /\ client \in [Replicas -> Clients] /\ client[c] \in Clients
    /\ since \in [Replicas -> Histories]
    BY DEF TypeOK
<1>1. CASE Serve(c)
  <2>1. /\ UNCHANGED <<result, since, site>> /\ Serving /\ Serving'
    BY <1>1 DEF Serve, Sends, Serving
  <2>2. CASE c # d
    BY <2>1, <2>2, <1>1, LeftAlone DEF Serve, Sends
  <2>3. CASE c = d
    <3>1. client'[c].at = client[c].at /\ client'[c].answer = ServedAnswer(client[c].at)
      BY <1>1 DEF Serve, Sends, Clients
    <3>2. QED
      BY <2>1, <2>3, <3>1 DEF Upheld, ServedAnswer, Retriable
  <2>4. QED
    BY <2>2, <2>3
<1>2. CASE Decline(c)
  <2>1. UNCHANGED <<result, since, site, jenkins>> /\ Serving' = Serving
    BY <1>2 DEF Decline, Sends, Serving
  <2>2. CASE c # d
    BY <2>1, <2>2, <1>2, LeftAlone DEF Decline, Sends
  <2>3. CASE c = d
    <3>1. Reachable(site, JenkinsMasterPort) => ~Serving
      BY <1>2, Found DEF Decline, Serving
    <3>2. QED
      BY <2>1, <2>3, <3>1 DEF Upheld
  <2>4. QED
    BY <2>2, <2>3
<1>3. CASE Break(c)
  <2>1. ~since'[d].smooth
    BY <1>3 DEF Break, Disturbed, Histories
  <2>2. QED
    BY <2>1 DEF Upheld
<1>4. QED
  BY <1>1, <1>2, <1>3 DEF Network

LEMMA JenkinsUpholds ==
    ASSUME TypeOK, NEW d \in Replicas, Upheld(d), Jenkins
    PROVE  Upheld(d)'
<1> since \in [Replicas -> Histories] /\ since[d] \in Histories
    BY DEF TypeOK
<1>1. CASE ServeLate \/ StartPod
  BY <1>1, LeftAlone DEF ServeLate, StartPod, Serving
<1>2. CASE Restart \/ LosePod
  <2>1. ~since'[d].smooth
    BY <1>2 DEF Restart, LosePod, GoDown, Disturbed, Histories
  <2>2. QED
    BY <2>1 DEF Upheld
<1>3. CASE FinishBoot
  <2>1. since'[d].smooth = since[d].smooth /\ Serving' /\ UNCHANGED <<site, client, result>>
    BY <1>3 DEF FinishBoot, Histories, Serving
  <2>2. QED
    BY <2>1, LeftAlone
<1>4. QED
  BY <1>1, <1>2, <1>3 DEF Jenkins

(* Wherever the operator runs and however the Service is exposed to it, a   *)
(* call to a Jenkins that serves all the time, over connections that hold,  *)
(* succeeds.                                                                *)
THEOREM AnswersWhenUp == Spec => []AnsweredWhenUp
<1> DEFINE AllUpheld == \A c \in Replicas : Upheld(c)
<1>1. Init => AllUpheld
  BY InitUpheld
<1>2. AllUpheld /\ IInv /\ [Next]_vars => AllUpheld'
  <2> SUFFICES ASSUME AllUpheld, IInv, [Next]_vars, NEW d \in Replicas PROVE Upheld(d)'
      OBVIOUS
  <2>1. CASE UNCHANGED vars
    BY <2>1, LeftAlone DEF vars, Serving
  <2>2. QED
    BY <2>1, ReplicaUpholds, NetworkUpholds, JenkinsUpholds DEF IInv, Next
<1>3. AllUpheld => AnsweredWhenUp
  BY DEF Upheld, AnsweredWhenUp
<1> HIDE DEF AllUpheld
<1>4. QED
  BY <1>1, <1>2, <1>3, Invariant, PTL DEF Spec

(***************************************************************************)
(* Restarts are bounded.                                                   *)
(***************************************************************************)

(* The attempts at the POST that a call may still make, the one under way   *)
(* included.                                                                *)
Left(cl) ==
    CASE cl.at = "crumb" -> 1..MaxRetries
      [] cl.at = "post" /\ cl.answer = "waiting" -> cl.tries..MaxRetries
      [] (cl.at = "post" /\ cl.answer # "waiting") \/ cl.at = "root" -> (cl.tries + 1)..MaxRetries
      [] cl.at \in {"idle", "login"} -> {}

Outstanding == {attempt \in Replicas \X (0..MaxRetries) : attempt[2] \in Left(client[attempt[1]])}

(* Every call brings MaxRetries attempts; each is outstanding, or was spent *)
(* on at most one restart or one POST that is still on its way.             *)
Budget ==
    /\ IsFiniteSet(Outstanding)
    /\ asked + late + Cardinality(Outstanding) <= MaxRetries * calls

LEMMA Attempts ==
    /\ \A a \in Outstanding : a \in Replicas \X (0..MaxRetries)
    /\ \A c \in Replicas, i \in 0..MaxRetries :
          <<c, i>> \in Outstanding <=> i \in Left(client[c])
BY DEF Outstanding

(* Nobody gains an attempt.                                                 *)
LEMMA Shrinks ==
    ASSUME TypeOK, TypeOK', Budget, Outstanding' \subseteq Outstanding,
           asked' + late' <= asked + late, calls' = calls
    PROVE  Budget'
<1>1. /\ IsFiniteSet(Outstanding') /\ Cardinality(Outstanding') <= Cardinality(Outstanding)
      /\ Cardinality(Outstanding) \in Nat /\ Cardinality(Outstanding') \in Nat
  BY FS_Subset, FS_CardinalityType DEF Budget
<1>2. {asked, late, asked', late'} \subseteq Nat
  BY DEF TypeOK
<1>3. ASSUME NEW bound \in Nat, asked + late + Cardinality(Outstanding) <= bound
      PROVE  asked' + late' + Cardinality(Outstanding') <= bound
  BY <1>1, <1>2, <1>3
<1>4. MaxRetries * calls \in Nat
  BY DEF TypeOK
<1>5. QED
  BY <1>1, <1>3, <1>4 DEF Budget

(* An attempt is spent.                                                     *)
LEMMA Spends ==
    ASSUME TypeOK, TypeOK', Budget, NEW a \in Outstanding,
           Outstanding' \subseteq Outstanding \ {a},
           asked' + late' <= asked + late + 1, calls' = calls
    PROVE  Budget'
<1>1. /\ IsFiniteSet(Outstanding \ {a})
      /\ Cardinality(Outstanding \ {a}) = Cardinality(Outstanding) - 1
  BY FS_RemoveElement DEF Budget
<1>2. /\ IsFiniteSet(Outstanding') /\ Cardinality(Outstanding') <= Cardinality(Outstanding) - 1
      /\ Cardinality(Outstanding) \in Nat /\ Cardinality(Outstanding') \in Nat
  BY <1>1, FS_Subset, FS_CardinalityType DEF Budget
<1>3. {asked, late, asked', late'} \subseteq Nat
  BY DEF TypeOK
<1>4. ASSUME NEW bound \in Nat, asked + late + Cardinality(Outstanding) <= bound
      PROVE  asked' + late' + Cardinality(Outstanding') <= bound
  BY <1>2, <1>3, <1>4
<1>5. MaxRetries * calls \in Nat
  BY DEF TypeOK
<1>6. QED
  BY <1>2, <1>4, <1>5 DEF Budget

(* A call brings its attempts.                                              *)
LEMMA Begins ==
    ASSUME TypeOK, TypeOK', Budget, NEW c \in Replicas,
           Outstanding' \subseteq Outstanding \cup ({c} \X (1..MaxRetries)),
           UNCHANGED <<asked, late>>, calls' = calls + 1
    PROVE  Budget'
<1> DEFINE Batch == {c} \X (1..MaxRetries)
<1>1. IsFiniteSet(Batch) /\ Cardinality(Batch) <= MaxRetries
  <2>1. [i \in 1..MaxRetries |-> <<c, i>>] \in Surjection(1..MaxRetries, Batch)
    <3> DEFINE f == [i \in 1..MaxRetries |-> <<c, i>>]
    <3>1. f \in [1..MaxRetries -> Batch]
      OBVIOUS
    <3>2. \A a \in Batch : \E i \in 1..MaxRetries : f[i] = a
      <4>1. \A a \in Batch : a[2] \in 1..MaxRetries /\ a = <<c, a[2]>>
        OBVIOUS
      <4>2. QED
        BY <4>1
    <3> HIDE DEF f, Batch
    <3>3. f \in Surjection(1..MaxRetries, Batch)
      BY <3>1, <3>2 DEF Surjection
    <3>4. QED
      BY <3>3 DEF f
  <2>2. ExistsSurjection(1..MaxRetries, Batch)
    BY <2>1 DEF ExistsSurjection
  <2> HIDE DEF Batch
  <2>3. QED
    BY <2>2, FS_SurjCardinalityBound, FS_NatSurjection
<1> HIDE DEF Batch
<1>2. /\ IsFiniteSet(Outstanding \cup Batch)
      /\ Cardinality(Outstanding \cup Batch) <= Cardinality(Outstanding) + MaxRetries
  <2>1. /\ IsFiniteSet(Outstanding \cup Batch)
        /\ Cardinality(Outstanding \cup Batch)
             = Cardinality(Outstanding) + Cardinality(Batch) - Cardinality(Outstanding \cap Batch)
    BY <1>1, FS_Union DEF Budget
  <2>2. Cardinality(Outstanding \cap Batch) \in Nat
    BY FS_Intersection, FS_CardinalityType DEF Budget
  <2>3. Cardinality(Outstanding) \in Nat /\ Cardinality(Batch) \in Nat
    BY <1>1, FS_CardinalityType DEF Budget
  <2>4. QED
    BY <1>1, <2>1, <2>2, <2>3
<1>3. /\ IsFiniteSet(Outstanding')
      /\ Cardinality(Outstanding') <= Cardinality(Outstanding \cup Batch)
      /\ Cardinality(Outstanding) \in Nat /\ Cardinality(Outstanding') \in Nat
      /\ Cardinality(Outstanding \cup Batch) \in Nat
  <2>1. Outstanding' \in SUBSET (Outstanding \cup Batch)
    BY DEF Batch
  <2>2. QED
    BY <1>2, <2>1, FS_Subset, FS_CardinalityType DEF Budget
<1>4. {asked, late} \subseteq Nat
  BY DEF TypeOK
<1>5. ASSUME NEW bound \in Nat, asked + late + Cardinality(Outstanding) <= bound
      PROVE  asked' + late' + Cardinality(Outstanding') <= bound + MaxRetries
  BY <1>2, <1>3, <1>4, <1>5
<1>6. MaxRetries * calls \in Nat /\ MaxRetries * calls' = MaxRetries * calls + MaxRetries
  BY DEF TypeOK
<1>7. QED
  BY <1>3, <1>5, <1>6 DEF Budget

(* One client moves on, and its own attempts become no more.                *)
LEMMA MovesOn ==
    ASSUME TypeOK, NEW c \in Replicas, NEW cl, client' = [client EXCEPT ![c] = cl],
           Left(cl) \subseteq Left(client[c])
    PROVE  Outstanding' \subseteq Outstanding
<1>1. client'[c] = cl /\ \A d \in Replicas \ {c} : client'[d] = client[d]
  BY DEF TypeOK
<1>2. \A d \in Replicas : Left(client'[d]) \subseteq Left(client[d])
  BY <1>1
<1>3. QED
  BY <1>2 DEF Outstanding

LEMMA LeftOf ==
    ASSUME NEW cl \in Clients
    PROVE  /\ \A call \in CallKinds, request \in {"crumb", "login"} :
                 Left(First(call, request)) \subseteq 1..MaxRetries
           /\ Left(Idle) = {}
           /\ cl.at = "crumb" => Left(First("restart", "post")) = Left(cl)
           /\ cl.at = "post" /\ cl.answer = "moved" =>
                 Left([cl EXCEPT !.at = "root", !.answer = "waiting"]) = Left(cl)
<1>1. \A call, request : /\ First(call, request).at = request
                         /\ First(call, request).answer = "waiting"
                         /\ First(call, request).tries = 1
  BY DEF First
<1>2. \A call \in CallKinds, request \in {"crumb", "login"} :
         Left(First(call, request)) \subseteq 1..MaxRetries
  BY <1>1 DEF Left
<1>3. Left(Idle) = {}
  BY DEF Left, Idle
<1>4. ASSUME cl.at = "crumb" PROVE Left(First("restart", "post")) = Left(cl)
  <2>1. Left(First("restart", "post")) = 1..MaxRetries
    BY <1>1 DEF Left
  <2>2. QED
    BY <1>4, <2>1 DEF Left
<1>5. ASSUME cl.at = "post", cl.answer = "moved"
      PROVE  Left([cl EXCEPT !.at = "root", !.answer = "waiting"]) = Left(cl)
  <2> DEFINE next == [cl EXCEPT !.at = "root", !.answer = "waiting"]
  <2>1. next.at = "root" /\ next.tries = cl.tries
    BY DEF Clients
  <2> HIDE DEF next
  <2>2. Left(next) = (cl.tries + 1)..MaxRetries
    BY <2>1 DEF Left
  <2>3. QED
    BY <1>5, <2>2 DEF Left, next
<1>6. QED
  BY <1>2, <1>3, <1>4, <1>5

LEMMA LeftAfter ==
    ASSUME NEW cl \in Clients, NEW answer \in Answers \ {"waiting"}
    PROVE  /\ Retriable(cl.answer) => Left(Attempt(cl)) \subseteq Left(cl)
           /\ cl.answer = "waiting" =>
                 /\ Left([cl EXCEPT !.answer = answer]) \subseteq Left(cl)
                 /\ cl.at = "post" => /\ cl.tries \in Left(cl)
                                     /\ cl.tries \notin Left([cl EXCEPT !.answer = answer])
<1>1. cl.tries \in 0..MaxRetries /\ cl.at \in Requests \cup {"idle"}
  BY DEF Clients
<1>2. ASSUME Retriable(cl.answer) PROVE Left(Attempt(cl)) \subseteq Left(cl)
  <2>1. /\ Attempt(cl).at = IF cl.at = "root" THEN "post" ELSE cl.at
        /\ Attempt(cl).tries = cl.tries + 1 /\ Attempt(cl).answer = "waiting"
    BY DEF Attempt, Clients
  <2>2. CASE cl.at \in {"post", "root"}
    <3>1. Left(Attempt(cl)) = (cl.tries + 1)..MaxRetries
      BY <2>1, <2>2 DEF Left
    <3>2. Left(cl) = (cl.tries + 1)..MaxRetries
      BY <1>2, <2>2 DEF Left, Retriable
    <3>3. QED
      BY <3>1, <3>2
  <2>3. CASE cl.at \in {"crumb", "login", "idle"}
    BY <2>1, <2>3 DEF Left
  <2>4. QED
    BY <1>1, <2>2, <2>3 DEF Requests
<1>3. ASSUME cl.answer = "waiting"
      PROVE  /\ Left([cl EXCEPT !.answer = answer]) \subseteq Left(cl)
             /\ cl.at = "post" => /\ cl.tries \in Left(cl)
                                 /\ cl.tries \notin Left([cl EXCEPT !.answer = answer])
  <2> DEFINE next == [cl EXCEPT !.answer = answer]
  <2>1. next.at = cl.at /\ next.tries = cl.tries /\ next.answer # "waiting"
    BY DEF Clients
  <2> HIDE DEF next
  <2>2. CASE cl.at = "post"
    <3>1. Left(cl) = cl.tries..MaxRetries
      BY <1>3, <2>2 DEF Left
    <3>2. Left(next) = (cl.tries + 1)..MaxRetries
      BY <2>1, <2>2 DEF Left
    <3>3. QED
      BY <1>1, <3>1, <3>2 DEF next
  <2>3. CASE cl.at \in {"crumb", "login", "idle", "root"}
    <3>1. Left(next) = Left(cl)
      BY <2>1, <2>3 DEF Left
    <3>2. QED
      BY <2>3, <3>1 DEF next
  <2>4. QED
    BY <1>1, <2>2, <2>3 DEF Requests
<1>4. QED
  BY <1>2, <1>3

LEMMA ReplicaPays ==
    ASSUME TypeOK, TypeOK', Budget, NEW c \in Replicas, Replica(c)
    PROVE  Budget'
<1>1. client[c] \in Clients /\ client \in [Replicas -> Clients]
  BY DEF TypeOK
<1>2. ASSUME NEW call \in CallKinds, NEW request \in {"crumb", "login"}, Call(c, call, request)
      PROVE  Budget'
  <2>1. client' = client \/ client' = [client EXCEPT ![c] = First(call, request)]
    BY <1>2 DEF Call
  <2>2. \A d \in Replicas : d # c => client'[d] = client[d]
    BY <2>1, <1>1
  <2>3. client'[c] = client[c] \/ Left(client'[c]) \subseteq 1..MaxRetries
    BY <2>1, <1>1, LeftOf
  <2>4. Outstanding' \subseteq Outstanding \cup ({c} \X (1..MaxRetries))
    BY <2>2, <2>3 DEF Outstanding
  <2>5. UNCHANGED <<asked, late>> /\ calls' = calls + 1
    BY <1>2 DEF Call, cluster
  <2>6. QED
    BY <2>4, <2>5, Begins
<1>3. CASE SafeRestartJenkins(c) \/ CheckJenkinsReady(c)
  BY <1>2, <1>3 DEF SafeRestartJenkins, CheckJenkinsReady, CallKinds
<1>4. ASSUME NEW cl, client' = [client EXCEPT ![c] = cl], Left(cl) \subseteq Left(client[c]),
             UNCHANGED <<cluster, calls>>
      PROVE  Budget'
  <2>1. Outstanding' \subseteq Outstanding
    BY <1>4, MovesOn
  <2>2. asked' + late' <= asked + late
    BY <1>4 DEF cluster, TypeOK
  <2>3. QED
    BY <1>4, <2>1, <2>2, Shrinks
<1>5. ASSUME NEW how, Return(c, how) PROVE Budget'
  BY <1>1, <1>4, <1>5, LeftOf DEF Return
<1>6. CASE Retry(c)
  <2>1. Left(Attempt(client[c])) \subseteq Left(client[c])
    <3>1. "refused" \in Answers \ {"waiting"}
      BY DEF Answers
    <3>2. QED
      BY <1>1, <1>6, <3>1, LeftAfter DEF Retry
  <2>2. QED
    BY <1>4, <1>6, <2>1 DEF Retry
<1>7. CASE UseCrumb(c)
  <2>1. Left(First("restart", "post")) \subseteq Left(client[c])
    BY <1>1, <1>7, LeftOf DEF UseCrumb, Answered
  <2>2. QED
    BY <1>4, <1>5, <1>7, <2>1 DEF UseCrumb
<1>8. CASE Follow(c)
  <2>1. Left([client[c] EXCEPT !.at = "root", !.answer = "waiting"]) \subseteq Left(client[c])
    BY <1>1, <1>8, LeftOf DEF Follow
  <2>2. client' = [client EXCEPT ![c] = [client[c] EXCEPT !.at = "root", !.answer = "waiting"]]
    BY <1>1, <1>8 DEF Follow
  <2>3. QED
    BY <1>4, <1>8, <2>1, <2>2 DEF Follow
<1>9. CASE EndRestart(c) \/ EndReady(c)
  BY <1>5, <1>9 DEF EndRestart, EndReady
<1>10. QED
  BY <1>3, <1>6, <1>7, <1>8, <1>9 DEF Replica

LEMMA NetworkPays ==
    ASSUME TypeOK, TypeOK', Budget, NEW c \in Replicas, Network(c)
    PROVE  Budget'
<1>1. /\ client[c] \in Clients /\ client \in [Replicas -> Clients]
      /\ {asked, late, asked', late'} \subseteq Nat /\ client[c].tries \in 0..MaxRetries
  BY DEF TypeOK, Clients
<1> DEFINE After(answer) == [client[c] EXCEPT !.answer = answer]
<1>2. ASSUME NEW answer \in Answers \ {"waiting"}, client[c].answer = "waiting",
             client' = [client EXCEPT ![c] = After(answer)], calls' = calls,
             \/ asked' + late' <= asked + late
             \/ client[c].at = "post" /\ asked' + late' <= asked + late + 1
      PROVE  Budget'
  <2>1. /\ Left(After(answer)) \subseteq Left(client[c])
        /\ client[c].at = "post" => /\ client[c].tries \in Left(client[c])
                                   /\ client[c].tries \notin Left(After(answer))
    BY <1>1, <1>2, LeftAfter
  <2> HIDE DEF After
  <2>2. Outstanding' \subseteq Outstanding
    BY <1>2, <2>1, MovesOn
  <2>3. CASE asked' + late' <= asked + late
    BY <1>2, <2>2, <2>3, Shrinks
  <2>4. CASE client[c].at = "post" /\ asked' + late' <= asked + late + 1
    <3> DEFINE a == <<c, client[c].tries>>
    <3>1. a \in Outstanding
      BY <1>1, <2>1, <2>4 DEF Outstanding
    <3>2. client'[c] = After(answer)
      BY <1>1, <1>2
    <3>3. a \notin Outstanding'
      BY <2>1, <2>4, <3>2 DEF Outstanding
    <3> HIDE DEF a
    <3>4. QED
      BY <1>2, <2>2, <2>4, <3>1, <3>3, Spends
  <2>5. QED
    BY <1>2, <2>3, <2>4
<1>3. \A answer : [client EXCEPT ![c].answer = answer] = [client EXCEPT ![c] = After(answer)]
  BY <1>1
<1> HIDE DEF After
<1>4. CASE Serve(c)
  <2>1. ServedAnswer(client[c].at) \in Answers \ {"waiting"}
    BY DEF ServedAnswer, Answers
  <2>2. /\ client[c].answer = "waiting" /\ calls' = calls /\ late' = late
        /\ client' = [client EXCEPT ![c] = After(ServedAnswer(client[c].at))]
        /\ asked' = asked \/ (client[c].at = "post" /\ asked' = asked + 1)
    BY <1>3, <1>4 DEF Serve, Waiting, Sends
  <2>3. \/ asked' + late' <= asked + late
        \/ client[c].at = "post" /\ asked' + late' <= asked + late + 1
    BY <1>1, <2>2
  <2>4. QED
    BY <1>2, <2>1, <2>2, <2>3
<1>5. CASE Decline(c)
  <2>1. PICK answer \in {"unavailable", "refused"} : Waiting(c) /\ Sends(c, answer) /\ asked' = asked
    BY <1>5 DEF Decline
  <2>2. /\ client[c].answer = "waiting" /\ calls' = calls
        /\ client' = [client EXCEPT ![c] = After(answer)]
        /\ asked' = asked /\ late' = late
    BY <1>3, <2>1 DEF Waiting, Sends
  <2>3. asked' + late' <= asked + late
    BY <1>1, <2>2
  <2>4. answer \in Answers \ {"waiting"}
    BY DEF Answers
  <2>5. QED
    BY <1>2, <2>2, <2>3, <2>4
<1>6. CASE Break(c)
  <2>1. /\ client[c].answer = "waiting" /\ calls' = calls /\ asked' = asked
        /\ client' = [client EXCEPT ![c] = After("refused")]
        /\ late' = late \/ (client[c].at = "post" /\ late' = late + 1)
    BY <1>3, <1>6 DEF Break, Waiting
  <2>2. \/ asked' + late' <= asked + late
        \/ client[c].at = "post" /\ asked' + late' <= asked + late + 1
    BY <1>1, <2>1
  <2>3. "refused" \in Answers \ {"waiting"}
    BY DEF Answers
  <2>4. QED
    BY <1>2, <2>1, <2>2, <2>3
<1>7. QED
  BY <1>4, <1>5, <1>6 DEF Network

LEMMA JenkinsPays ==
    ASSUME TypeOK, TypeOK', Budget, Jenkins
    PROVE  Budget'
<1>1. client' = client /\ calls' = calls
  BY DEF Jenkins, ServeLate, Restart, LosePod, GoDown, StartPod, FinishBoot
<1>2. asked' + late' <= asked + late
  BY DEF Jenkins, ServeLate, Restart, LosePod, GoDown, StartPod, FinishBoot, TypeOK
<1>3. Outstanding' = Outstanding
  BY <1>1 DEF Outstanding
<1>4. QED
  BY <1>1, <1>2, <1>3, Shrinks

(* Jenkins is never asked to restart more often than MaxRetries times for   *)
(* each call, whatever is repeated and however late it comes.               *)
THEOREM RestartsAreBounded == Spec => []RestartsBounded
<1>1. Init => Budget
  <2> SUFFICES ASSUME Init PROVE Budget
      OBVIOUS
  <2>1. \A c \in Replicas : client[c].at = "idle"
    BY DEF Init, Idle
  <2>2. Outstanding = {}
    BY <2>1 DEF Outstanding, Left
  <2>3. asked = 0 /\ late = 0 /\ calls = 0 /\ MaxRetries * 0 = 0
    BY DEF Init
  <2>4. QED
    BY <2>2, <2>3, FS_EmptySet DEF Budget
<1>2. TypeOK /\ TypeOK' /\ Budget /\ [Next]_vars => Budget'
  <2> SUFFICES ASSUME TypeOK, TypeOK', Budget, [Next]_vars PROVE Budget'
      OBVIOUS
  <2>1. CASE UNCHANGED vars
    BY <2>1 DEF vars, Budget, Outstanding
  <2>2. QED
    BY <2>1, ReplicaPays, NetworkPays, JenkinsPays DEF Next
<1>3. TypeOK /\ Budget => RestartsBounded
  <2> SUFFICES ASSUME TypeOK, Budget PROVE RestartsBounded
      OBVIOUS
  <2>1. Cardinality(Outstanding) \in Nat
    BY FS_CardinalityType DEF Budget
  <2>2. {asked, late} \subseteq Nat /\ MaxRetries * calls \in Nat
    BY DEF TypeOK
  <2>3. \A bound \in Nat : asked + late + Cardinality(Outstanding) <= bound => asked <= bound
    BY <2>1, <2>2
  <2>4. QED
    BY <2>2, <2>3 DEF Budget, RestartsBounded
<1>4. QED
  BY <1>1, <1>2, <1>3, HttpTypes, PTL DEF Spec
=============================================================================
