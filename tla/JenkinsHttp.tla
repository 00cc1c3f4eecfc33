----------------------------- MODULE JenkinsHttp -----------------------------
(***************************************************************************)
(* What a replica's HTTP calls do to the Jenkins behind a Service:         *)
(* SafeRestartJenkins (a crumb, then the POST) and CheckJenkinsReady, each *)
(* request sent through pester, which tries it again after a lost          *)
(* connection or a 5xx, up to MaxRetries times in all.                     *)
(*                                                                         *)
(* JenkinsInstanceController takes each call in one step; this module says *)
(* what may happen inside such a step, when connections break, Jenkins     *)
(* goes down in the middle of it, and other replicas call it too.          *)
(***************************************************************************)
EXTENDS ServiceEndpoint

CONSTANTS
    Replicas,    \* the replicas that call Jenkins
    Sites,       \* where they may run, and what their credentials are good for
    MaxRetries,  \* pester: attempts at a request in all
    MaxCalls,    \* bound: calls in all
    MaxFaults,   \* bound: broken connections, failed lists, lost pods
    MaxDowns     \* bound: how often Jenkins goes down

ASSUME HttpAssumption ==
    /\ MaxRetries \in Nat \ {0}
    /\ {MaxCalls, MaxFaults, MaxDowns} \subseteq Nat
    /\ \A where \in Sites : WellFormed(where)

VARIABLES
    site,     \* where the operator runs; its credentials are site.trust
    client,   \* each replica's call: the request it is at, the attempt, the answer
    result,   \* each replica: how its last call ended
    jenkins,  \* "up", "quieting" before a safe restart, "booting", "gone"
    late,     \* POSTs their clients gave up on which Jenkins may still get
    downs,    \* how often Jenkins went down
    asked,    \* how often Jenkins was asked to restart and agreed
    since,    \* each replica, since its call began: see Fresh
    calls, faults

vars == <<site, client, result, jenkins, late, downs, asked, since, calls, faults>>
cluster == <<site, jenkins, late, downs, asked>>

Trusts == {"admin", "reader", "nobody"}
Requests == {"crumb", "post", "root", "login"}
Answers == {"waiting", "refused", "unavailable", "json", "moved", "page", "denied"}
CallKinds == {"none", "restart", "ready"}
Clients == [at : Requests \cup {"idle"}, call : CallKinds, tries : 0..MaxRetries, answer : Answers]
Results == [call : CallKinds, how : {"pending", "ok", "error"}]
Histories == [downs : Nat, served : BOOLEAN, smooth : BOOLEAN]

Serving == jenkins \in {"up", "quieting"}
Fault == faults < MaxFaults /\ faults' = faults + 1

(* History: how often Jenkins had gone down when the call began, whether it *)
(* has been serving at some moment since, and whether at every moment and   *)
(* without a fault.                                                         *)
Fresh == [downs |-> downs, served |-> Serving, smooth |-> Serving]
Disturbed == since' = [c \in Replicas |-> [since[c] EXCEPT !.smooth = FALSE]]

-----------------------------------------------------------------------------
(* pester: one attempt at a request after the other.                        *)

Idle == [at |-> "idle", call |-> "none", tries |-> 0, answer |-> "waiting"]
First(call, request) == [at |-> request, call |-> call, tries |-> 1, answer |-> "waiting"]

(* Mutant: attempts are not counted.                                        *)
Uncounted(cl) == [cl EXCEPT !.at = IF @ = "root" THEN "post" ELSE @, !.answer = "waiting"]

(* The next attempt starts at the request itself, not where it was          *)
(* redirected to.                                                           *)
Attempt(cl) == [cl EXCEPT !.at = IF @ = "root" THEN "post" ELSE @,
                          !.tries = @ + 1, !.answer = "waiting"]

(* Mutant: one attempt more.                                                *)
OneMoreTry(cl) == cl.tries <= MaxRetries
TriesLeft(cl) == cl.tries < MaxRetries

(* No answer, or a status of 500 and above.  After the last attempt the     *)
(* latter is handed to the caller as an answer like any other.              *)
Retriable(answer) == answer \in {"refused", "unavailable"}
IsError(answer) == answer = "refused"

Retry(c) ==
    /\ Retriable(client[c].answer) /\ TriesLeft(client[c])
    /\ client' = [client EXCEPT ![c] = Attempt(@)]
    /\ UNCHANGED <<cluster, result, since, calls, faults>>

Answered(c, request) ==
    /\ client[c].at = request
    /\ client[c].answer # "waiting"
    /\ Retriable(client[c].answer) => ~TriesLeft(client[c])

Return(c, how) ==
    /\ client' = [client EXCEPT ![c] = Idle]
    /\ result' = [result EXCEPT ![c] = [call |-> client[c].call, how |-> how]]
    /\ UNCHANGED <<cluster, since, calls, faults>>

-----------------------------------------------------------------------------
(* SafeRestartJenkins and CheckJenkinsReady.                                *)

(* Out of the cluster the nodes are listed at every call; a list may fail.  *)
Call(c, call, request) ==
    /\ client[c].at = "idle" /\ calls < MaxCalls
    /\ \/ /\ GetServiceEndpoint(site, site.nodes, JenkinsMasterPort) # NoEndpoint
          /\ client' = [client EXCEPT ![c] = First(call, request)]
          /\ result' = [result EXCEPT ![c] = [call |-> call, how |-> "pending"]]
          /\ since' = [since EXCEPT ![c] = Fresh]
          /\ UNCHANGED faults
       \/ /\ GetServiceEndpoint(site, site.nodes, JenkinsMasterPort) = NoEndpoint
          /\ result' = [result EXCEPT ![c] = [call |-> call, how |-> "error"]]
          /\ since' = [since EXCEPT ![c] = Fresh]
          /\ UNCHANGED <<client, faults>>
       \/ /\ Fault
          /\ GetServiceEndpoint(site, <<>>, JenkinsMasterPort) = NoEndpoint
          /\ result' = [result EXCEPT ![c] = [call |-> call, how |-> "error"]]
          /\ since' = [since EXCEPT ![c] = [Fresh EXCEPT !.smooth = FALSE]]
          /\ UNCHANGED client
    /\ calls' = calls + 1
    /\ UNCHANGED cluster

SafeRestartJenkins(c) == Call(c, "restart", "crumb")
CheckJenkinsReady(c) == Call(c, "ready", "login")

(* Mutant: what was answered is taken for a crumb, whatever it is.          *)
AnyCrumb(answer) == ~IsError(answer)

(* getCSRFToken does not look at the status, but only a crumb is JSON.      *)
IsCrumb(answer) == answer = "json"

UseCrumb(c) ==
    /\ Answered(c, "crumb")
    /\ \/ ~IsCrumb(client[c].answer) /\ Return(c, "error")
       \/ /\ IsCrumb(client[c].answer)
          /\ client' = [client EXCEPT ![c] = First("restart", "post")]
          /\ UNCHANGED <<cluster, result, since, calls, faults>>

(* A redirect is followed within the attempt, as a GET.                     *)
Follow(c) ==
    /\ client[c].at = "post" /\ client[c].answer = "moved"
    /\ client' = [client EXCEPT ![c].at = "root", ![c].answer = "waiting"]
    /\ UNCHANGED <<cluster, result, since, calls, faults>>

(* Any answer is a success, a refusal and the last 5xx included.            *)
EndRestart(c) ==
    /\ Answered(c, "post") \/ Answered(c, "root")
    /\ client[c].answer # "moved"
    /\ Return(c, IF IsError(client[c].answer) THEN "error" ELSE "ok")

(* Mutant: the status is not looked at.                                     *)
AnyStatus(answer) == ~IsError(answer)
StatusOK(answer) == answer = "page"

EndReady(c) ==
    /\ Answered(c, "login")
    /\ Return(c, IF StatusOK(client[c].answer) THEN "ok" ELSE "error")

Replica(c) ==
    \/ SafeRestartJenkins(c) \/ CheckJenkinsReady(c)
    \/ Retry(c) \/ UseCrumb(c) \/ Follow(c) \/ EndRestart(c) \/ EndReady(c)

-----------------------------------------------------------------------------
(* Jenkins and the network.                                                 *)

Waiting(c) == client[c].at # "idle" /\ client[c].answer = "waiting"
Sends(c, answer) ==
    /\ client' = [client EXCEPT ![c].answer = answer]
    /\ UNCHANGED <<site, result, late, downs, since, calls, faults>>

(* The sites from which the endpoint that is found leads to Jenkins.        *)
Led == {where \in Sites :
           LeadsTo(where, GetServiceEndpoint(where, where.nodes, JenkinsMasterPort), JenkinsMasterPort)}
Routed == site \in Led

(* Login pages are shown to anyone, crumbs to those who may read, and only  *)
(* an administrator restarts Jenkins, with a redirect for an answer.        *)
ServedAnswer(request) ==
    CASE request = "crumb" -> IF site.trust # "nobody" THEN "json" ELSE "denied"
      [] request = "post" -> IF site.trust = "admin" THEN "moved" ELSE "denied"
      [] OTHER -> "page"

Serve(c) ==
    LET restart == client[c].at = "post" /\ site.trust = "admin"
    IN  /\ Waiting(c) /\ Routed /\ Serving
        /\ Sends(c, ServedAnswer(client[c].at))
        /\ jenkins' = IF restart THEN "quieting" ELSE jenkins
        /\ asked' = IF restart THEN asked + 1 ELSE asked

(* While Jenkins boots it answers 503; without it, or at a wrong endpoint,  *)
(* there is nobody to connect to.                                           *)
Decline(c) ==
    /\ Waiting(c)
    /\ \/ Routed /\ jenkins = "booting" /\ Sends(c, "unavailable")
       \/ (Routed => jenkins = "gone") /\ Sends(c, "refused")
    /\ UNCHANGED <<jenkins, asked>>

(* A connection breaks; a POST that was on it may still get to Jenkins.     *)
Break(c) ==
    /\ Waiting(c) /\ Fault
    /\ client' = [client EXCEPT ![c].answer = "refused"]
    /\ late' \in {late} \cup (IF client[c].at = "post" THEN {late + 1} ELSE {})
    /\ Disturbed
    /\ UNCHANGED <<site, result, jenkins, downs, asked, calls>>

ServeLate ==
    /\ late > 0 /\ Routed /\ Serving
    /\ late' = late - 1
    /\ jenkins' = IF site.trust = "admin" THEN "quieting" ELSE jenkins
    /\ asked' = IF site.trust = "admin" THEN asked + 1 ELSE asked
    /\ UNCHANGED <<site, client, result, downs, since, calls, faults>>

(* The safe restart takes place, or the pod is lost; connections go with    *)
(* it.                                                                      *)
GoDown(to) ==
    /\ downs < MaxDowns
    /\ jenkins' = to
    /\ downs' = downs + 1
    /\ late' = 0
    /\ Disturbed
    /\ UNCHANGED <<site, client, result, asked, calls>>

Restart == jenkins = "quieting" /\ GoDown("booting") /\ UNCHANGED faults
LosePod == Serving /\ Fault /\ GoDown("gone")

StartPod ==
    /\ jenkins = "gone"
    /\ jenkins' = "booting"
    /\ UNCHANGED <<site, client, result, late, downs, asked, since, calls, faults>>

FinishBoot ==
    /\ jenkins = "booting"
    /\ jenkins' = "up"
    /\ since' = [c \in Replicas |-> [since[c] EXCEPT !.served = TRUE]]
    /\ UNCHANGED <<site, client, result, late, downs, asked, calls, faults>>

Network(c) == Serve(c) \/ Decline(c) \/ Break(c)
Jenkins == ServeLate \/ Restart \/ LosePod \/ StartPod \/ FinishBoot

-----------------------------------------------------------------------------
Init ==
    /\ site \in Sites
    /\ client = [c \in Replicas |-> Idle]
    /\ result = [c \in Replicas |-> [call |-> "none", how |-> "pending"]]
    /\ jenkins \in {"up", "booting", "gone"}
    /\ late = 0 /\ downs = 0 /\ asked = 0
    /\ since = [c \in Replicas |-> Fresh]
    /\ calls = 0 /\ faults = 0

Next == Jenkins \/ \E c \in Replicas : Replica(c) \/ Network(c)

Spec == Init /\ [][Next]_vars

(* A client goes on with an answer it has, and a request is answered or     *)
(* its connection ends.  The client sets no timeout: a Jenkins that never   *)
(* answers would hold the worker for ever.  Jenkins owes no one a restart.  *)
Fairness == \A c \in Replicas :
    /\ WF_vars(Retry(c) \/ UseCrumb(c) \/ Follow(c) \/ EndRestart(c) \/ EndReady(c))
    /\ WF_vars(Serve(c) \/ Decline(c))

FairSpec == Spec /\ Fairness

-----------------------------------------------------------------------------
(* Properties.                                                              *)

(* Every variable has its type; no request is tried more often than pester  *)
(* is told to.                                                              *)
TypeOK ==
    /\ site \in Sites
    /\ client \in [Replicas -> Clients]
    /\ result \in [Replicas -> Results]
    /\ jenkins \in {"up", "quieting", "booting", "gone"}
    /\ {late, downs, asked, calls, faults} \subseteq Nat
    /\ since \in [Replicas -> Histories]

Ended(c, call, how) == result[c] = [call |-> call, how |-> how]

(* SafeRestartJenkins drops the status of the answer, and pester hands it   *)
(* the last 503 as an answer.  Even so, with credentials that may restart   *)
(* Jenkins, a success means that since the call began Jenkins went down or  *)
(* is about to: the crumb shows it was serving, so what declines the POST   *)
(* came after.                                                              *)
RestartDone ==
    \A c \in Replicas :
       Ended(c, "restart", "ok") /\ site.trust = "admin" =>
          downs > since[c].downs \/ jenkins = "quieting"

(* A check that succeeds was answered by a Jenkins that was serving while   *)
(* the call lasted, not by one that boots, and not by an earlier one.       *)
ReadyMeansAnswered ==
    \A c \in Replicas : Ended(c, "ready", "ok") => since[c].served

(* Wherever the operator runs and however the Service is exposed to it, a   *)
(* call to a Jenkins that serves all the time, over connections that hold,  *)
(* succeeds; a restart, if the credentials are good for a crumb.            *)
AnsweredWhenUp ==
    \A c \in Replicas :
       /\ since[c].smooth /\ Reachable(site, JenkinsMasterPort)
       /\ result[c].call = "restart" => site.trust # "nobody"
       => result[c].how # "error"

(* A POST is repeated blindly, and given-up ones may arrive late, but one   *)
(* call never makes Jenkins restart more often than it may try.             *)
RestartsBounded == asked <= MaxRetries * calls

(* Every call returns, so that the one worker of a replica is not held.     *)
Terminates == \A c \in Replicas : client[c].at # "idle" ~> client[c].at = "idle"
=============================================================================
