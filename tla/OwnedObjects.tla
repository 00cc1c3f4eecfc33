---------------------------- MODULE OwnedObjects ----------------------------
(***************************************************************************)
(* What the operator promises to the users of a cluster, said without a    *)
(* cache, a queue, a worker or a replica.  Users make instances and take   *)
(* them away.  Every object in the cluster is a user's or is provided,     *)
(* once and in one step, for an instance of its own namespace that has     *)
(* been there; it is never handed over, and it goes only when a user       *)
(* deletes it or when its owner is gone.                                   *)
(***************************************************************************)
CONSTANTS
    InstanceKeys,  \* the keys at which instances may be
    ObjectKeys,    \* the keys at which other objects may be
    UserKeys,      \* the keys at which users make something
    Deletable,     \* the keys at which users delete
    Uids,          \* identities of instances: [ns, name, gen]
    NoOwner,       \* the owner of what users made
    Nobody         \* nothing is there

VARIABLES
    present,  \* the identity of the instance at each instance key
    born,     \* the identities of all instances there have ever been
    owner     \* the owner of the object at each other key

vars == <<present, born, owner>>

Live == {present[k] : k \in InstanceKeys} \ {Nobody}

(* An identity of an instance at key k that has not been used before.       *)
FreshAt(k, u) == u \in Uids \ born /\ u.ns = k.ns /\ u.name = k.name

Init ==
    /\ present \in [InstanceKeys -> Uids \cup {Nobody}]
    /\ \A k \in InstanceKeys : present[k] # Nobody =>
          present[k].ns = k.ns /\ present[k].name = k.name
    /\ born = Live
    /\ owner \in [ObjectKeys -> {NoOwner, Nobody}]

-----------------------------------------------------------------------------
(* Instances come and go with their users.                                  *)

Bear(k) ==
    /\ k \in UserKeys
    /\ present[k] = Nobody
    /\ LET u == present'[k]
       IN  /\ FreshAt(k, u)
           /\ present' = [present EXCEPT ![k] = u]
           /\ born' = born \cup {u}
    /\ UNCHANGED owner

Bury(k) ==
    /\ k \in Deletable
    /\ present[k] # Nobody
    /\ present' = [present EXCEPT ![k] = Nobody]
    /\ UNCHANGED <<born, owner>>

-----------------------------------------------------------------------------
(* Objects are made by users or provided for an instance.                   *)

Submit(k) ==
    /\ k \in UserKeys
    /\ owner[k] = Nobody
    /\ owner' = [owner EXCEPT ![k] = NoOwner]
    /\ UNCHANGED <<present, born>>

Provide(k) ==
    /\ owner[k] = Nobody
    /\ LET u == owner'[k]
       IN  /\ u # Nobody /\ u \in born /\ u.ns = k.ns
           /\ owner' = [owner EXCEPT ![k] = u]
    /\ UNCHANGED <<present, born>>

Remove(k) ==
    /\ owner[k] # Nobody /\ owner'[k] = Nobody
    /\ k \in Deletable \/ owner[k] \notin Live \cup {NoOwner}
    /\ owner' = [owner EXCEPT ![k] = Nobody]
    /\ UNCHANGED <<present, born>>

Next == \/ \E k \in InstanceKeys : Bear(k) \/ Bury(k)
        \/ \E k \in ObjectKeys : Submit(k) \/ Provide(k) \/ Remove(k)

Spec == Init /\ [][Next]_vars
=============================================================================
