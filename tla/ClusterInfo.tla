---- MODULE ClusterInfo ----
(***************************************************************************)
(* The garage_cluster_info data source (internal/datasources/clusterinfo): *)
(* how the answer of GetClusterStatus becomes Terraform values.  A Go      *)
(* pointer is a set with the one value it points to, or none.              *)
(***************************************************************************)
EXTENDS Integers, Sequences, TLC

CONSTANT Null   \* Terraform's null

\* A mutant: nil becomes the empty string.
stringPtrToEmpty(p) == IF p = {} THEN "" ELSE CHOOSE v \in p : TRUE

stringPtrToValue(p) == IF p = {} THEN Null ELSE CHOOSE v \in p : TRUE

int64PtrToValue(p) == IF p = {} THEN Null ELSE CHOOSE v \in p : TRUE

NodeRoleModel(role) == [
    zone |-> role.zone,
    capacity |-> int64PtrToValue(role.capacity),
    tags |-> role.tags
]

NodeModel(n) == [
    id |-> n.id,
    addr |-> stringPtrToValue(n.addr),
    hostname |-> stringPtrToValue(n.hostname),
    garageVersion |-> stringPtrToValue(n.garageVersion),
    isUp |-> n.isUp,
    draining |-> n.draining,
    lastSeenSecsAgo |-> int64PtrToValue(n.lastSeenSecsAgo),
    role |-> IF n.role = {} THEN Null ELSE NodeRoleModel(CHOOSE r \in n.role : TRUE)
]

\* What Read writes to the state.  The synthetic id is the layout version in
\* decimal.
Model(status) == [
    id |-> ToString(status.layoutVersion),
    layoutVersion |-> status.layoutVersion,
    nodes |-> [i \in DOMAIN status.nodes |-> NodeModel(status.nodes[i])]
]

----
(* What Garage may answer, for the assumption on the answers *)

IsPointer(p) == p = {} \/ \E v \in p : p = {v} /\ v # Null

IsRole(r) ==
    /\ r \in [zone : {r.zone}, capacity : {r.capacity}, tags : {r.tags}]
    /\ IsPointer(r.capacity)
    /\ NodeRoleModel(r) # Null

IsNode(n) ==
    /\ n \in [id : {n.id}, addr : {n.addr}, hostname : {n.hostname},
              garageVersion : {n.garageVersion}, isUp : {n.isUp}, draining : {n.draining},
              lastSeenSecsAgo : {n.lastSeenSecsAgo}, role : {n.role}]
    /\ IsPointer(n.addr) /\ IsPointer(n.hostname) /\ IsPointer(n.garageVersion)
    /\ IsPointer(n.lastSeenSecsAgo) /\ IsPointer(n.role)
    /\ \A r \in n.role : IsRole(r)

IsStatus(status) ==
    /\ status \in [layoutVersion : {status.layoutVersion}, nodes : {status.nodes}]
    /\ status.nodes = [i \in DOMAIN status.nodes |-> status.nodes[i]]
    /\ \A i \in DOMAIN status.nodes : IsNode(status.nodes[i])
====
