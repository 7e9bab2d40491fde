---- MODULE MCProvider ----
(* Values for the TLC run of Provider. *)
EXTENDS Provider

Role(capacity, tags) == [zone |-> "z", capacity |-> capacity, tags |-> tags]

Node(id, text, seen, role) == [
    id |-> id, addr |-> text, hostname |-> text, garageVersion |-> text,
    isUp |-> seen = {}, draining |-> FALSE, lastSeenSecsAgo |-> seen, role |-> role
]

\* Nodes with absent, empty and zero fields, unassigned, gateway and storage.
SomeNodes ==
    {Node("n1", {}, {0}, {}),
     Node("n1", {""}, {}, {Role({}, <<>>)}),
     Node("n2", {"x"}, {9}, {Role({0}, <<"t2", "t1">>)})}

SomeClusterStatuses ==
    {[layoutVersion |-> 0, nodes |-> <<>>]} \cup
    {[layoutVersion |-> 1, nodes |-> <<n, m>>] : n, m \in SomeNodes}

\* To the validator, the empty string is one that is no http(s) URL.
SomeConfigEndpoints == {"http", "otherScheme", "unparsable"}
SomeEnvEndpoints == {"empty", "http", "otherScheme"}
====
