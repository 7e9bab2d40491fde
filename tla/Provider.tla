---- MODULE Provider ----
(***************************************************************************)
(* The provider's configuration (internal/provider), from the provider     *)
(* block and the environment to the handlers that use it, in a plan and in *)
(* the apply that follows it.  Terraform starts a provider process for     *)
(* each of the two, validates and configures it, and then calls handlers.  *)
(* An attribute may be unknown in the plan; in the apply it has become a   *)
(* value or null.  The environment stays as it is.                         *)
(***************************************************************************)
EXTENDS ClusterInfo, FiniteSets

CONSTANTS
    Unknown,         \* an attribute that the plan cannot tell yet
    NoData,          \* the ProviderData of a provider that is not configured
    ConfigEndpoints, \* the kinds of text that an endpoint may have in the
    EnvEndpoints,    \* configuration and in the environment
    ClusterStatuses  \* the answers of GetClusterStatus

\* An endpoint is empty, an http(s) URL, another URL, or text that starts
\* like an http(s) URL and does not parse.  Other text is empty or not.
EndpointKinds == {"empty", "http", "otherScheme", "unparsable"}
TextKinds == {"empty", "text"}

ASSUME ConfigEndpointsAssumption == ConfigEndpoints \subseteq EndpointKinds
ASSUME EnvEndpointsAssumption == EnvEndpoints \subseteq EndpointKinds
ASSUME ClusterStatusesAssumption == \A answer \in ClusterStatuses : IsStatus(answer)

\* GarageProviderModel
AdminAttributes == {"endpoint", "token"}
S3Attributes == {"s3_endpoint", "s3_access_key", "s3_secret_key"}
Attributes == AdminAttributes \cup S3Attributes
Urls == {"endpoint", "s3_endpoint"}

\* Text with its origin; an environment variable that is not set reads empty.
Text(origin, kinds) == [origin : {origin}, kind : kinds]

ConfigValues(a) == Text("config", IF a \in Urls THEN ConfigEndpoints ELSE TextKinds)
EnvValues(a) == Text("env", IF a \in Urls THEN EnvEndpoints ELSE TextKinds)

Schema(a) == ConfigValues(a) \cup {Null, Unknown}

\* What Configure hands out: the client, and the S3 settings.
Texts == UNION {ConfigValues(a) \cup EnvValues(a) : a \in Attributes}
ProviderData == [client : [endpoint : Texts, token : Texts], s3 : [S3Attributes -> Texts]]

\* Null, Unknown and NoData are none of these values.
ASSUME SpecialAssumption ==
    /\ Null # Unknown
    /\ {Null, Unknown} \cap Texts = {}
    /\ NoData \notin ProviderData

VARIABLES
    config,   \* the provider block
    env,      \* the GARAGE_* environment variables
    round,    \* "plan" or "apply"
    pc,       \* "validate", "configure", "handlers" or "failed"
    data,     \* the ProviderData of the running process
    calls,    \* history: the endpoint and token of the admin calls so far
    uses,     \* history: the configuration of the S3 calls so far
    status,   \* the answer that the data source read last
    info      \* what it wrote to the state

vars == <<config, env, round, pc, data, calls, uses, status, info>>

Init ==
    /\ config \in [endpoint : Schema("endpoint"),
                   token : Schema("token"),
                   s3_endpoint : Schema("s3_endpoint"),
                   s3_access_key : Schema("s3_access_key"),
                   s3_secret_key : Schema("s3_secret_key")]
    /\ env \in [endpoint : EnvValues("endpoint"),
                token : EnvValues("token"),
                s3_endpoint : EnvValues("s3_endpoint"),
                s3_access_key : EnvValues("s3_access_key"),
                s3_secret_key : EnvValues("s3_secret_key")]
    /\ round = "plan"
    /\ pc = "validate"
    /\ data = NoData
    /\ calls = {}
    /\ uses = {}
    /\ status = Null
    /\ info = Null

Known(v) == v \notin {Null, Unknown}

\* The validators of the two URLs; they skip what is null or unknown.
Matches(a) == Known(config[a]) => config[a].kind \in {"http", "unparsable"}

ValidateConfig ==
    /\ pc = "validate"
    /\ pc' = IF \A a \in Urls : Matches(a) THEN "configure" ELSE "failed"
    /\ UNCHANGED <<config, env, round, data, calls, uses, status, info>>

\* A mutant: the environment goes first.
resolveEnvFirst(a) == IF env[a].kind # "empty" \/ ~Known(config[a]) THEN env[a] ELSE config[a]

\* The attribute when it is set, even to the empty string; else the
\* environment.
resolve(a) == IF Known(config[a]) THEN config[a] ELSE env[a]

\* Mutants of New, a client for any URL that parses, and of NoneUnknown, an
\* unknown attribute taken for one that is not set.
AcceptsAnyScheme(endpoint, token) ==
    endpoint.kind \in {"http", "otherScheme"} /\ token.kind # "empty"
NothingUnknown == TRUE

\* client.New: no network, just a URL of the right scheme and a token.
New(endpoint, token) == endpoint.kind = "http" /\ token.kind # "empty"

\* Configure refuses an unknown endpoint or token, and no other attribute.
NoneUnknown == \A a \in AdminAttributes : config[a] # Unknown

\* A mutant: a return without a diagnostic.
ReturnSilently ==
    /\ pc' = "handlers"
    /\ UNCHANGED data

\* A diagnostic, and Terraform calls no handler.
Diagnose ==
    /\ pc' = "failed"
    /\ UNCHANGED data

\* The client and the S3 settings for the handlers, or a diagnostic.
Configure ==
    /\ pc = "configure"
    /\ LET endpoint == resolve("endpoint")
           token == resolve("token")
       IN  IF NoneUnknown /\ New(endpoint, token)
           THEN /\ pc' = "handlers"
                /\ data' = [client |-> [endpoint |-> endpoint, token |-> token],
                            s3 |-> [a \in S3Attributes |-> resolve(a)]]
           ELSE Diagnose
    /\ UNCHANGED <<config, env, round, calls, uses, status, info>>

\* A handler of garage_bucket, with the client that its Configure kept.
Handler ==
    /\ pc = "handlers"
    /\ calls' = calls \cup {data.client}
    /\ UNCHANGED <<config, env, round, pc, data, uses, status, info>>

\* Read of garage_cluster_info, whose call may fail.
Read ==
    /\ pc = "handlers"
    /\ calls' = calls \cup {data.client}
    /\ \/ UNCHANGED <<status, info>>
       \/ \E answer \in ClusterStatuses :
            /\ status' = answer
            /\ info' = Model(answer)
    /\ UNCHANGED <<config, env, round, pc, data, uses>>

\* Delete with force_destroy, which only an apply calls; emptyBucket asks for
\* all three fields.
ForceDestroy ==
    /\ pc = "handlers"
    /\ round = "apply"
    /\ \A a \in S3Attributes : data.s3[a].kind # "empty"
    /\ uses' = uses \cup {data.s3}
    /\ UNCHANGED <<config, env, round, pc, data, calls, status, info>>

Resolutions(a) == IF config[a] = Unknown THEN Schema(a) \ {Unknown} ELSE {config[a]}

\* The plan is done and Terraform applies it, in a new process, when what
\* was unknown has become a value or null.
StartApply ==
    /\ pc = "handlers"
    /\ round = "plan"
    /\ round' = "apply"
    /\ pc' = "validate"
    /\ data' = NoData
    /\ config' \in [endpoint : Resolutions("endpoint"),
                    token : Resolutions("token"),
                    s3_endpoint : Resolutions("s3_endpoint"),
                    s3_access_key : Resolutions("s3_access_key"),
                    s3_secret_key : Resolutions("s3_secret_key")]
    /\ status' = Null
    /\ info' = Null
    /\ UNCHANGED <<env, calls, uses>>

Next == ValidateConfig \/ Configure \/ Handler \/ Read \/ ForceDestroy \/ StartApply

Spec == Init /\ [][Next]_vars

----
(* Properties *)

\* Types of the state; no handler runs without its ProviderData, and an apply
\* knows every attribute.
TypeOK ==
    /\ \A a \in Attributes : config[a] \in Schema(a) /\ env[a] \in EnvValues(a)
    /\ round \in {"plan", "apply"}
    /\ pc \in {"validate", "configure", "handlers", "failed"}
    /\ data \in ProviderData \cup {NoData}
    /\ pc = "handlers" => data # NoData
    /\ calls \subseteq [endpoint : Texts, token : Texts]
    /\ uses \subseteq [S3Attributes -> Texts]
    /\ round = "apply" => \A a \in Attributes : config[a] # Unknown

\* A plan and its apply talk to one cluster with one token: nothing is
\* planned against the cluster of the environment and then applied to the one
\* that the configuration turns out to name.
OneTarget == \A c, d \in calls : c = d

\* What reaches a handler can be used: an http(s) endpoint, wherever it came
\* from, and a token, although the schema's validator sees only what is
\* written in the configuration and nothing checks the environment.
UsableClient == \A c \in calls : c.endpoint.kind = "http" /\ c.token.kind = "text"

\* Objects are deleted with the credentials that the configuration names,
\* whenever it names some, although a plan with unknown S3 attributes takes
\* those of the environment for them without a word.
S3AsConfigured ==
    \A use \in uses, a \in S3Attributes :
        use[a] = IF config[a] = Null THEN env[a] ELSE config[a]

\* The answer that a value of the data source tells of.
Told(v) == IF v = Null THEN {} ELSE {v}

ToldRole(r) == [zone |-> r.zone, capacity |-> Told(r.capacity), tags |-> r.tags]

ToldNode(n) == [
    id |-> n.id, addr |-> Told(n.addr), hostname |-> Told(n.hostname),
    garageVersion |-> Told(n.garageVersion), isUp |-> n.isUp, draining |-> n.draining,
    lastSeenSecsAgo |-> Told(n.lastSeenSecsAgo),
    role |-> IF n.role = Null THEN {} ELSE {ToldRole(n.role)}
]

\* The values that the data source shows tell what the cluster answered: an
\* absent field, an empty one and a zero stay apart, and the nodes and tags
\* keep their order.
InfoTellsAll ==
    info # Null =>
        status = [layoutVersion |-> info.layoutVersion,
                  nodes |-> [i \in DOMAIN info.nodes |-> ToldNode(info.nodes[i])]]
====
