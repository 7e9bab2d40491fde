---- MODULE ProviderProofs ----
(***************************************************************************)
(* Theorems about module Provider, for every set of endpoints and answers. *)
(***************************************************************************)
EXTENDS Provider, TLAPS

\* What the attributes resolve to.
Target == [endpoint |-> resolve("endpoint"), token |-> resolve("token")]
S3 == [a \in S3Attributes |-> resolve(a)]

\* The data of a configured process come from its configuration.
FromConfig ==
    pc = "handlers" =>
        /\ data = [client |-> Target, s3 |-> S3]
        /\ NoneUnknown
        /\ New(resolve("endpoint"), resolve("token"))

\* The calls of an earlier process went where this one's would go: there was
\* one only if nothing that decides it was unknown.
CallsSettled ==
    calls # {} =>
        /\ NoneUnknown
        /\ New(resolve("endpoint"), resolve("token"))
        /\ \A c \in calls : c = Target

\* Objects are deleted in an apply, when nothing is unknown any more.
UsesSettled == uses # {} => round = "apply" /\ \A use \in uses : use = S3

\* What is shown is the model of an answer.
InfoFromStatus == info # Null => status \in ClusterStatuses /\ info = Model(status)

Inv == TypeOK /\ FromConfig /\ CallsSettled /\ UsesSettled

\* What an attribute resolves to is text.
LEMMA ResolvesToText ==
    ASSUME TypeOK, NEW a \in Attributes PROVE resolve(a) \in Texts
BY DEF TypeOK, resolve, Known, Schema, Texts

LEMMA Initial == Init => Inv
BY DEF Init, Inv, TypeOK, FromConfig, CallsSettled, UsesSettled, Attributes, AdminAttributes,
       S3Attributes

\* A step that leaves the configuration, the environment and the round alone
\* keeps what is said of the attributes.
LEMMA SameResolution ==
    ASSUME config' = config, env' = env
    PROVE  /\ \A a \in Attributes : resolve(a)' = resolve(a)
           /\ Target' = Target
           /\ S3' = S3
           /\ NoneUnknown' = NoneUnknown
BY DEF resolve, Target, S3, NoneUnknown, Known

\* What is known does not change with the apply.
LEMMA ApplyKeeps ==
    ASSUME TypeOK, StartApply, NEW a \in Attributes
    PROVE  /\ config[a] # Unknown => config'[a] = config[a]
           /\ config'[a] \in Schema(a) \ {Unknown}
<1>1. config[a] \in Schema(a)
  BY DEF TypeOK
<1>2. config'[a] \in Resolutions(a)
  BY DEF StartApply, Attributes, AdminAttributes, S3Attributes
<1>3. Null # Unknown /\ Unknown \notin ConfigValues(a)
  BY SpecialAssumption DEF Texts
<1> QED
  BY <1>1, <1>2, <1>3 DEF Resolutions, Schema

LEMMA Inductive == Inv /\ [Next]_vars => Inv'
<1> SUFFICES ASSUME Inv, [Next]_vars PROVE Inv'
  OBVIOUS
<1> USE DEF Inv
<1>1. CASE ValidateConfig
  <2>1. /\ config' = config /\ env' = env /\ calls' = calls /\ uses' = uses /\ round' = round
        /\ data' = data /\ pc' \in {"configure", "failed"}
    BY <1>1 DEF ValidateConfig
  <2> QED
    BY <2>1, SameResolution
    DEF TypeOK, FromConfig, CallsSettled, UsesSettled, New, Attributes, AdminAttributes
<1>2. CASE Configure
  <2>1. config' = config /\ env' = env /\ calls' = calls /\ uses' = uses /\ round' = round
    BY <1>2 DEF Configure
  <2>2. CallsSettled' /\ UsesSettled'
    BY <2>1, SameResolution
    DEF CallsSettled, UsesSettled, New, Attributes, AdminAttributes
  <2>3. CASE NoneUnknown /\ New(resolve("endpoint"), resolve("token"))
    <3>1. pc' = "handlers" /\ data' = [client |-> Target, s3 |-> S3]
      BY <1>2, <2>3 DEF Configure, Target, S3
    <3>2. FromConfig'
      BY <2>1, <2>3, <3>1, SameResolution DEF FromConfig, New, Attributes, AdminAttributes
    <3>3. data' \in ProviderData /\ data' # NoData
      BY <3>1, ResolvesToText, SpecialAssumption
      DEF ProviderData, Target, S3, Attributes, AdminAttributes, S3Attributes
    <3> QED
      BY <2>1, <2>2, <3>1, <3>2, <3>3 DEF TypeOK
  <2>4. CASE ~(NoneUnknown /\ New(resolve("endpoint"), resolve("token")))
    <3>1. pc' = "failed" /\ data' = data
      BY <1>2, <2>4 DEF Configure, Diagnose
    <3> QED
      BY <2>1, <2>2, <3>1 DEF TypeOK, FromConfig
  <2> QED
    BY <2>3, <2>4
<1>3. CASE Handler \/ Read
  <2>1. /\ config' = config /\ env' = env /\ uses' = uses /\ round' = round /\ pc' = pc
        /\ data' = data /\ pc = "handlers" /\ calls' = calls \cup {data.client}
    BY <1>3 DEF Handler, Read
  <2>2. data.client = Target /\ data.client \in [endpoint : Texts, token : Texts]
    BY <2>1 DEF FromConfig, TypeOK, ProviderData
  <2>3. CallsSettled'
    BY <2>1, <2>2, SameResolution
    DEF FromConfig, CallsSettled, New, Attributes, AdminAttributes
  <2>4. TypeOK'
    BY <2>1, <2>2 DEF TypeOK
  <2>5. FromConfig' /\ UsesSettled'
    BY <2>1, SameResolution DEF FromConfig, UsesSettled, New, Attributes, AdminAttributes
  <2> QED
    BY <2>3, <2>4, <2>5
<1>4. CASE ForceDestroy
  <2>1. /\ config' = config /\ env' = env /\ calls' = calls /\ round' = round /\ pc' = pc
        /\ data' = data /\ pc = "handlers" /\ round = "apply" /\ uses' = uses \cup {data.s3}
    BY <1>4 DEF ForceDestroy
  <2>2. data.s3 = S3 /\ data.s3 \in [S3Attributes -> Texts]
    BY <2>1 DEF FromConfig, TypeOK, ProviderData
  <2> QED
    BY <2>1, <2>2, SameResolution
    DEF TypeOK, FromConfig, CallsSettled, UsesSettled, New, Attributes, AdminAttributes
<1>5. CASE StartApply
  <2>1. /\ env' = env /\ calls' = calls /\ uses' = uses /\ round = "plan" /\ round' = "apply"
        /\ pc' = "validate" /\ data' = NoData
    BY <1>5 DEF StartApply
  <2>2. TypeOK'
    BY <1>5, <2>1, ApplyKeeps DEF TypeOK
  <2>3. CallsSettled'
    <3> SUFFICES ASSUME calls # {}
                 PROVE  /\ NoneUnknown'
                        /\ New(resolve("endpoint"), resolve("token"))'
                        /\ \A c \in calls : c = Target'
      BY <2>1 DEF CallsSettled
    <3>1. \A a \in AdminAttributes : config[a] # Unknown /\ config'[a] = config[a]
      BY <1>5, ApplyKeeps DEF CallsSettled, NoneUnknown, Attributes
    <3>2. resolve("endpoint")' = resolve("endpoint") /\ resolve("token")' = resolve("token")
      BY <2>1, <3>1 DEF resolve, Known, AdminAttributes
    <3>3. NoneUnknown' /\ Target' = Target
      BY <3>1, <3>2 DEF NoneUnknown, Target
    <3> QED
      BY <3>2, <3>3 DEF CallsSettled, New
  <2>4. FromConfig' /\ UsesSettled'
    BY <2>1 DEF FromConfig, UsesSettled
  <2> QED
    BY <2>2, <2>3, <2>4
<1>6. CASE UNCHANGED vars
  BY <1>6, SameResolution
  DEF vars, TypeOK, FromConfig, CallsSettled, UsesSettled, New, Attributes, AdminAttributes
<1> QED
  BY <1>1, <1>2, <1>3, <1>4, <1>5, <1>6 DEF Next

\* The invariant holds of every configuration and environment.
THEOREM Invariance == Spec => []Inv
BY Initial, Inductive, PTL DEF Spec

\* The state is well typed; no handler runs without its ProviderData, and an
\* apply knows every attribute.
THEOREM ConfigurationTyped == Spec => []TypeOK
BY Invariance, PTL DEF Inv

\* A plan and its apply talk to one cluster with one token, because Configure
\* refuses an unknown endpoint or token and resolves the rest as it is.
THEOREM PlanAndApplyAgree == Spec => []OneTarget
<1>1. Inv => OneTarget
  BY DEF Inv, CallsSettled, OneTarget
<1> QED
  BY <1>1, Invariance, PTL

\* Every call has an http(s) endpoint and a token, wherever they come from:
\* Configure returns no client that New has not checked.
THEOREM ClientsUsable == Spec => []UsableClient
<1>1. ASSUME Inv PROVE UsableClient
  <2>1. \A v \in ConfigValues("token") \cup EnvValues("token") : v.kind \in {"empty", "text"}
    BY DEF ConfigValues, EnvValues, Text, TextKinds, Urls
  <2>2. resolve("token") \in ConfigValues("token") \cup EnvValues("token")
    BY <1>1 DEF Inv, TypeOK, resolve, Known, Schema, Attributes, AdminAttributes
  <2> QED
    BY <1>1, <2>1, <2>2 DEF Inv, CallsSettled, UsableClient, New, Target
<1> QED
  BY <1>1, Invariance, PTL

\* Objects are deleted with the credentials of the configuration, where it
\* names some: emptyBucket runs in an apply only, when nothing is unknown.
THEOREM DestroysAsConfigured == Spec => []S3AsConfigured
<1>1. Inv => S3AsConfigured
  BY DEF Inv, TypeOK, UsesSettled, S3AsConfigured, S3, resolve, Known, Attributes
<1> QED
  BY <1>1, Invariance, PTL

----
(* The data source *)

\* A pointer and the value made of it tell the same.
LEMMA PointerTold ==
    ASSUME NEW p, IsPointer(p)
    PROVE  Told(stringPtrToValue(p)) = p /\ Told(int64PtrToValue(p)) = p
<1>1. CASE p = {}
  BY <1>1 DEF Told, stringPtrToValue, int64PtrToValue
<1>2. CASE \E v \in p : p = {v} /\ v # Null
  <2> PICK v \in p : p = {v} /\ v # Null
    BY <1>2
  <2>1. (CHOOSE w \in p : TRUE) = v
    OBVIOUS
  <2> QED
    BY <2>1 DEF Told, stringPtrToValue, int64PtrToValue
<1> QED
  BY <1>1, <1>2 DEF IsPointer

LEMMA RoleTold ==
    ASSUME NEW r, IsRole(r) PROVE ToldRole(NodeRoleModel(r)) = r
BY PointerTold DEF IsRole, ToldRole, NodeRoleModel

LEMMA NodeTold ==
    ASSUME NEW n, IsNode(n) PROVE ToldNode(NodeModel(n)) = n
<1> DEFINE m == NodeModel(n)
<1>1. /\ Told(m.addr) = n.addr /\ Told(m.hostname) = n.hostname
      /\ Told(m.garageVersion) = n.garageVersion
      /\ Told(m.lastSeenSecsAgo) = n.lastSeenSecsAgo
  BY PointerTold DEF IsNode, NodeModel
<1>2. (IF m.role = Null THEN {} ELSE {ToldRole(m.role)}) = n.role
  <2>1. CASE n.role = {}
    BY <2>1 DEF NodeModel
  <2>2. CASE \E r \in n.role : n.role = {r}
    <3> PICK r \in n.role : n.role = {r}
      BY <2>2
    <3>1. (CHOOSE q \in n.role : TRUE) = r
      OBVIOUS
    <3>2. m.role = NodeRoleModel(r)
      BY <3>1 DEF NodeModel
    <3> QED
      BY <3>2, RoleTold DEF IsNode, IsRole
  <2> QED
    BY <2>1, <2>2 DEF IsNode, IsPointer
<1>3. m.id = n.id /\ m.isUp = n.isUp /\ m.draining = n.draining
  BY DEF NodeModel
<1>4. n = [id |-> n.id, addr |-> n.addr, hostname |-> n.hostname,
           garageVersion |-> n.garageVersion, isUp |-> n.isUp, draining |-> n.draining,
           lastSeenSecsAgo |-> n.lastSeenSecsAgo, role |-> n.role]
  BY DEF IsNode
<1> QED
  BY <1>1, <1>2, <1>3, <1>4 DEF ToldNode

\* The data source loses nothing of what the cluster answers, whatever nodes,
\* roles and tags the answer has.
THEOREM NothingLost == Spec => []InfoTellsAll
<1>1. Init => InfoFromStatus
  BY DEF Init, InfoFromStatus
<1>2. InfoFromStatus /\ [Next]_vars => InfoFromStatus'
  BY DEF InfoFromStatus, Next, vars, ValidateConfig, Configure, Diagnose, Handler, Read,
         ForceDestroy, StartApply
<1>3. ASSUME InfoFromStatus, info # Null
      PROVE  status = [layoutVersion |-> info.layoutVersion,
                       nodes |-> [i \in DOMAIN info.nodes |-> ToldNode(info.nodes[i])]]
  <2>1. IsStatus(status) /\ info = Model(status)
    BY <1>3, ClusterStatusesAssumption DEF InfoFromStatus
  <2>2. info.layoutVersion = status.layoutVersion
    BY <2>1 DEF Model
  <2>3. info.nodes = [i \in DOMAIN status.nodes |-> NodeModel(status.nodes[i])]
    BY <2>1 DEF Model
  <2>4. \A i \in DOMAIN status.nodes : ToldNode(NodeModel(status.nodes[i])) = status.nodes[i]
    BY <2>1, NodeTold DEF IsStatus
  <2>5. [i \in DOMAIN info.nodes |-> ToldNode(info.nodes[i])] = status.nodes
    BY <2>1, <2>3, <2>4 DEF IsStatus
  <2> QED
    BY <2>1, <2>2, <2>5 DEF IsStatus
<1> QED
  BY <1>1, <1>2, <1>3, PTL DEF Spec, InfoTellsAll
====
