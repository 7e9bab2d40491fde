---- MODULE AdminCallProofs ----
(***************************************************************************)
(* The properties of a whole call of the admin client, for all statuses    *)
(* and bounds: the composition inherits the invariant of the transport,    *)
(* and the table of operations says which of them the transport repeats.   *)
(***************************************************************************)
EXTENDS AdminCall, RetryTransportProofs

----
(* The table of operations *)

\* Every operation that changes the cluster or carries a body is a POST: by
\* the records of the table, a group of equal ones at a time.
LEMMA Table ==
    \A o \in Operations :
        o \in Mutating \/ Api[o].body => Api[o].method = "POST"
<1>1. Operations = {
        "CheckDomain", "Health", "Metrics", "GetClusterHealth",
        "GetClusterLayout", "GetClusterLayoutHistory", "GetClusterStatistics",
        "GetClusterStatus", "GetCurrentAdminTokenInfo", "ListAdminTokens",
        "ListBuckets", "ListKeys", "AddBucketAlias", "AllowBucketKey",
        "ApplyClusterLayout", "CleanupIncompleteUploads",
        "ClusterLayoutSkipDeadNodes", "ConnectClusterNodes",
        "CreateAdminToken", "CreateBucket", "CreateKey", "DenyBucketKey",
        "ImportKey", "RemoveBucketAlias", "UpdateClusterLayout",
        "CreateMetadataSnapshot", "DeleteAdminToken", "DeleteBucket",
        "DeleteKey", "GetAdminTokenInfo", "GetBlockInfo", "GetWorkerInfo",
        "GetWorkerVariable", "LaunchRepairOperation", "ListWorkers",
        "PurgeBlocks", "RetryBlockResync", "SetWorkerVariable",
        "GetBucketInfo", "GetKeyInfo", "GetNodeInfo", "GetNodeStatistics",
        "ListBlockErrors", "InspectObject", "PreviewClusterLayoutChanges",
        "RevertClusterLayout", "UpdateAdminToken", "UpdateBucket", "UpdateKey"}
  BY DEF Operations, Api
<1>2. \A o \in {
        "DeleteAdminToken", "DeleteBucket", "DeleteKey"} :
        Api[o] = Post({"id"})
  BY DEF Api,
         DeleteAdminToken, DeleteBucket, DeleteKey
<1>3. Api["CreateMetadataSnapshot"] = Post({"node"})
  BY DEF Api, CreateMetadataSnapshot
<1>4. \A o \in {
        "PreviewClusterLayoutChanges", "RevertClusterLayout"} :
        Api[o] = Post({})
  BY DEF Api,
         PreviewClusterLayoutChanges, RevertClusterLayout
<1>5. \A o \in {
        "UpdateAdminToken", "UpdateBucket", "UpdateKey"} :
        Api[o] = PostJson({"id"})
  BY DEF Api,
         UpdateAdminToken, UpdateBucket, UpdateKey
<1>6. \A o \in {
        "GetBlockInfo", "GetWorkerInfo", "GetWorkerVariable",
        "LaunchRepairOperation", "ListWorkers", "PurgeBlocks",
        "RetryBlockResync", "SetWorkerVariable"} :
        Api[o] = PostJson({"node"})
  BY DEF Api,
         GetBlockInfo, GetWorkerInfo, GetWorkerVariable,
         LaunchRepairOperation, ListWorkers, PurgeBlocks, RetryBlockResync,
         SetWorkerVariable
<1>7. \A o \in {
        "AddBucketAlias", "AllowBucketKey", "ApplyClusterLayout",
        "CleanupIncompleteUploads", "ClusterLayoutSkipDeadNodes",
        "ConnectClusterNodes", "CreateAdminToken", "CreateBucket",
        "CreateKey", "DenyBucketKey", "ImportKey", "RemoveBucketAlias",
        "UpdateClusterLayout"} :
        Api[o] = PostJson({})
  BY DEF Api,
         AddBucketAlias, AllowBucketKey, ApplyClusterLayout,
         CleanupIncompleteUploads, ClusterLayoutSkipDeadNodes,
         ConnectClusterNodes, CreateAdminToken, CreateBucket, CreateKey,
         DenyBucketKey, ImportKey, RemoveBucketAlias, UpdateClusterLayout
<1>8. Api["InspectObject"] = Get({"bucketId", "key"}, {})
  BY DEF Api, InspectObject
<1>9. Api["CheckDomain"] = Get({"domain"}, {})
  BY DEF Api, CheckDomain
<1>10. \A o \in {
        "GetNodeInfo", "GetNodeStatistics", "ListBlockErrors"} :
        Api[o] = Get({"node"}, {})
  BY DEF Api,
         GetNodeInfo, GetNodeStatistics, ListBlockErrors
<1>11. Api["GetBucketInfo"] = Get({}, {"id", "globalAlias", "search"})
  BY DEF Api, GetBucketInfo
<1>12. Api["GetKeyInfo"] = Get({}, {"id", "search", "showSecretKey"})
  BY DEF Api, GetKeyInfo
<1>13. Api["GetAdminTokenInfo"] = Get({}, {"id", "search"})
  BY DEF Api, GetAdminTokenInfo
<1>14. \A o \in {
        "Health", "Metrics", "GetClusterHealth", "GetClusterLayout",
        "GetClusterLayoutHistory", "GetClusterStatistics", "GetClusterStatus",
        "GetCurrentAdminTokenInfo", "ListAdminTokens", "ListBuckets",
        "ListKeys"} :
        Api[o] = Get({}, {})
  BY DEF Api,
         Health, Metrics, GetClusterHealth, GetClusterLayout,
         GetClusterLayoutHistory, GetClusterStatistics, GetClusterStatus,
         GetCurrentAdminTokenInfo, ListAdminTokens, ListBuckets, ListKeys
<1> QED
  BY <1>1, <1>2, <1>3, <1>4, <1>5, <1>6, <1>7, <1>8, <1>9, <1>10, <1>11, <1>12, <1>13, <1>14
     DEF Mutating, Get, Post, PostJson

----
(* The composition is a run of the transport *)

\* A call starts with a fresh transport.
LEMMA AdminInitProjects == AdminInit => Init
BY DEF AdminInit

\* Every step is one of the transport's, or leaves it alone.
LEMMA AdminNextProjects == [AdminNext]_allVars => [Next]_vars
<1> SUFFICES ASSUME [AdminNext]_allVars PROVE [Next]_vars
  OBVIOUS
<1>1. CASE Transport
  BY <1>1 DEF Transport, Next
<1>2. CASE Environment
  BY <1>2 DEF Environment, Next
<1>3. CASE Refuse \/ Do \/ NoAnswer \/ Parse \/ UNCHANGED allVars
  BY <1>3 DEF Refuse, Do, NoAnswer, Parse, allVars
<1> QED
  BY <1>1, <1>2, <1>3 DEF AdminNext

\* Whatever is proved of the transport alone holds inside a call.
THEOREM CallsAreTransportRuns == AdminSpec => Spec
BY AdminInitProjects, AdminNextProjects, PTL DEF AdminSpec, Spec

----
(* The invariant of a call *)

\* Nothing has happened before the request is sent, and nothing empty is
\* sent; the operation never changes and gives the transport its method.
Sending ==
    /\ op \in Operations
    /\ method = Api[op].method
    /\ blank \in SUBSET Strings(op)
    /\ phase \in {"new", "sent", "done"}
    /\ phase = "sent" /\ Wrapped => blank = {}
    /\ phase = "new" => acts = 0 /\ pc = "send" /\ attempt = 1

\* A 2xx follows an execution, a refusal of a mutating request none.
Answered ==
    pc = "returned" =>
        /\ resp.status \in 200..299 => acts >= 1
        /\ resp.status \in 400..499 /\ method \notin Idempotent => acts = 0

\* A call that is over was refused, ended without an answer, or has closed
\* the body of its answer.
Ended ==
    phase = "done" =>
        \/ pc = "send"
        \/ pc = "returned" /\ resp.status = 0
        \/ closed

CallInv ==
    /\ Inv
    /\ Sending
    /\ Answered
    /\ Ended
    /\ ErrorsTellTheTruth

\* The wrappers check every string they are passed.
LEMMA AllChecked == \A o \in DOMAIN Wrapper : Wrapper[o].args = Wrapper[o].checked
<1>1. DOMAIN Wrapper = {"GetClusterStatus", "CreateBucket", "GetBucketInfo", "UpdateBucket",
                         "DeleteBucket", "AddBucketAlias", "AllowBucketKey", "RemoveBucketAlias"}
  BY DEF Wrapper
<1>2. \A o \in {"GetClusterStatus", "CreateBucket"} : Wrapper[o].args = Wrapper[o].checked
  BY DEF Wrapper, Wrap, TypedGetClusterStatus, TypedCreateBucket
<1>3. \A o \in {"GetBucketInfo", "UpdateBucket", "DeleteBucket"} :
        Wrapper[o].args = Wrapper[o].checked
  BY DEF Wrapper, Wrap, TypedGetBucket, TypedUpdateBucket, TypedDeleteBucket
<1>4. \A o \in {"AddBucketAlias", "AllowBucketKey", "RemoveBucketAlias"} :
        Wrapper[o].args = Wrapper[o].checked
  BY DEF Wrapper, Wrap, TypedAddBucketAlias, TypedAllowBucketKey, TypedRemoveBucketAlias
<1> QED
  BY <1>1, <1>2, <1>3, <1>4

\* A call that starts satisfies the invariant.
LEMMA AdminInitInv == AdminInit => CallInv
<1> SUFFICES ASSUME AdminInit PROVE CallInv
  OBVIOUS
<1>1. Inv
  BY AdminInitProjects, InitInv
<1>2. Sending /\ Answered /\ Ended /\ ErrorsTellTheTruth
  BY DEF AdminInit, Init, Sending, Answered, Ended, ErrorsTellTheTruth
<1> QED
  BY <1>1, <1>2 DEF CallInv

\* A refused call has sent nothing, and a request is only sent when it is
\* not refused.
LEMMA RefuseInv == CallInv /\ Inv' /\ (Refuse \/ Do) => CallInv'
<1> SUFFICES ASSUME CallInv, Inv', Refuse \/ Do PROVE CallInv'
  OBVIOUS
<1>1. /\ phase = "new" /\ acts = 0 /\ pc = "send" /\ attempt = 1
      /\ UNCHANGED <<op, method, blank, body, closed, acts, pc, attempt, resp>>
      /\ \/ phase' = "sent" /\ ~Refused
         \/ phase' = "done" /\ err' = "invalid"
  BY DEF Refuse, Do, Finish, CallInv, Sending, vars
<1>2. ~Refused /\ Wrapped => blank = {}
  BY AllChecked DEF Refused, Wrapped, CallInv, Sending, Strings
<1>3. Sending'
  BY <1>1, <1>2 DEF CallInv, Sending, Wrapped
<1>4. Answered' /\ Ended'
  BY <1>1 DEF Answered, Ended
<1>5. ErrorsTellTheTruth'
  BY <1>1 DEF ErrorsTellTheTruth
<1> QED
  BY <1>3, <1>4, <1>5 DEF CallInv

\* The transport's steps decide what the answer tells.
LEMMA TransportInv == CallInv /\ Inv' /\ Transport => CallInv'
<1> SUFFICES ASSUME CallInv, Inv', Transport PROVE CallInv'
  OBVIOUS
<1>1. /\ phase = "sent" /\ phase' = "sent"
      /\ UNCHANGED <<op, method, blank>>
  BY DEF Transport, callVars, RoundTrip, BackOff
<1>2. Sending' /\ Ended' /\ ErrorsTellTheTruth'
  BY <1>1 DEF CallInv, Sending, Wrapped, Ended, ErrorsTellTheTruth
<1>3. CASE RoundTrip
  <2>1. /\ acts \in Nat
        /\ method \notin Idempotent => acts = 0
        /\ UNCHANGED method
    BY <1>3 DEF RoundTrip, CallInv, Inv, TypeOK, Accounted
  <2>2. PICK status \in Statuses \cup {0} :
          /\ resp' = [status |-> status, version |-> IF status \in 200..299 THEN version' ELSE 0]
          /\ \/ status \notin 400..499 /\ acts' = acts + 1
             \/ status \notin 200..299 /\ acts' = acts
    BY <1>3 DEF RoundTrip, Execute
  <2>3. resp'.status = status
    BY <2>2
  <2>4. Answered'
    BY <2>1, <2>2, <2>3 DEF Answered
  <2> QED
    BY <1>2, <2>4 DEF CallInv
<1>4. CASE BackOff
  BY <1>2, <1>4 DEF BackOff, Answered, CallInv
<1> QED
  BY <1>3, <1>4 DEF Transport

\* What the class of an answer tells: a success has a 2xx and its value, a
\* refusal one of three statuses.
LEMMA ClassFacts ==
    ASSUME Wrapped, NEW b, resp.status \in Nat
    PROVE  /\ Class(b) = "ok" =>
                /\ resp.status \in 200..299
                /\ Wrapper[op].value => b = "json"
           /\ Class(b) \in {"notFound", "unauthorized", "forbidden"} =>
                resp.status \in 400..499
<1>1. StatusToError(resp.status) = "ok" => resp.status \in 200..299
  BY DEF StatusToError
<1>2. StatusToError(resp.status) \in {"notFound", "unauthorized", "forbidden"} =>
        resp.status \in 400..499
  BY DEF StatusToError
<1>3. Decoded(b) => b = "json"
  BY DEF Decoded
<1> QED
  BY <1>1, <1>2, <1>3 DEF Class

\* The end of a sent call: the error, or the class of the answer.
LEMMA EndInv == CallInv /\ Inv' /\ (NoAnswer \/ Parse) => CallInv'
<1> SUFFICES ASSUME CallInv, Inv', NoAnswer \/ Parse PROVE CallInv'
  OBVIOUS
<1>1. /\ phase = "sent" /\ phase' = "done" /\ pc = "returned"
      /\ UNCHANGED <<op, method, blank, acts, pc, attempt, resp>>
  BY DEF NoAnswer, Parse, Finish, vars
<1>2. \/ err' = "transport" /\ (resp.status = 0 \/ closed')
      \/ err' = Class(body') /\ closed'
  BY DEF NoAnswer, Parse, Finish, Close
<1>3. Sending' /\ Answered' /\ Ended'
  BY <1>1, <1>2 DEF CallInv, Sending, Answered, Ended
<1>4. ErrorsTellTheTruth'
  <2> SUFFICES ASSUME Wrapped
               PROVE  /\ err' = "ok" => acts >= 1 /\ (Wrapper[op].value => body' = "json")
                      /\ op \in Mutating /\ err' \in {"notFound", "unauthorized", "forbidden"}
                            => acts = 0
                      /\ blank = {}
    BY <1>1 DEF ErrorsTellTheTruth, Wrapped
  <2>1. blank = {}
    BY <1>1 DEF CallInv, Sending
  <2>2. resp.status \in Nat
    <3>1. resp.status \in Statuses \cup {0}
      BY DEF CallInv, Inv, TypeOK
    <3>2. \A s \in Statuses : s \in Nat
      BY StatusesAssumption
    <3> QED
      BY <3>1, <3>2
  <2>3. op \in Mutating => method \notin Idempotent
    BY Table DEF CallInv, Sending, Idempotent
  <2>4. /\ resp.status \in 200..299 => acts >= 1
        /\ resp.status \in 400..499 /\ method \notin Idempotent => acts = 0
    BY <1>1 DEF CallInv, Answered
  <2>5. CASE err' = "transport"
    BY <2>1, <2>5
  <2>6. CASE err' = Class(body')
    BY <2>1, <2>2, <2>3, <2>4, <2>6, ClassFacts
  <2> QED
    BY <1>2, <2>5, <2>6
<1> QED
  BY <1>3, <1>4 DEF CallInv

\* Other clients and interrupts change nothing of it.
LEMMA EnvironmentInv == CallInv /\ Inv' /\ (Environment \/ UNCHANGED allVars) => CallInv'
<1> SUFFICES ASSUME CallInv, Inv', Environment \/ UNCHANGED allVars PROVE CallInv'
  OBVIOUS
<1>1. /\ UNCHANGED callVars
      /\ UNCHANGED <<method, pc, attempt, resp, acts>>
  BY DEF Environment, Interfere, Cancel, allVars, vars
<1> QED
  BY <1>1 DEF callVars, CallInv, Sending, Wrapped, Answered, Ended, ErrorsTellTheTruth

\* Every step keeps the invariant.
LEMMA AdminNextInv == CallInv /\ [AdminNext]_allVars => CallInv'
<1> SUFFICES ASSUME CallInv, [AdminNext]_allVars PROVE CallInv'
  OBVIOUS
<1>1. Inv'
  BY AdminNextProjects, NextInv DEF CallInv
<1> QED
  BY <1>1, RefuseInv, TransportInv, EndInv, EnvironmentInv DEF AdminNext

\* The inductive invariant of a call.
THEOREM CallInvariance == AdminSpec => []CallInv
BY AdminInitInv, AdminNextInv, PTL DEF AdminSpec

----
(* What a call keeps *)

\* No call executes an operation that changes the cluster twice, whichever
\* of the operations of the generated client it is.
THEOREM CallsMutateOnce == AdminSpec => []MutationsOnce
<1>1. CallInv => MutationsOnce
  <2> SUFFICES ASSUME CallInv, op \in Mutating PROVE acts <= 1
    BY DEF MutationsOnce
  <2>1. method \notin Idempotent
    BY Table DEF CallInv, Sending, Idempotent
  <2> QED
    BY <2>1 DEF CallInv, Inv, TypeOK, Accounted
<1> QED
  BY <1>1, CallInvariance, PTL

\* No request that has a body is ever sent again.
THEOREM BodiesSentOnce == AdminSpec => []RepeatsNoBody
<1>1. CallInv => RepeatsNoBody
  <2> SUFFICES ASSUME CallInv, Api[op].body PROVE attempt = 1
    BY DEF RepeatsNoBody, CallInv, Inv, TypeOK
  <2>1. method \notin Idempotent
    BY Table DEF CallInv, Sending, Idempotent
  <2> QED
    BY <2>1 DEF CallInv, Inv, Accounted
<1> QED
  BY <1>1, CallInvariance, PTL

\* The class of a wrapper's result tells the truth about the cluster.
THEOREM ErrorsAreTruthful == AdminSpec => []ErrorsTellTheTruth
<1>1. CallInv => ErrorsTellTheTruth
  BY DEF CallInv
<1> QED
  BY <1>1, CallInvariance, PTL

\* How a call ends: refused, or with the class of the answer's status, or
\* with an error that says that there was no usable answer.
Told ==
    phase = "done" /\ Wrapped =>
        IF Refused THEN err = "invalid" /\ acts = 0
        ELSE /\ pc = "returned"
             /\ err \in {"transport", StatusToError(resp.status)}
             /\ err # "transport" => resp.status \in 100..599

\* A wrapper gives its caller the class of the status, or no answer.
LEMMA ClassEnds ==
    ASSUME Wrapped, NEW b
    PROVE  Class(b) \in {"transport", StatusToError(resp.status)}
BY DEF Class

\* Every step keeps the account of the end.
LEMMA ToldStep == CallInv /\ Told /\ [AdminNext]_allVars => Told'
<1> SUFFICES ASSUME CallInv, Told, [AdminNext]_allVars PROVE Told'
  OBVIOUS
<1>1. CASE Refuse
  <2>1. Refused /\ err' = "invalid" /\ acts = 0 /\ UNCHANGED <<op, blank, acts>>
    BY <1>1 DEF Refuse, Finish, vars, CallInv, Sending
  <2> QED
    BY <2>1 DEF Told, Refused, Wrapped
<1>2. CASE Do \/ Transport
  <2>1. phase' = "sent"
    BY <1>2 DEF Do, Transport, callVars
  <2> QED
    BY <2>1 DEF Told
<1>3. CASE NoAnswer \/ Parse
  <2>1. /\ phase = "sent" /\ pc = "returned"
        /\ UNCHANGED <<op, blank, pc, resp>>
    BY <1>3 DEF NoAnswer, Parse, vars
  <2>2. err' = "transport" \/ (resp.status # 0 /\ err' = Class(body'))
    BY <1>3 DEF NoAnswer, Parse, Finish
  <2>3. resp.status \in Statuses \cup {0}
    BY DEF CallInv, Inv, TypeOK
  <2>4. resp.status # 0 => resp.status \in 100..599
    BY <2>3, StatusesAssumption
  <2>5. ASSUME Wrapped
        PROVE  ~Refused /\ err' \in {"transport", StatusToError(resp.status)}
    <3>1. blank = {}
      BY <2>1, <2>5 DEF CallInv, Sending
    <3> QED
      BY <2>2, <2>5, <3>1, ClassEnds DEF Refused
  <2> QED
    BY <2>1, <2>2, <2>4, <2>5 DEF Told, Refused, Wrapped
<1>4. CASE Environment \/ UNCHANGED allVars
  <2>1. UNCHANGED <<op, blank, phase, err, pc, resp, acts>>
    BY <1>4 DEF Environment, Interfere, Cancel, callVars, allVars, vars
  <2> QED
    BY <2>1 DEF Told, Refused, Wrapped
<1> QED
  BY <1>1, <1>2, <1>3, <1>4 DEF AdminNext

\* Every execution of a mutating request is the one of its only attempt.
LEMMA MutatingActs == CallInv /\ op \in Mutating => method \notin Idempotent /\ acts \in {0, 1}
<1> SUFFICES ASSUME CallInv, op \in Mutating PROVE method \notin Idempotent /\ acts \in {0, 1}
  OBVIOUS
<1>1. method \notin Idempotent
  BY Table DEF CallInv, Sending, Idempotent
<1> QED
  BY <1>1 DEF CallInv, Inv, TypeOK, Accounted

\* Such an end is one of the outcomes of a call.
LEMMA ToldIsOutcome == CallInv /\ Told => EndsInOneStep
<1> SUFFICES ASSUME CallInv, Told, phase = "done", Wrapped, ~Refused
             PROVE  \E status \in 100..599, lost, acted \in BOOLEAN :
                        /\ Outcome(status, lost, acted, err)
                        /\ lost \/ status = resp.status
                        /\ op \in Mutating => acts = IF acted THEN 1 ELSE 0
  BY DEF EndsInOneStep, Told
<1> DEFINE acted == op \in Mutating /\ acts = 1
<1>1. /\ pc = "returned"
      /\ err \in {"transport", StatusToError(resp.status)}
      /\ err # "transport" => resp.status \in 100..599
  BY DEF Told
<1>2. op \in Mutating => acts = IF acted THEN 1 ELSE 0
  BY MutatingActs
<1>3. CASE err = "transport"
  <2>1. Outcome(200, TRUE, acted, err)
    BY <1>3 DEF Outcome, Failures, Unclear
  <2> WITNESS 200 \in 100..599, TRUE \in BOOLEAN, acted \in BOOLEAN
  <2> QED
    BY <1>2, <2>1
<1>4. CASE err # "transport"
  <2>1. resp.status \in 100..599 /\ err = StatusToError(resp.status)
    BY <1>1, <1>4
  <2>2. CASE op \in Mutating => (acts = 1 <=> resp.status \in 200..299)
    <3>1. CASE resp.status \in 200..299
      <4>1. Outcome(resp.status, FALSE, TRUE, err) /\ (op \in Mutating => acts = 1)
        BY <2>1, <2>2, <3>1 DEF Outcome
      <4> QED
        BY <2>1, <4>1
    <3>2. CASE resp.status \notin 200..299
      <4>1. Outcome(resp.status, FALSE, FALSE, err) /\ (op \in Mutating => acts = 0)
        BY <2>1, <2>2, <3>2, MutatingActs DEF Outcome
      <4> QED
        BY <2>1, <4>1
    <3> QED
      BY <3>1, <3>2
  <2>3. CASE op \in Mutating /\ ~(acts = 1 <=> resp.status \in 200..299)
    <3>1. resp.status \notin 200..299 /\ resp.status \notin 400..499
      BY <1>1, <2>3, MutatingActs DEF CallInv, Answered
    <3>2. err = "server"
      BY <2>1, <3>1 DEF StatusToError
    <3>3. Outcome(200, TRUE, acted, err)
      BY <3>2 DEF Outcome, Failures, Unclear
    <3> WITNESS 200 \in 100..599, TRUE \in BOOLEAN, acted \in BOOLEAN
    <3> QED
      BY <1>2, <3>3
  <2> QED
    BY <2>2, <2>3
<1> QED
  BY <1>3, <1>4

\* A call of a wrapper is, to its caller, the one step of module AdminClient.
THEOREM CallsEndInOneStep == AdminSpec => []EndsInOneStep
<1>1. AdminInit => Told
  BY DEF AdminInit, Told
<1> QED
  BY <1>1, CallInvariance, ToldStep, ToldIsOutcome, PTL DEF AdminSpec

\* No body outlives its call.
THEOREM CallsLeakNothing == AdminSpec => []NothingLeftOpen
<1>1. CallInv => NothingLeftOpen
  BY DEF CallInv, Inv, Ended, BodiesClosed, NothingLeftOpen
<1> QED
  BY <1>1, CallInvariance, PTL

\* The types of the call's own variables.
Shaped ==
    /\ body \in Bodies \cup {"none"}
    /\ closed \in BOOLEAN
    /\ err \in ErrorClasses \cup {"none", "answered"}

\* Every class is one of errors.go, or the generated client's answer.
LEMMA ClassTyped == \A b : Class(b) \in ErrorClasses \cup {"none", "answered"}
<1>1. StatusToError(resp.status) \in ErrorClasses
  BY DEF StatusToError, ErrorClasses
<1> QED
  BY <1>1 DEF Class, ErrorClasses

\* Every step keeps the types of the call's own variables.
LEMMA ShapedStep == Shaped /\ [AdminNext]_allVars => Shaped'
<1> SUFFICES ASSUME Shaped, [AdminNext]_allVars PROVE Shaped'
  OBVIOUS
<1>1. CASE Do \/ Transport \/ Environment \/ UNCHANGED allVars
  BY <1>1 DEF Do, Transport, Environment, allVars, callVars, Shaped
<1>2. CASE Refuse \/ NoAnswer
  BY <1>2 DEF Refuse, NoAnswer, Finish, Shaped, ErrorClasses
<1>3. CASE Parse
  <2>1. body' \in Bodies /\ closed' = TRUE
    BY <1>3 DEF Parse, Close
  <2>2. err' = "transport" \/ err' = Class(body')
    BY <1>3 DEF Parse, Finish
  <2>3. err' \in ErrorClasses \cup {"none", "answered"}
    BY <2>2, ClassTyped DEF ErrorClasses
  <2> QED
    BY <2>1, <2>3 DEF Shaped
<1> QED
  BY <1>1, <1>2, <1>3 DEF AdminNext

\* The variables of a whole call keep their types.
THEOREM CallTyped == AdminSpec => []CallTypeOK
<1>1. AdminInit => Shaped
  BY DEF AdminInit, Shaped
<1>2. CallInv /\ Shaped => CallTypeOK
  BY DEF CallInv, Inv, Sending, Shaped, CallTypeOK
<1> QED
  BY <1>1, <1>2, ShapedStep, CallInvariance, PTL DEF AdminSpec
====
