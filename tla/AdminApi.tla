---- MODULE AdminApi ----
(***************************************************************************)
(* The requests of the admin API as the generated client builds them       *)
(* (internal/client/openapi/generated.go): one record for each operation,  *)
(* with the HTTP method, the query parameters that every request carries,  *)
(* those it carries when the caller sets them, and whether it has a JSON   *)
(* body.  The path is /v2/ and the operation's name but for the first      *)
(* three, and is left out.                                                 *)
(***************************************************************************)
EXTENDS Integers

Get(must, may) == [method |-> "GET", must |-> must, may |-> may, body |-> FALSE]
Post(must) == [method |-> "POST", must |-> must, may |-> {}, body |-> FALSE]
PostJson(must) == [method |-> "POST", must |-> must, may |-> {}, body |-> TRUE]

CheckDomain == Get({"domain"}, {})
Health == Get({}, {})
Metrics == Get({}, {})
AddBucketAlias == PostJson({})
AllowBucketKey == PostJson({})
ApplyClusterLayout == PostJson({})
CleanupIncompleteUploads == PostJson({})
ClusterLayoutSkipDeadNodes == PostJson({})
ConnectClusterNodes == PostJson({})
CreateAdminToken == PostJson({})
CreateBucket == PostJson({})
CreateKey == PostJson({})
CreateMetadataSnapshot == Post({"node"})
DeleteAdminToken == Post({"id"})
\* A mutant: a deletion that looks like a read.
DeleteBucketByGet == Get({"id"}, {})
DeleteBucket == Post({"id"})
DeleteKey == Post({"id"})
DenyBucketKey == PostJson({})
GetAdminTokenInfo == Get({}, {"id", "search"})
\* A mutant: a lookup sent as a GET, with its body.
GetBlockInfoByGet == [PostJson({"node"}) EXCEPT !.method = "GET"]
GetBlockInfo == PostJson({"node"})
GetBucketInfo == Get({}, {"id", "globalAlias", "search"})
GetClusterHealth == Get({}, {})
GetClusterLayout == Get({}, {})
GetClusterLayoutHistory == Get({}, {})
GetClusterStatistics == Get({}, {})
GetClusterStatus == Get({}, {})
GetCurrentAdminTokenInfo == Get({}, {})
GetKeyInfo == Get({}, {"id", "search", "showSecretKey"})
GetNodeInfo == Get({"node"}, {})
GetNodeStatistics == Get({"node"}, {})
GetWorkerInfo == PostJson({"node"})
GetWorkerVariable == PostJson({"node"})
ImportKey == PostJson({})
InspectObject == Get({"bucketId", "key"}, {})
LaunchRepairOperation == PostJson({"node"})
ListAdminTokens == Get({}, {})
ListBlockErrors == Get({"node"}, {})
ListBuckets == Get({}, {})
ListKeys == Get({}, {})
ListWorkers == PostJson({"node"})
PreviewClusterLayoutChanges == Post({})
PurgeBlocks == PostJson({"node"})
RemoveBucketAlias == PostJson({})
RetryBlockResync == PostJson({"node"})
RevertClusterLayout == Post({})
SetWorkerVariable == PostJson({"node"})
UpdateAdminToken == PostJson({"id"})
UpdateBucket == PostJson({"id"})
UpdateClusterLayout == PostJson({})
UpdateKey == PostJson({"id"})

\* The operations by name.
Api == [
    CheckDomain |-> CheckDomain,
    Health |-> Health,
    Metrics |-> Metrics,
    AddBucketAlias |-> AddBucketAlias,
    AllowBucketKey |-> AllowBucketKey,
    ApplyClusterLayout |-> ApplyClusterLayout,
    CleanupIncompleteUploads |-> CleanupIncompleteUploads,
    ClusterLayoutSkipDeadNodes |-> ClusterLayoutSkipDeadNodes,
    ConnectClusterNodes |-> ConnectClusterNodes,
    CreateAdminToken |-> CreateAdminToken,
    CreateBucket |-> CreateBucket,
    CreateKey |-> CreateKey,
    CreateMetadataSnapshot |-> CreateMetadataSnapshot,
    DeleteAdminToken |-> DeleteAdminToken,
    DeleteBucket |-> DeleteBucket,
    DeleteKey |-> DeleteKey,
    DenyBucketKey |-> DenyBucketKey,
    GetAdminTokenInfo |-> GetAdminTokenInfo,
    GetBlockInfo |-> GetBlockInfo,
    GetBucketInfo |-> GetBucketInfo,
    GetClusterHealth |-> GetClusterHealth,
    GetClusterLayout |-> GetClusterLayout,
    GetClusterLayoutHistory |-> GetClusterLayoutHistory,
    GetClusterStatistics |-> GetClusterStatistics,
    GetClusterStatus |-> GetClusterStatus,
    GetCurrentAdminTokenInfo |-> GetCurrentAdminTokenInfo,
    GetKeyInfo |-> GetKeyInfo,
    GetNodeInfo |-> GetNodeInfo,
    GetNodeStatistics |-> GetNodeStatistics,
    GetWorkerInfo |-> GetWorkerInfo,
    GetWorkerVariable |-> GetWorkerVariable,
    ImportKey |-> ImportKey,
    InspectObject |-> InspectObject,
    LaunchRepairOperation |-> LaunchRepairOperation,
    ListAdminTokens |-> ListAdminTokens,
    ListBlockErrors |-> ListBlockErrors,
    ListBuckets |-> ListBuckets,
    ListKeys |-> ListKeys,
    ListWorkers |-> ListWorkers,
    PreviewClusterLayoutChanges |-> PreviewClusterLayoutChanges,
    PurgeBlocks |-> PurgeBlocks,
    RemoveBucketAlias |-> RemoveBucketAlias,
    RetryBlockResync |-> RetryBlockResync,
    RevertClusterLayout |-> RevertClusterLayout,
    SetWorkerVariable |-> SetWorkerVariable,
    UpdateAdminToken |-> UpdateAdminToken,
    UpdateBucket |-> UpdateBucket,
    UpdateClusterLayout |-> UpdateClusterLayout,
    UpdateKey |-> UpdateKey
]

Operations == DOMAIN Api

\* The parsers that look for JSON in a 200; the others keep the bytes alone.
DecodesJson(op) ==
    op \notin {"CheckDomain", "Health", "Metrics",
               "DeleteAdminToken", "DeleteBucket", "DeleteKey"}

\* The operations that change the cluster; the others only look at it, some
\* of them by POST.
Mutating == Operations \ {
    "CheckDomain", "Health", "Metrics", "GetAdminTokenInfo", "GetBlockInfo",
    "GetBucketInfo", "GetClusterHealth", "GetClusterLayout",
    "GetClusterLayoutHistory", "GetClusterStatistics", "GetClusterStatus",
    "GetCurrentAdminTokenInfo", "GetKeyInfo", "GetNodeInfo",
    "GetNodeStatistics", "GetWorkerInfo", "GetWorkerVariable",
    "InspectObject", "ListAdminTokens", "ListBlockErrors", "ListBuckets",
    "ListKeys", "ListWorkers", "PreviewClusterLayoutChanges"}
====
