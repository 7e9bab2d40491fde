---- MODULE Garage ----
(***************************************************************************)
(* The Garage cluster as the provider uses it: the buckets, who owns each  *)
(* global alias, the quotas and the objects.  Garage is not part of the    *)
(* repository; its answers are the ones the client, the resource and their *)
(* tests rely on.  Every request takes effect in one step; its status is   *)
(* what the server answers when nothing goes wrong on the way.             *)
(***************************************************************************)
EXTENDS BucketModel

CONSTANT Keys   \* object keys

VARIABLES
    live,    \* the ids of the buckets that exist
    owner,   \* the bucket each global alias points to, or NoBucket
    quota,   \* the quotas of each bucket, in wire form
    objects  \* the keys stored in each bucket

garage == <<live, owner, quota, objects>>

GarageTypeOK ==
    /\ live \in SUBSET BucketIds
    /\ owner \in [Aliases -> BucketIds \cup {NoBucket}]
    /\ quota \in [BucketIds -> WireQuotas]
    /\ objects \in [BucketIds -> SUBSET Keys]

AliasesOf(b) == {a \in Aliases : owner[a] = b}

GarageInit ==
    /\ live = {}
    /\ owner = [a \in Aliases |-> NoBucket]
    /\ quota = [b \in BucketIds |-> NoQuota]
    /\ objects = [b \in BucketIds |-> {}]

----
(* Admin API: the status of each request, and its effect when it is 200 *)

CreateBucketEffect(b) ==
    /\ live' = live \cup {b}
    /\ UNCHANGED <<owner, quota, objects>>

GetBucketInfoStatus(b) == IF b \in live THEN 200 ELSE 404

BucketInfo(b) ==
    [id |-> b, aliases |-> AliasesOf(b), quota |-> quota[b], empty |-> objects[b] = {}]

\* An alias is given to one bucket only; giving it again is a no-op.
AddBucketAliasStatus(b, a) ==
    IF b \notin live THEN 404
    ELSE IF owner[a] \in {b, NoBucket} THEN 200 ELSE 400

AddBucketAliasEffect(b, a) ==
    /\ owner' = [owner EXCEPT ![a] = b]
    /\ UNCHANGED <<live, quota, objects>>

\* Garage refuses to take a bucket's last alias, and an alias it lacks.
RemoveBucketAliasStatus(b, a) ==
    IF b \notin live THEN 404
    ELSE IF owner[a] = b /\ AliasesOf(b) # {a} THEN 200 ELSE 400

RemoveBucketAliasEffect(b, a) ==
    /\ owner' = [owner EXCEPT ![a] = NoBucket]
    /\ UNCHANGED <<live, quota, objects>>

\* Both quotas are replaced together: an absent field clears its quota.
UpdateBucketStatus(b) == IF b \in live THEN 200 ELSE 404

UpdateBucketEffect(b, wire) ==
    /\ quota' = [quota EXCEPT ![b] = wire]
    /\ UNCHANGED <<live, owner, objects>>

\* A bucket that stores objects is refused; its aliases go with it.
DeleteBucketStatus(b) ==
    IF b \notin live THEN 404
    ELSE IF objects[b] = {} THEN 200 ELSE 409

DeleteBucketEffect(b) ==
    /\ live' = live \ {b}
    /\ owner' = [a \in Aliases |-> IF owner[a] = b THEN NoBucket ELSE owner[a]]
    /\ quota' = [quota EXCEPT ![b] = NoQuota]
    /\ UNCHANGED objects

----
(* S3: a bucket is addressed by an alias *)

PutObject(a, k) ==
    /\ owner[a] # NoBucket
    /\ LET b == owner[a] IN
       /\ "maxObjects" \in DOMAIN quota[b] => Cardinality(objects[b] \cup {k}) <= quota[b]["maxObjects"]
       /\ objects' = [objects EXCEPT ![b] = @ \cup {k}]
    /\ UNCHANGED <<live, owner, quota>>

DeleteObjectsEffect(a, keys) ==
    /\ objects' = [objects EXCEPT ![owner[a]] = @ \ keys]
    /\ UNCHANGED <<live, owner, quota>>
====
