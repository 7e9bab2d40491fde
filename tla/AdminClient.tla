---- MODULE AdminClient ----
(***************************************************************************)
(* The typed client of the admin API (internal/client): one operator per   *)
(* call, which relates the state before and after it and the class `err`   *)
(* of the error it returns.  `cancelled` says whether the context the      *)
(* caller passes is already cancelled: such a call never leaves the        *)
(* process.                                                                *)
(*                                                                         *)
(* All mutating calls are POSTs, sent once and never retried; when the     *)
(* answer is lost, is a 5xx, or is a 2xx without the JSON body the client  *)
(* requires, the server may or may not have acted. A read is a GET, which  *)
(* the transport repeats; its answer is the server's state at the last     *)
(* attempt, and a fault here is one that outlasts the attempts (module     *)
(* RetryTransport has the attempts).                                       *)
(***************************************************************************)
EXTENDS Garage, ApiErrors

CONSTANTS
    Budget   \* how many disturbances of each kind a behaviour may contain

\* The disturbances: a call without an answer, an interrupt of terraform, a
\* killed provider process, changes behind Terraform's back to an alias, a
\* quota or a bucket, an uploaded object, an edit of the configuration.
Kinds == {"fault", "cancel", "crash", "aliasDrift", "quotaDrift",
          "bucketDrift", "put", "edit"}

ASSUME BudgetAssumption == Budget \in [Kinds -> Nat]

VARIABLE left    \* the disturbances still allowed

Spend(kind) ==
    /\ left[kind] > 0
    /\ left' = [left EXCEPT ![kind] = @ - 1]

\* One exchange: `status` is the server's answer, Effect what it does when
\* that is 200.
Request(status, Effect, cancelled, err) ==
    \/ /\ cancelled
       /\ err = "cancelled"
       /\ UNCHANGED <<garage, left>>
    \/ /\ ~cancelled
       /\ err = StatusToError(status)
       /\ IF status = 200 THEN Effect ELSE UNCHANGED garage
       /\ UNCHANGED left
    \/ /\ ~cancelled
       /\ err \in Failures
       /\ Spend("fault")
       /\ \/ status = 200 /\ err \in Unclear /\ Effect
          \/ UNCHANGED garage

\* A call the client refuses before sending anything.
Refused(err) ==
    /\ err = "invalid"
    /\ UNCHANGED <<garage, left>>

CreateBucket(b, cancelled, err) ==
    Request(200, CreateBucketEffect(b), cancelled, err)

GetBucket(b, cancelled, err) ==
    Request(GetBucketInfoStatus(b), UNCHANGED garage, cancelled, err)

UpdateBucket(b, wire, cancelled, err) ==
    Request(UpdateBucketStatus(b), UpdateBucketEffect(b, wire), cancelled, err)

DeleteBucket(b, cancelled, err) ==
    Request(DeleteBucketStatus(b), DeleteBucketEffect(b), cancelled, err)

AddBucketAlias(b, a, cancelled, err) ==
    IF a = BlankAlias
    THEN Refused(err)
    ELSE Request(AddBucketAliasStatus(b, a), AddBucketAliasEffect(b, a), cancelled, err)

RemoveBucketAlias(b, a, cancelled, err) ==
    IF a = BlankAlias
    THEN Refused(err)
    ELSE Request(RemoveBucketAliasStatus(b, a), RemoveBucketAliasEffect(b, a), cancelled, err)

----
(* The S3 data plane, used by force_destroy alone *)

S3Status(a) == IF owner[a] = NoBucket THEN 404 ELSE 200

ListObjects(a, cancelled, err) ==
    Request(S3Status(a), UNCHANGED garage, cancelled, err)

\* DeleteObjects answers 200 even when it could not delete every key: the
\* failed keys are in the body, which the provider discards.
DeleteObjects(a, keys, cancelled, err) ==
    \/ Request(S3Status(a), DeleteObjectsEffect(a, keys), cancelled, err)
    \/ /\ ~cancelled
       /\ S3Status(a) = 200
       /\ err = "ok"
       /\ Spend("fault")
       /\ \E done \in SUBSET keys : DeleteObjectsEffect(a, done)
====
