---- MODULE BucketResource ----
(***************************************************************************)
(* The garage_bucket resource (internal/resources/bucket) at work: several *)
(* resource blocks, each applied by its own Terraform run, against one     *)
(* Garage cluster.  A run refreshes the resource (Read), plans, and calls  *)
(* Create, Update or Delete; each handler is a sequence of API calls, one  *)
(* action per call, interleaved with the calls of other runs, with changes *)
(* made behind Terraform's back, with S3 uploads, lost answers, interrupts *)
(* and kills.                                                              *)
(***************************************************************************)
EXTENDS AdminClient

CONSTANTS
    Resources,     \* the garage_bucket blocks
    Configs,       \* the configurations each block may be given
    S3Configured   \* whether the provider has S3 credentials

ASSUME ConfigsAssumption == Configs \in [Resources -> SUBSET ConfigSpace]
ASSUME S3Assumption == S3Configured \in BOOLEAN

VARIABLES
    cfg,        \* the configuration of each block; Null when it is removed
    tf,         \* the Terraform state of each block, or NoState
    op,         \* the handler running for each block
    disturbed,  \* blocks whose bucket may have changed behind Terraform's
                \* back since their last refresh
    known,      \* history: unmanaged buckets the operator can know of
    consent     \* history: buckets whose last completed apply set force_destroy

vars == <<garage, left, cfg, tf, op, disturbed, known, consent>>
history == <<disturbed, known, consent>>

----
(* The handlers *)

CreatePcs == {"addAlias", "setQuota", "createGet", "rollback"}
UpdatePcs == {"updateAdd", "updateRemove", "updateQuota", "updateGet"}
DeletePcs == {"deleteGet", "list", "purge", "deleteBucket"}

\* A running handler: the next call, the bucket, the plan, the aliases still
\* to add and to remove, the alias and the keys of the S3 calls, and whether
\* its context is cancelled.
Handlers ==
    [pc        : {"idle", "createBucket"} \cup CreatePcs \cup UpdatePcs \cup DeletePcs,
     id        : BucketIds \cup {NoBucket},
     plan      : Plans,
     adds      : AliasSets,
     drops     : AliasSets,
     alias     : Aliases \cup {Null},
     page      : SUBSET Keys,
     cancelled : BOOLEAN]

NoPlan == [aliases |-> {}, quota |-> [f \in QuotaFields |-> Null], force |-> FALSE]

Idle ==
    [pc |-> "idle", id |-> NoBucket, plan |-> NoPlan, adds |-> {}, drops |-> {},
     alias |-> Null, page |-> {}, cancelled |-> FALSE]

\* The next call of Create once `adds` is what is left of the aliases.
CreatePc(adds, plan) ==
    IF adds # {} THEN "addAlias"
    ELSE IF SetsQuota(plan.quota) THEN "setQuota" ELSE "createGet"

\* A mutant: removes before adds.
UpdatePcRemovesFirst(adds, drops, plan, state) ==
    IF drops # {} THEN "updateRemove"
    ELSE IF adds # {} THEN "updateAdd"
    ELSE IF plan.quota # state.quota THEN "updateQuota" ELSE "updateGet"

\* The next call of Update.
UpdatePc(adds, drops, plan, state) ==
    IF adds # {} THEN "updateAdd"
    ELSE IF drops # {} THEN "updateRemove"
    ELSE IF plan.quota # state.quota THEN "updateQuota" ELSE "updateGet"

CreateOp(plan) ==
    [Idle EXCEPT !.pc = "createBucket", !.plan = plan, !.adds = plan.aliases]

UpdateOp(plan, state) ==
    [Idle EXCEPT !.pc = UpdatePc(ToAdd(plan, state), ToRemove(plan, state), plan, state),
                 !.id = state.id,
                 !.plan = plan,
                 !.adds = ToAdd(plan, state),
                 !.drops = ToRemove(plan, state)]

DeleteOp(state) == [Idle EXCEPT !.pc = "deleteGet", !.id = state.id]

\* What a run does with a refreshed block.
Planned(config, state) ==
    IF config = Null THEN DeleteOp(state)
    ELSE LET plan == PlanForUpdate(config, state) IN
         IF NeedsUpdate(plan, state) THEN UpdateOp(plan, state) ELSE Idle

Continue(r, handler) == op' = [op EXCEPT ![r] = handler]

\* The bucket of a running Create, if it has one.
CreatedBy(r) == IF op[r].pc \in CreatePcs THEN {op[r].id} ELSE {}

Managed == {b \in BucketIds : \E r \in Resources : tf[r] # NoState /\ tf[r].id = b}
InCreate == UNION {CreatedBy(r) : r \in Resources}

\* Ids the cluster may hand out: real ids never recur, these may once
\* nothing refers to them.
FreshIds == BucketIds \ (live \cup Managed \cup InCreate)

Account(lost) ==
    /\ known' = (known \cup lost) \cap live'
    /\ consent' = consent \cap live'

----
(* Read, plan and import *)

\* A mutant: every error taken for a deletion.
GoneOnAnyError(err) == err # "ok"

\* The error that means that the bucket was deleted.
Gone(err) == err = "notFound"

\* The refresh that opens a run: Read, then the plan for what it returned.
Read(r) ==
    /\ op[r].pc = "idle"
    /\ tf[r] # NoState
    /\ \E err \in ErrorClasses :
        /\ GetBucket(tf[r].id, FALSE, err)
        /\ \/ /\ Gone(err)
              /\ tf' = [tf EXCEPT ![r] = NoState]
              /\ UNCHANGED <<op, disturbed>>
           \/ /\ err = "ok"
              /\ LET state == ApplyBucketInfo(BucketInfo(tf[r].id), tf[r]) IN
                 /\ tf' = [tf EXCEPT ![r] = state]
                 /\ Continue(r, Planned(cfg[r], state))
              /\ disturbed' = disturbed \ {r}
           \/ /\ err # "ok" /\ ~Gone(err)
              /\ UNCHANGED <<tf, op, disturbed>>
    /\ UNCHANGED <<cfg, known, consent>>

\* A block with no state is planned for creation.
PlanCreate(r) ==
    /\ op[r].pc = "idle"
    /\ tf[r] = NoState
    /\ cfg[r] # Null
    /\ Continue(r, CreateOp(PlanForCreate(cfg[r])))
    /\ disturbed' = disturbed \ {r}
    /\ UNCHANGED <<garage, left, cfg, tf, known, consent>>

\* terraform import of a bucket the operator knows of: ImportState and its
\* Read, which defaults force_destroy to FALSE.
Import(r, b) ==
    /\ op[r].pc = "idle"
    /\ tf[r] = NoState
    /\ cfg[r] # Null
    /\ b \in known
    /\ tf' = [tf EXCEPT ![r] = ApplyBucketInfo(BucketInfo(b), [force |-> FALSE])]
    /\ known' = known \ {b}
    /\ consent' = consent \ {b}
    /\ UNCHANGED <<garage, left, cfg, op, disturbed>>
----
(* Create *)

\* A mutant: a failure without the rollback.
FailCreateQuietly(r) == Continue(r, Idle)

\* Every failure after the first call goes through the rollback.
FailCreate(r) == Continue(r, [op[r] EXCEPT !.pc = "rollback"])

\* Create's first call.  Without the answer the id is lost: a bucket made
\* all the same is named in no state and no handler.
CreateCall(r) ==
    /\ op[r].pc = "createBucket"
    /\ \E b \in FreshIds, err \in ErrorClasses :
        /\ CreateBucket(b, op[r].cancelled, err)
        /\ \/ /\ err = "ok"
              /\ Continue(r, [op[r] EXCEPT !.id = b,
                                           !.pc = CreatePc(op[r].adds, op[r].plan)])
              /\ Account({})
           \/ /\ err # "ok"
              /\ Continue(r, Idle)
              /\ Account({b})
    /\ UNCHANGED <<cfg, tf, disturbed>>

\* The aliases are added in the order of the plan's set, which is arbitrary.
CreateAddAlias(r) ==
    /\ op[r].pc = "addAlias"
    /\ \E a \in op[r].adds, err \in ErrorClasses :
        /\ AddBucketAlias(op[r].id, a, op[r].cancelled, err)
        /\ \/ /\ err = "ok"
              /\ Continue(r, [op[r] EXCEPT !.adds = @ \ {a},
                                           !.pc = CreatePc(op[r].adds \ {a}, op[r].plan)])
           \/ /\ err # "ok"
              /\ FailCreate(r)
    /\ UNCHANGED <<cfg, tf, history>>

CreateSetQuota(r) ==
    /\ op[r].pc = "setQuota"
    /\ \E err \in ErrorClasses :
        /\ UpdateBucket(op[r].id, ModelToQuotas(op[r].plan.quota), op[r].cancelled, err)
        /\ IF err = "ok" THEN Continue(r, [op[r] EXCEPT !.pc = "createGet"]) ELSE FailCreate(r)
    /\ UNCHANGED <<cfg, tf, history>>

\* A mutant: the state is saved before the read's error is looked at.
CreateGetSavesFirst(r) ==
    /\ op[r].pc = "createGet"
    /\ \E err \in ErrorClasses :
        /\ GetBucket(op[r].id, op[r].cancelled, err)
        /\ IF err = "ok" THEN Continue(r, Idle) ELSE FailCreate(r)
    /\ tf' = [tf EXCEPT ![r] = ApplyBucketInfo(BucketInfo(op[r].id), op[r].plan)]
    /\ UNCHANGED <<cfg, history>>

\* The post-create read; the new state is the plan overlaid with its answer.
CreateGet(r) ==
    /\ op[r].pc = "createGet"
    /\ \E err \in ErrorClasses :
        /\ GetBucket(op[r].id, op[r].cancelled, err)
        /\ \/ /\ err = "ok"
              /\ tf' = [tf EXCEPT ![r] = ApplyBucketInfo(BucketInfo(op[r].id), op[r].plan)]
              /\ Continue(r, Idle)
              /\ consent' = IF op[r].plan.force THEN consent \cup {op[r].id} ELSE consent \ {op[r].id}
           \/ /\ err # "ok"
              /\ FailCreate(r)
              /\ UNCHANGED <<tf, consent>>
    /\ UNCHANGED <<cfg, disturbed, known>>

\* The rollback deletes the new bucket under the context Create was given;
\* when that fails the error is logged and the id goes with it.
Rollback(r) ==
    /\ op[r].pc = "rollback"
    /\ \E err \in ErrorClasses :
        /\ DeleteBucket(op[r].id, op[r].cancelled, err)
        /\ Account(IF err = "ok" THEN {} ELSE {op[r].id})
    /\ Continue(r, Idle)
    /\ UNCHANGED <<cfg, tf, disturbed>>

----
(* Update: on an error Terraform keeps the prior state *)

UpdateAddAlias(r) ==
    /\ op[r].pc = "updateAdd"
    /\ \E a \in op[r].adds, err \in ErrorClasses :
        /\ AddBucketAlias(op[r].id, a, op[r].cancelled, err)
        /\ Continue(r, IF err = "ok"
                       THEN [op[r] EXCEPT !.adds = @ \ {a},
                                          !.pc = UpdatePc(op[r].adds \ {a}, op[r].drops, op[r].plan, tf[r])]
                       ELSE Idle)
    /\ UNCHANGED <<cfg, tf, history>>

UpdateRemoveAlias(r) ==
    /\ op[r].pc = "updateRemove"
    /\ \E a \in op[r].drops, err \in ErrorClasses :
        /\ RemoveBucketAlias(op[r].id, a, op[r].cancelled, err)
        /\ Continue(r, IF err = "ok"
                       THEN [op[r] EXCEPT !.drops = @ \ {a},
                                          !.pc = UpdatePc(op[r].adds, op[r].drops \ {a}, op[r].plan, tf[r])]
                       ELSE Idle)
    /\ UNCHANGED <<cfg, tf, history>>

UpdateSetQuota(r) ==
    /\ op[r].pc = "updateQuota"
    /\ \E err \in ErrorClasses :
        /\ UpdateBucket(op[r].id, ModelToQuotas(op[r].plan.quota), op[r].cancelled, err)
        /\ Continue(r, IF err = "ok" THEN [op[r] EXCEPT !.pc = "updateGet"] ELSE Idle)
    /\ UNCHANGED <<cfg, tf, history>>

UpdateGet(r) ==
    /\ op[r].pc = "updateGet"
    /\ \E err \in ErrorClasses :
        /\ GetBucket(op[r].id, op[r].cancelled, err)
        /\ \/ /\ err = "ok"
              /\ tf' = [tf EXCEPT ![r] = ApplyBucketInfo(BucketInfo(op[r].id), op[r].plan)]
              /\ consent' = IF op[r].plan.force THEN consent \cup {op[r].id} ELSE consent \ {op[r].id}
           \/ /\ err # "ok"
              /\ UNCHANGED <<tf, consent>>
    /\ Continue(r, Idle)
    /\ UNCHANGED <<cfg, disturbed, known>>

----
(* Delete: the state entry goes when the handler ends without an error *)

Forget(r) == tf' = [tf EXCEPT ![r] = NoState]

\* Mutants: no look at force_destroy; an alias of any bucket.
MayEmptyAlways(r) == S3Configured
EmptyTargetsAnywhere(info) == {a \in Aliases : owner[a] # NoBucket}

\* force_destroy is set in the state, and the S3 credentials are there.
MayEmpty(r) == tf[r].force /\ S3Configured

\* emptyBucket is given the first alias of the answer's list, whose order is
\* the server's.
EmptyTargets(info) == info.aliases

DeleteGet(r) ==
    /\ op[r].pc = "deleteGet"
    /\ \E err \in ErrorClasses :
        /\ GetBucket(op[r].id, op[r].cancelled, err)
        /\ LET info == BucketInfo(op[r].id) IN
           \/ /\ Gone(err)
              /\ Forget(r)
              /\ Continue(r, Idle)
           \/ /\ err = "ok" /\ info.empty
              /\ Continue(r, [op[r] EXCEPT !.pc = "deleteBucket"])
              /\ UNCHANGED tf
           \/ /\ err = "ok" /\ ~info.empty /\ MayEmpty(r)
              /\ \E a \in EmptyTargets(info) :
                    Continue(r, [op[r] EXCEPT !.pc = "list", !.alias = a])
              /\ UNCHANGED tf
           \/ /\ \/ err # "ok" /\ ~Gone(err)
                 \/ err = "ok" /\ ~info.empty /\ ~(MayEmpty(r) /\ EmptyTargets(info) # {})
              /\ Continue(r, Idle)
              /\ UNCHANGED tf
    /\ UNCHANGED <<cfg, history>>

\* emptyBucket, for a bucket that fits in one page: list, then delete what
\* was listed; an empty page needs no delete.
EmptyList(r) ==
    /\ op[r].pc = "list"
    /\ \E err \in ErrorClasses :
        /\ ListObjects(op[r].alias, op[r].cancelled, err)
        /\ Continue(r,
            IF err # "ok" THEN Idle
            ELSE LET page == objects[owner[op[r].alias]] IN
                 [op[r] EXCEPT !.page = page,
                               !.pc = IF page = {} THEN "deleteBucket" ELSE "purge"])
    /\ UNCHANGED <<cfg, tf, history>>

EmptyPurge(r) ==
    /\ op[r].pc = "purge"
    /\ \E err \in ErrorClasses :
        /\ DeleteObjects(op[r].alias, op[r].page, op[r].cancelled, err)
        /\ Continue(r, IF err = "ok" THEN [op[r] EXCEPT !.pc = "deleteBucket"] ELSE Idle)
    /\ UNCHANGED <<cfg, tf, history>>

DeleteCall(r) ==
    /\ op[r].pc = "deleteBucket"
    /\ \E err \in ErrorClasses :
        /\ DeleteBucket(op[r].id, op[r].cancelled, err)
        /\ IF err = "ok" THEN Forget(r) ELSE UNCHANGED tf
    /\ Continue(r, Idle)
    /\ Account({})
    /\ UNCHANGED <<cfg, disturbed>>

----
(* Interrupts, kills, edits and changes behind Terraform's back *)

\* terraform is interrupted: the handler's context is cancelled.
Cancel(r) ==
    /\ op[r].pc # "idle"
    /\ ~op[r].cancelled
    /\ Spend("cancel")
    /\ Continue(r, [op[r] EXCEPT !.cancelled = TRUE])
    /\ UNCHANGED <<garage, cfg, tf, history>>

\* The provider process is killed: the handler ends where it is.
Crash(r) ==
    /\ op[r].pc # "idle"
    /\ Spend("crash")
    /\ Continue(r, Idle)
    /\ known' = known \cup (CreatedBy(r) \cap live)
    /\ UNCHANGED <<garage, cfg, tf, disturbed, consent>>

Edit(r) ==
    /\ Spend("edit")
    /\ \E c \in (Configs[r] \cup {Null}) \ {cfg[r]} : cfg' = [cfg EXCEPT ![r] = c]
    /\ UNCHANGED <<garage, tf, op, history>>

\* An administrator points alias a elsewhere or frees it; Garage does not
\* let a bucket's last alias go.
MoveAlias(a, b) ==
    /\ a # BlankAlias
    /\ owner[a] # b
    /\ b # NoBucket => b \in live
    /\ AliasesOf(owner[a]) # {a} \/ owner[a] = NoBucket
    /\ Spend("aliasDrift")
    /\ owner' = [owner EXCEPT ![a] = b]
    /\ disturbed' = Resources
    /\ UNCHANGED <<live, quota, objects, cfg, tf, op, known, consent>>

ChangeQuota(b, wire) ==
    /\ b \in live
    /\ quota[b] # wire
    /\ Spend("quotaDrift")
    /\ UpdateBucketEffect(b, wire)
    /\ disturbed' = Resources
    /\ UNCHANGED <<cfg, tf, op, known, consent>>

DropBucket(b) ==
    /\ DeleteBucketStatus(b) = 200
    /\ Spend("bucketDrift")
    /\ DeleteBucketEffect(b)
    /\ Account({})
    /\ disturbed' = Resources
    /\ UNCHANGED <<cfg, tf, op>>

Upload(a, k) ==
    /\ PutObject(a, k)
    /\ k \notin objects[owner[a]]
    /\ Spend("put")
    /\ UNCHANGED <<cfg, tf, op, history>>

----
\* The steps of the run of one block.
Run(r) ==
    \/ Read(r) \/ PlanCreate(r)
    \/ CreateCall(r) \/ CreateAddAlias(r) \/ CreateSetQuota(r) \/ CreateGet(r) \/ Rollback(r)
    \/ UpdateAddAlias(r) \/ UpdateRemoveAlias(r) \/ UpdateSetQuota(r) \/ UpdateGet(r)
    \/ DeleteGet(r) \/ EmptyList(r) \/ EmptyPurge(r) \/ DeleteCall(r)

Disturbance ==
    \/ \E r \in Resources : Cancel(r) \/ Crash(r) \/ Edit(r)
    \/ \E a \in Aliases, b \in BucketIds \cup {NoBucket} : MoveAlias(a, b)
    \/ \E b \in BucketIds, wire \in WireQuotas : ChangeQuota(b, wire)
    \/ \E b \in BucketIds : DropBucket(b)
    \/ \E a \in Aliases, k \in Keys : Upload(a, k)

Init ==
    /\ GarageInit
    /\ left = Budget
    /\ cfg \in [Resources -> UNION {Configs[r] : r \in Resources}]
    /\ \A r \in Resources : cfg[r] \in Configs[r]
    /\ tf = [r \in Resources |-> NoState]
    /\ op = [r \in Resources |-> Idle]
    /\ disturbed = {}
    /\ known = {}
    /\ consent = {}

Next ==
    \/ \E r \in Resources : Run(r)
    \/ \E r \in Resources, b \in BucketIds : Import(r, b)
    \/ Disturbance

Spec == Init /\ [][Next]_vars

\* Each block is applied again and again, and every call returns.
FairSpec == Spec /\ \A r \in Resources : WF_vars(Run(r))

----
(* Properties *)

\* Types of the state.
TypeOK ==
    /\ GarageTypeOK
    /\ left \in [Kinds -> Nat]
    /\ cfg \in [Resources -> ConfigSpace \cup {Null}]
    /\ tf \in [Resources -> States \cup {NoState}]
    /\ op \in [Resources -> Handlers]
    /\ disturbed \in SUBSET Resources
    /\ known \in SUBSET BucketIds
    /\ consent \in SUBSET BucketIds

\* A handler works on its own block's bucket: Create runs only for a block
\* without a state, and Update and Delete work on the bucket in the state,
\* which no other step replaces while they run.
HandlerShape ==
    \A r \in Resources :
        /\ op[r].pc \in {"createBucket"} \cup CreatePcs => tf[r] = NoState
        /\ op[r].pc \in CreatePcs => op[r].id \in BucketIds
        /\ op[r].pc \in UpdatePcs \cup DeletePcs => tf[r] # NoState /\ op[r].id = tf[r].id
        /\ op[r].pc \in {"list", "purge"} => op[r].alias \in Aliases

\* A bucket is in one place only: two blocks never hold or create the same
\* bucket, a bucket being created is in no state (its rollback would delete a
\* managed bucket), and one that was reported lost is nobody's.
Exclusive ==
    /\ \A r, s \in Resources :
        /\ tf[r] # NoState => tf[r].id \notin CreatedBy(s)
        /\ r # s =>
            /\ tf[r] # NoState /\ tf[s] # NoState => tf[r].id # tf[s].id
            /\ CreatedBy(r) \cap CreatedBy(s) = {}
    /\ known \cap (Managed \cup InCreate) = {}

\* No bucket is orphaned silently: every bucket in Garage is in the Terraform
\* state, in the hands of a running Create, or one whose loss was reported
\* (an unanswered CreateBucket, a failed rollback, a killed provider).
\* Create's rollback on every later failure, Read's and Delete's forgetting
\* on 404 alone, and Delete's order of calls are what it rests on.
NoSilentOrphan == live \subseteq Managed \cup InCreate \cup known

\* When Create or Update reaches its final read and nothing moved behind
\* Terraform's back since the refresh, the bucket has exactly the planned
\* aliases and quotas, whatever failed in earlier runs: the diff against the
\* refreshed state, the null / 0 conversions and the skipped calls lose
\* nothing.
AppliedAsPlanned ==
    \A r \in Resources :
        op[r].pc \in {"createGet", "updateGet"} /\ r \notin disturbed =>
            LET info == BucketInfo(op[r].id) IN
            /\ info.aliases = op[r].plan.aliases
            /\ QuotasToModel(info.quota) = op[r].plan.quota

\* A rename never meets Garage's refusal to remove a last alias: when an
\* Update that leaves some alias is about to remove one, the bucket has
\* another already.  This is why adds precede removes.
RenameNeverRefused ==
    \A r \in Resources :
        op[r].pc = "updateRemove" /\ r \notin disturbed /\ op[r].plan.aliases # {} =>
            \A a \in op[r].drops : RemoveBucketAliasStatus(op[r].id, a) = 200

\* What Create and Update report is what was planned, attribute by attribute
\* (Terraform refuses anything else as an inconsistent result), so that the
\* next plan of the same configuration is empty.
ResultAsPlanned ==
    [][\A r \in Resources :
        op[r].pc \in {"createGet", "updateGet"} /\ r \notin disturbed /\ tf'[r] # tf[r] =>
            ~NeedsUpdate(op[r].plan, tf'[r])]_vars

\* Stored objects disappear only from a bucket whose last completed apply had
\* force_destroy set: not from an imported one, nor from one whose
\* force_destroy edit was never applied.
ForceDestroyIsOptIn ==
    [][\A b \in BucketIds : ~(objects[b] \subseteq objects'[b]) => b \in consent]_vars

\* A Delete empties the bucket it deletes and no other.
EmptiesItsOwnBucket ==
    [][\A b \in BucketIds : ~(objects[b] \subseteq objects'[b]) =>
        \E r \in Resources : op[r].pc = "purge" /\ op[r].id = b]_vars

\* Call by call, the handlers keep the promise of module Custody: a bucket
\* passes from the Create that made it into its block's state, and leaves the
\* state only when it is gone; no handler deletes a bucket of another block,
\* and what no block answers for has been reported lost.
Custodian == INSTANCE Custody WITH
    made <- [r \in Resources |-> IF op[r].pc \in CreatePcs THEN op[r].id ELSE NoBucket],
    kept <- [r \in Resources |-> IF tf[r] = NoState THEN NoBucket ELSE tf[r].id],
    lost <- known,
    drops <- left["bucketDrift"]

CustodySpec == Custodian!Spec

\* The rollback of a failed Create leaves no bucket behind.
RollbackSucceeds ==
    [][\A r \in Resources :
        op[r].pc = "rollback" /\ op'[r].pc = "idle" => op[r].id \notin live']_vars

\* A block is settled when Garage holds what its configuration asks for.
Settled(r) ==
    IF cfg[r] = Null THEN tf[r] = NoState
    ELSE /\ tf[r] # NoState
         /\ tf[r].id \in live
         /\ cfg[r].aliases # Null => AliasesOf(tf[r].id) = cfg[r].aliases
         /\ QuotasToModel(quota[tf[r].id]) = cfg[r].quota

\* A block has nothing left to do.
UpToDate(r) ==
    /\ op[r].pc = "idle"
    /\ Settled(r)
    /\ cfg[r] # Null => tf[r].force = cfg[r].force

\* There is no perpetual diff, and blocks keep out of each other's way: only
\* an edit, or a change behind Terraform's back, gives an up-to-date block
\* something to do.  Its own refreshes plan nothing, and whatever fails in the
\* runs of other blocks does not reach its bucket, its aliases or its quotas.
StaysUpToDate ==
    [][(\A k \in {"edit", "aliasDrift", "quotaDrift", "bucketDrift"} : left'[k] = left[k]) =>
        \A r \in Resources : UpToDate(r) => UpToDate(r)']_vars

\* The configurations can all hold at once: no alias is wanted twice, and
\* every block keeps some alias (Garage does not let a last alias go).
Compatible ==
    \A r \in Resources : cfg[r] # Null =>
        /\ cfg[r].aliases \notin {{}, Null}
        /\ \A s \in Resources \ {r} :
            cfg[s] # Null => cfg[r].aliases \cap cfg[s].aliases = {}

\* No wanted alias is held by a bucket outside Terraform.
AliasesAvailable ==
    \A r \in Resources : cfg[r] # Null =>
        \A b \in known : cfg[r].aliases \cap AliasesOf(b) = {}

\* Two blocks each hold an alias the other wants.
Exchange ==
    \E r, s \in Resources :
        /\ r # s
        /\ \A x \in {r, s} : cfg[x] # Null /\ tf[x] # NoState
        /\ cfg[r].aliases \cap AliasesOf(tf[s].id) # {}
        /\ cfg[s].aliases \cap AliasesOf(tf[r].id) # {}

\* Applying again and again brings every block to its configuration once the
\* disturbances have stopped: drift is repaired, a partial Update is resumed,
\* an alias freed by one block reaches the block that waits for it.  (An
\* exchange is the exception: ExchangeCompletes.)
Converges ==
    <>[](Compatible /\ AliasesAvailable /\ ~Exchange => \A r \in Resources : Settled(r))

\* A Create that got as far as its last call, the post-create read, is
\* completed by a later apply if that call fails: the partial work is picked
\* up.
RetryPicksUpPartialWork ==
    \A r \in Resources : op[r].pc = "createGet" ~> Settled(r)

\* Two blocks that swap their aliases get them in the end.
ExchangeCompletes ==
    <>[](Compatible /\ AliasesAvailable => \A r \in Resources : Settled(r))
====
