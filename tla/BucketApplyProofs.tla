---- MODULE BucketApplyProofs ----
(***************************************************************************)
(* What an apply achieves, proved for any number of blocks, buckets,       *)
(* aliases and disturbances: Create and Update end with what was planned,  *)
(* a rename is never refused, and a destroy takes objects from its own     *)
(* bucket alone, and only with consent.                                    *)
(*                                                                         *)
(* The argument is one about a handler's progress: what Garage holds is    *)
(* the plan, less what is still to be added, and what is still to be       *)
(* removed.  It stays true while others work because they work on other    *)
(* buckets (Apart, of BucketResourceProofs).                               *)
(***************************************************************************)
EXTENDS BucketResourceProofs

\* Garage keeps aliases and quotas of existing buckets only.
Tidy ==
    /\ \A a \in Aliases : owner[a] # NoBucket => owner[a] \in live
    /\ \A b \in BucketIds \ live : quota[b] = NoQuota

\* Create's progress.
Creating(r) ==
    /\ op[r].pc = "createBucket" => op[r].adds = op[r].plan.aliases
    /\ op[r].pc \in {"addAlias", "setQuota", "createGet"} /\ r \notin disturbed =>
        /\ op[r].adds \subseteq op[r].plan.aliases
        /\ AliasesOf(op[r].id) = op[r].plan.aliases \ op[r].adds
        /\ op[r].pc # "addAlias" => op[r].adds = {}
        /\ QuotasToModel(quota[op[r].id]) =
             IF op[r].pc = "createGet" THEN op[r].plan.quota ELSE NoPlan.quota

\* Update's progress.
Updating(r) ==
    op[r].pc \in UpdatePcs /\ r \notin disturbed =>
        /\ op[r].id \in live
        /\ op[r].adds \subseteq op[r].plan.aliases
        /\ op[r].drops \cap op[r].plan.aliases = {}
        /\ AliasesOf(op[r].id) = (op[r].plan.aliases \ op[r].adds) \cup op[r].drops
        /\ op[r].pc # "updateAdd" => op[r].adds = {}
        /\ op[r].pc \in {"updateQuota", "updateGet"} => op[r].drops = {}
        /\ QuotasToModel(quota[op[r].id]) =
             IF op[r].pc = "updateGet" THEN op[r].plan.quota ELSE tf[r].quota

\* No alias and no bucket is ever changed behind Terraform's back.
Calm == Budget["aliasDrift"] = 0 /\ Budget["bucketDrift"] = 0

\* A destroy that empties has the state's consent, and its alias still names
\* its bucket.
Purging(r) ==
    op[r].pc \in {"list", "purge"} =>
        /\ tf[r].force
        /\ r \notin disturbed \/ Calm => owner[op[r].alias] = op[r].id

\* What the state says of force_destroy was applied.
Consenting(r) ==
    tf[r] # NoState /\ tf[r].force /\ tf[r].id \in live => tf[r].id \in consent

Progress(r) == Creating(r) /\ Updating(r) /\ Purging(r) /\ Consenting(r)

\* What every step keeps, beside Inv.
ApplyInv ==
    /\ Tidy
    /\ consent \subseteq live
    /\ \A r \in Resources : Progress(r)

\* With no such change in the budget, none is left to happen.
CalmInv == Calm => left["aliasDrift"] = 0 /\ left["bucketDrift"] = 0

\* What a step leaves alone of bucket b.
SameBucket(b) ==
    /\ b \in live' <=> b \in live
    /\ \A a \in Aliases : owner'[a] = b <=> owner[a] = b
    /\ quota'[b] = quota[b]

\* The same, with the consent that was given for it.
Untouched(b) == SameBucket(b) /\ (b \in consent' <=> b \in consent)

----
(* The pure operators *)

\* A new bucket has no quota, and a plan that sets none wants none.
LEMMA NoQuotaFacts ==
    /\ QuotasToModel(NoQuota) = NoPlan.quota
    /\ \A attrs \in QuotaAttrs : ~SetsQuota(attrs) => attrs = NoPlan.quota
<1>1. NoPlan.quota = [f \in QuotaFields |-> Null]
  BY DEF NoPlan
<1>2. DOMAIN NoQuota = {}
  BY DEF NoQuota
<1>3. QuotasToModel(NoQuota) = NoPlan.quota
  BY <1>1, <1>2 DEF QuotasToModel
<1>4. ASSUME NEW attrs \in QuotaAttrs, ~SetsQuota(attrs) PROVE attrs = NoPlan.quota
  <2>1. \A f \in QuotaFields : attrs[f] = Null
    BY <1>4 DEF SetsQuota
  <2>2. attrs = [f \in QuotaFields |-> attrs[f]]
    BY DEF QuotaAttrs
  <2> QED
    BY <1>1, <2>1, <2>2
<1> QED
  BY <1>3, <1>4

\* Create moves on to its quotas when every alias is added, and skips them
\* when the plan sets none.
LEMMA CreatePcFacts ==
    ASSUME NEW adds, NEW plan
    PROVE  /\ CreatePc(adds, plan) \in {"addAlias", "setQuota", "createGet"}
           /\ CreatePc(adds, plan) # "addAlias" => adds = {}
           /\ CreatePc(adds, plan) = "createGet" => ~SetsQuota(plan.quota)
BY DEF CreatePc

\* Update removes when every alias is added, moves on to its quotas when
\* every alias is removed, and skips them when they are as planned.
LEMMA UpdatePcFacts ==
    ASSUME NEW adds, NEW drops, NEW plan, NEW state
    PROVE  /\ UpdatePc(adds, drops, plan, state) \in UpdatePcs
           /\ UpdatePc(adds, drops, plan, state) # "updateAdd" => adds = {}
           /\ UpdatePc(adds, drops, plan, state) \in {"updateQuota", "updateGet"} => drops = {}
           /\ UpdatePc(adds, drops, plan, state) = "updateGet" => plan.quota = state.quota
BY DEF UpdatePc, UpdatePcs

\* The diff of a plan and a state leads from the one to the other
\* (diffGlobalAliases).
LEMMA DiffFacts ==
    ASSUME NEW plan \in Plans, NEW state \in States
    PROVE  /\ ToAdd(plan, state) \subseteq plan.aliases
           /\ ToRemove(plan, state) \cap plan.aliases = {}
           /\ state.aliases = (plan.aliases \ ToAdd(plan, state)) \cup ToRemove(plan, state)
BY DEF ToAdd, ToRemove

\* What Update starts with.
LEMMA UpdateOpFields ==
    ASSUME NEW plan, NEW state
    PROVE  /\ UpdateOp(plan, state).pc = UpdatePc(ToAdd(plan, state), ToRemove(plan, state), plan, state)
           /\ UpdateOp(plan, state).id = state.id
           /\ UpdateOp(plan, state).plan = plan
           /\ UpdateOp(plan, state).adds = ToAdd(plan, state)
           /\ UpdateOp(plan, state).drops = ToRemove(plan, state)
BY DEF UpdateOp, Idle

----
(* The calls: what each changes of the one bucket, and of no other *)

\* A call that changes nothing.
LEMMA NoEffect ==
    ASSUME Tidy, UNCHANGED <<live, owner, quota>>
    PROVE  Tidy' /\ \A b : SameBucket(b)
BY DEF Tidy, SameBucket

\* An alias is given to its bucket alone, and by "ok" it is.
LEMMA AddAliasEffect ==
    ASSUME GarageTypeOK, Tidy, NEW b \in BucketIds, NEW a \in Aliases,
           NEW c, NEW err, AddBucketAlias(b, a, c, err)
    PROVE  /\ Tidy'
           /\ live' = live /\ quota' = quota
           /\ \A x \in BucketIds \ {b} : SameBucket(x)
           /\ err = "ok" => \A x \in Aliases : owner'[x] = b <=> owner[x] = b \/ x = a
<1> DEFINE status == AddBucketAliasStatus(b, a)
<1>1. status \in {200, 400, 404} /\ (status = 200 => b \in live /\ owner[a] \in {b, NoBucket})
  BY DEF AddBucketAliasStatus
<1>2. CASE UNCHANGED garage /\ err # "ok"
  <2>1. UNCHANGED <<live, owner, quota>>
    BY <1>2 DEF garage
  <2> QED
    BY <1>2, <2>1, NoEffect
<1>3. CASE status = 200 /\ AddBucketAliasEffect(b, a)
  <2>1. /\ owner' = [owner EXCEPT ![a] = b] /\ UNCHANGED <<live, quota>>
        /\ owner \in [Aliases -> BucketIds \cup {NoBucket}]
    BY <1>3 DEF AddBucketAliasEffect, GarageTypeOK
  <2>2. \A x \in Aliases : owner'[x] = IF x = a THEN b ELSE owner[x]
    BY <2>1
  <2>3. Tidy'
    BY <1>1, <1>3, <2>1, <2>2 DEF Tidy
  <2>4. \A x \in BucketIds \ {b} : SameBucket(x)
    BY <1>1, <1>3, <2>1, <2>2, NoBucketAssumption DEF SameBucket
  <2> QED
    BY <2>1, <2>2, <2>3, <2>4
<1>4. \/ UNCHANGED garage /\ err # "ok"
      \/ status = 200 /\ AddBucketAliasEffect(b, a)
  BY <1>1, Statuses, FailuresSay DEF AddBucketAlias, Refused, Request
<1> QED
  BY <1>2, <1>3, <1>4

\* An alias is taken from its bucket alone, and by "ok" it is.
LEMMA RemoveAliasEffect ==
    ASSUME GarageTypeOK, Tidy, NEW b \in BucketIds, NEW a \in Aliases,
           NEW c, NEW err, RemoveBucketAlias(b, a, c, err)
    PROVE  /\ Tidy'
           /\ live' = live /\ quota' = quota
           /\ \A x \in BucketIds \ {b} : SameBucket(x)
           /\ err = "ok" => \A x \in Aliases : owner'[x] = b <=> owner[x] = b /\ x # a
<1> DEFINE status == RemoveBucketAliasStatus(b, a)
<1>1. status \in {200, 400, 404} /\ (status = 200 => b \in live /\ owner[a] = b)
  BY DEF RemoveBucketAliasStatus
<1>2. CASE UNCHANGED garage /\ err # "ok"
  <2>1. UNCHANGED <<live, owner, quota>>
    BY <1>2 DEF garage
  <2> QED
    BY <1>2, <2>1, NoEffect
<1>3. CASE status = 200 /\ RemoveBucketAliasEffect(b, a)
  <2>1. /\ owner' = [owner EXCEPT ![a] = NoBucket] /\ UNCHANGED <<live, quota>>
        /\ owner \in [Aliases -> BucketIds \cup {NoBucket}]
    BY <1>3 DEF RemoveBucketAliasEffect, GarageTypeOK
  <2>2. \A x \in Aliases : owner'[x] = IF x = a THEN NoBucket ELSE owner[x]
    BY <2>1
  <2>3. Tidy'
    BY <2>1, <2>2 DEF Tidy
  <2>4. \A x \in BucketIds \ {b} : SameBucket(x)
    BY <1>1, <1>3, <2>1, <2>2, NoBucketAssumption DEF SameBucket
  <2> QED
    BY <2>1, <2>2, <2>3, <2>4, NoBucketAssumption
<1>4. \/ UNCHANGED garage /\ err # "ok"
      \/ status = 200 /\ RemoveBucketAliasEffect(b, a)
  BY <1>1, Statuses, FailuresSay DEF RemoveBucketAlias, Refused, Request
<1> QED
  BY <1>2, <1>3, <1>4

\* The quotas of its bucket alone are replaced, and by "ok" they are.
LEMMA SetQuotaEffect ==
    ASSUME GarageTypeOK, Tidy, NEW b \in BucketIds, NEW w,
           NEW c, NEW err, UpdateBucket(b, w, c, err)
    PROVE  /\ Tidy'
           /\ live' = live /\ owner' = owner
           /\ \A x \in BucketIds \ {b} : SameBucket(x)
           /\ err = "ok" => quota'[b] = w
<1> DEFINE status == UpdateBucketStatus(b)
<1>1. status \in {200, 404} /\ (status = 200 => b \in live)
  BY DEF UpdateBucketStatus
<1>2. CASE UNCHANGED garage /\ err # "ok"
  <2>1. UNCHANGED <<live, owner, quota>>
    BY <1>2 DEF garage
  <2> QED
    BY <1>2, <2>1, NoEffect
<1>3. CASE status = 200 /\ UpdateBucketEffect(b, w)
  <2>1. /\ quota' = [quota EXCEPT ![b] = w] /\ UNCHANGED <<live, owner>>
        /\ quota \in [BucketIds -> WireQuotas]
    BY <1>3 DEF UpdateBucketEffect, GarageTypeOK
  <2>2. \A x \in BucketIds : quota'[x] = IF x = b THEN w ELSE quota[x]
    BY <2>1
  <2> QED
    BY <1>1, <1>3, <2>1, <2>2 DEF Tidy, SameBucket
<1>4. \/ UNCHANGED garage /\ err # "ok"
      \/ status = 200 /\ UpdateBucketEffect(b, w)
  BY <1>1, Statuses, FailuresSay DEF UpdateBucket, Request
<1> QED
  BY <1>2, <1>3, <1>4

\* A deletion takes the bucket with its aliases and quotas, and no other's.
LEMMA DropEffect ==
    ASSUME GarageTypeOK, Tidy, NEW b \in BucketIds, DeleteBucketEffect(b)
    PROVE  Tidy' /\ live' = live \ {b} /\ \A x \in BucketIds \ {b} : SameBucket(x)
<1>1. /\ live' = live \ {b}
      /\ owner' = [a \in Aliases |-> IF owner[a] = b THEN NoBucket ELSE owner[a]]
      /\ quota' = [quota EXCEPT ![b] = NoQuota]
      /\ quota \in [BucketIds -> WireQuotas]
  BY DEF DeleteBucketEffect, GarageTypeOK
<1>2. \A x \in BucketIds : quota'[x] = IF x = b THEN NoQuota ELSE quota[x]
  BY <1>1
<1>3. \A a \in Aliases : owner'[a] = IF owner[a] = b THEN NoBucket ELSE owner[a]
  BY <1>1
<1> QED
  BY <1>1, <1>2, <1>3, NoBucketAssumption DEF Tidy, SameBucket

\* So does DeleteBucket.
LEMMA DeleteEffect ==
    ASSUME GarageTypeOK, Tidy, NEW b \in BucketIds, NEW c, NEW err, DeleteBucket(b, c, err)
    PROVE  Tidy' /\ live' \subseteq live /\ \A x \in BucketIds \ {b} : SameBucket(x)
<1>1. CASE UNCHANGED garage
  <2>1. UNCHANGED <<live, owner, quota>>
    BY <1>1 DEF garage
  <2> QED
    BY <2>1, NoEffect
<1>2. CASE DeleteBucketEffect(b)
  BY <1>2, DropEffect
<1>3. UNCHANGED garage \/ DeleteBucketEffect(b)
  BY DEF DeleteBucket, Request
<1> QED
  BY <1>1, <1>2, <1>3

\* A new bucket is empty of aliases and quotas, and every other is as it was.
LEMMA CreateEffect ==
    ASSUME GarageTypeOK, Tidy, NEW b \in BucketIds \ live, NEW c, NEW err, CreateBucket(b, c, err)
    PROVE  /\ Tidy'
           /\ \A x \in BucketIds \ {b} : SameBucket(x)
           /\ \A a \in Aliases : owner'[a] # b
           /\ quota'[b] = NoQuota
<1>1. UNCHANGED <<owner, quota>> /\ live' \in {live, live \cup {b}}
  BY DEF CreateBucket, Request, CreateBucketEffect, garage
<1>2. (\A a \in Aliases : owner[a] # b) /\ quota[b] = NoQuota
  BY NoBucketAssumption DEF Tidy
<1> QED
  BY <1>1, <1>2 DEF Tidy, SameBucket

\* The S3 calls change objects only.
LEMMA S3Effect ==
    ASSUME NEW a, NEW keys, NEW c, NEW err,
           ListObjects(a, c, err) \/ DeleteObjects(a, keys, c, err)
    PROVE  UNCHANGED <<live, owner, quota>>
BY DEF ListObjects, DeleteObjects, Request, DeleteObjectsEffect, garage

----
(* Progress under other steps *)

\* The aliases of a bucket left alone are the same.
LEMMA SameAliases ==
    ASSUME NEW b, SameBucket(b)
    PROVE  {a \in Aliases : owner'[a] = b} = {a \in Aliases : owner[a] = b}
BY DEF SameBucket

\* A handler's progress stands when nothing touches the bucket that its
\* block holds: a step of another block, or one that concerns no block.
LEMMA ProgressFrame ==
    ASSUME Inv, NEW r \in Resources, Progress(r),
           op'[r] = op[r], tf'[r] = tf[r], r \in disturbed' <=> r \in disturbed,
           \A b \in BucketIds : Holds(r, b) => Untouched(b)
    PROVE  Progress(r)'
<1> DEFINE b == op[r].id
<1>1. op[r].pc \in CreatePcs \cup UpdatePcs \cup DeletePcs =>
        /\ SameBucket(b)
        /\ {a \in Aliases : owner'[a] = b} = {a \in Aliases : owner[a] = b}
  <2> SUFFICES ASSUME op[r].pc \in CreatePcs \cup UpdatePcs \cup DeletePcs
               PROVE  SameBucket(b)
    BY SameAliases
  <2>1. b \in BucketIds /\ Holds(r, b)
    BY BlockFacts DEF Shape, Holds, CreatedBy
  <2> QED
    BY <2>1 DEF Untouched
<1>2. Creating(r)'
  <2>1. op[r].pc \in {"addAlias", "setQuota", "createGet"} => op[r].pc \in CreatePcs
    BY DEF CreatePcs
  <2> QED
    BY <1>1, <2>1 DEF Progress, Creating, AliasesOf, SameBucket
<1>3. Updating(r)'
  BY <1>1 DEF Progress, Updating, AliasesOf, SameBucket
<1>4. Purging(r)'
  <2>1. op[r].pc \in {"list", "purge"} => op[r].pc \in DeletePcs /\ op[r].alias \in Aliases
    BY BlockFacts DEF DeletePcs, Shape
  <2> QED
    BY <1>1, <2>1 DEF Progress, Purging, SameBucket
<1>5. Consenting(r)'
  <2>1. tf[r] # NoState => Untouched(tf[r].id)
    BY BlockFacts DEF Holds
  <2> QED
    BY <2>1 DEF Progress, Consenting, Untouched, SameBucket
<1> QED
  BY <1>2, <1>3, <1>4, <1>5 DEF Progress

\* A step of block r keeps ApplyInv when it keeps r's own progress and
\* touches only a bucket that no other block holds.
LEMMA ApplyStep ==
    ASSUME Inv, ApplyInv, NEW r \in Resources, NEW h, NEW st,
           op' = [op EXCEPT ![r] = h], tf' = [tf EXCEPT ![r] = st],
           disturbed' = disturbed \/ disturbed' = disturbed \ {r},
           Tidy', (consent \subseteq live)', Progress(r)',
           \A s \in Resources \ {r}, b \in BucketIds : Holds(s, b) => Untouched(b)
    PROVE  ApplyInv'
<1>1. ASSUME NEW s \in Resources \ {r} PROVE Progress(s)'
  <2>1. op'[s] = op[s] /\ tf'[s] = tf[s] /\ (s \in disturbed' <=> s \in disturbed)
    BY DEF Inv, TypeOK
  <2>2. Progress(s) /\ \A b \in BucketIds : Holds(s, b) => Untouched(b)
    BY DEF ApplyInv
  <2> QED
    BY <2>1, <2>2, ProgressFrame
<1>2. \A s \in Resources : Progress(s)'
  BY <1>1
<1> QED
  BY <1>2 DEF ApplyInv

\* What one block holds, no other does, and no unmanaged bucket is.
LEMMA HeldApart ==
    ASSUME Inv, NEW r \in Resources, NEW s \in Resources \ {r},
           NEW b \in BucketIds, Holds(s, b)
    PROVE  ~Holds(r, b) /\ b \notin known
BY DEF Inv, Apart

\* A step that works on bucket c, which block r holds or nobody does, touches
\* no bucket of another block.
LEMMA OthersUntouched ==
    ASSUME Inv, ApplyInv, NEW r \in Resources, NEW c,
           Holds(r, c) \/ c \in known \/ \A s \in Resources : ~Holds(s, c),
           \A x \in BucketIds \ {c} : SameBucket(x),
           \/ \A x \in BucketIds \ {c} : x \in consent' <=> x \in consent
           \/ consent' = consent \cap live'
    PROVE  \A s \in Resources \ {r}, b \in BucketIds : Holds(s, b) => Untouched(b)
<1>1. SUFFICES ASSUME NEW s \in Resources \ {r}, NEW b \in BucketIds, Holds(s, b)
               PROVE  Untouched(b)
  OBVIOUS
<1>2. b # c
  BY <1>1, HeldApart
<1>3. SameBucket(b)
  BY <1>2
<1>4. b \in consent => b \in live
  BY DEF ApplyInv
<1> QED
  BY <1>2, <1>3, <1>4 DEF Untouched, SameBucket

\* The same for a step that changes nothing in Garage.
LEMMA NoneTouched ==
    ASSUME UNCHANGED <<live, owner, quota, consent>>
    PROVE  \A b \in BucketIds : Untouched(b)
BY DEF Untouched, SameBucket

\* A handler that has ended, or rolls back, has no progress to keep.
LEMMA EndedProgress ==
    ASSUME NEW r \in Resources, op'[r].pc \in {"idle", "rollback", "deleteGet", "deleteBucket"},
           Consenting(r)'
    PROVE  Progress(r)'
BY DEF Progress, Creating, Updating, Purging, UpdatePcs

\* A state entry that a step leaves alone says what it said of consent.
LEMMA ConsentKept ==
    ASSUME NEW r \in Resources, Consenting(r), tf'[r] = tf[r],
           live' \subseteq live,
           consent' = consent \/ consent' = consent \cap live'
    PROVE  Consenting(r)'
BY DEF Consenting

----
(* Read, plan, import *)

\* A refreshed block's Update starts with nothing done and all to do.
LEMMA PlannedProgress ==
    ASSUME NEW config \in ConfigSpace \cup {Null}, NEW state \in States,
           NEW h, h = Planned(config, state), h.pc \in UpdatePcs
    PROVE  /\ h.id = state.id
           /\ h.adds \subseteq h.plan.aliases
           /\ h.drops \cap h.plan.aliases = {}
           /\ state.aliases = (h.plan.aliases \ h.adds) \cup h.drops
           /\ h.pc # "updateAdd" => h.adds = {}
           /\ h.pc \in {"updateQuota", "updateGet"} => h.drops = {}
           /\ h.pc = "updateGet" => h.plan.quota = state.quota
<1> DEFINE plan == PlanForUpdate(config, state)
<1>1. config # Null /\ h = UpdateOp(plan, state)
  BY DEF Planned, DeleteOp, Idle, UpdatePcs
<1>2. plan \in Plans
  BY <1>1, PlanTypes
<1> HIDE DEF plan
<1> QED
  BY <1>1, <1>2, UpdateOpFields, UpdatePcFacts, DiffFacts

\* A refresh makes the state what Garage holds, and a plan starts from it.
LEMMA ReadApply ==
    ASSUME Inv, ApplyInv, NEW r \in Resources, Read(r)
    PROVE  ApplyInv'
<1>1. /\ op[r].pc = "idle" /\ tf[r] # NoState
      /\ UNCHANGED <<cfg, known, consent>>
  BY DEF Read
<1>2. PICK err \in ErrorClasses :
        /\ GetBucket(tf[r].id, FALSE, err)
        /\ \/ /\ Gone(err)
              /\ tf' = [tf EXCEPT ![r] = NoState]
              /\ UNCHANGED <<op, disturbed>>
           \/ /\ err = "ok"
              /\ LET state == ApplyBucketInfo(BucketInfo(tf[r].id), tf[r]) IN
                 /\ tf' = [tf EXCEPT ![r] = state]
                 /\ Continue(r, Planned(cfg[r], state))
              /\ disturbed' = disturbed \ {r}
           \/ /\ err # "ok" /\ ~Gone(err)
              /\ UNCHANGED <<tf, op, disturbed>>
  BY DEF Read
<1>3. UNCHANGED garage /\ (err = "ok" => tf[r].id \in live)
  BY <1>1, <1>2, BlockFacts, GetBucketFacts
<1>4. UNCHANGED <<live, owner, quota, consent>>
  BY <1>1, <1>3 DEF garage
<1>5. Tidy' /\ (consent \subseteq live)'
  BY <1>4, NoEffect DEF ApplyInv
<1>6. \A s \in Resources \ {r}, b \in BucketIds : Holds(s, b) => Untouched(b)
  BY <1>4, NoneTouched
<1>7. CASE Gone(err) /\ tf' = [tf EXCEPT ![r] = NoState] /\ UNCHANGED <<op, disturbed>>
  <2>1. op' = [op EXCEPT ![r] = op[r]] /\ op'[r].pc = "idle" /\ tf'[r] = NoState
    BY <1>1, <1>7 DEF Inv, TypeOK
  <2>2. Progress(r)'
    BY <2>1, EndedProgress DEF Consenting
  <2> QED
    BY <1>5, <1>6, <1>7, <2>1, <2>2, ApplyStep
<1>8. CASE /\ err = "ok"
           /\ LET state == ApplyBucketInfo(BucketInfo(tf[r].id), tf[r]) IN
              /\ tf' = [tf EXCEPT ![r] = state]
              /\ Continue(r, Planned(cfg[r], state))
           /\ disturbed' = disturbed \ {r}
  <2> DEFINE state == ApplyBucketInfo(BucketInfo(tf[r].id), tf[r])
             h == Planned(cfg[r], state)
  <2>1. state \in States /\ state.id = tf[r].id
    BY <1>1, BlockFacts, ApplyType
  <2>2. /\ state.aliases = AliasesOf(tf[r].id)
        /\ state.quota = QuotasToModel(quota[tf[r].id])
        /\ state.force = tf[r].force
    BY DEF ApplyBucketInfo, BucketInfo
  <2>3. h.pc \in {"idle", "deleteGet"} \cup UpdatePcs
    BY <2>1, BlockFacts, PlannedType
  <2>4. tf' = [tf EXCEPT ![r] = state] /\ op' = [op EXCEPT ![r] = h]
    BY <1>8 DEF Continue
  <2>5. h.pc \in UpdatePcs =>
          /\ h.id = state.id
          /\ h.adds \subseteq h.plan.aliases
          /\ h.drops \cap h.plan.aliases = {}
          /\ state.aliases = (h.plan.aliases \ h.adds) \cup h.drops
          /\ h.pc # "updateAdd" => h.adds = {}
          /\ h.pc \in {"updateQuota", "updateGet"} => h.drops = {}
          /\ h.pc = "updateGet" => h.plan.quota = state.quota
    BY <2>1, BlockFacts, PlannedProgress
  <2> HIDE DEF state, h
  <2>6. tf'[r] = state /\ op'[r] = h
    BY <2>4 DEF Inv, TypeOK
  <2>7. Consenting(r)'
    <3>1. Consenting(r)
      BY DEF ApplyInv, Progress
    <3> QED
      BY <1>1, <1>4, <2>1, <2>2, <2>6, <3>1 DEF Consenting
  <2>8. CASE h.pc \in {"idle", "deleteGet"}
    <3>1. Progress(r)'
      BY <2>6, <2>7, <2>8, EndedProgress
    <3> QED
      BY <1>5, <1>6, <1>8, <2>4, <3>1, ApplyStep
  <2>9. CASE h.pc \in UpdatePcs
    <3>1. Updating(r)'
      BY <1>3, <1>4, <1>8, <2>1, <2>2, <2>5, <2>6, <2>9 DEF Updating, AliasesOf
    <3>2. Creating(r)' /\ Purging(r)'
      BY <2>6, <2>9 DEF Creating, Purging, UpdatePcs
    <3>3. Progress(r)'
      BY <2>7, <3>1, <3>2 DEF Progress
    <3> QED
      BY <1>5, <1>6, <1>8, <2>4, <3>3, ApplyStep
  <2> QED
    BY <2>3, <2>8, <2>9
<1>9. CASE UNCHANGED <<tf, op, disturbed>>
  <2>1. /\ op' = [op EXCEPT ![r] = op[r]] /\ tf' = [tf EXCEPT ![r] = tf[r]]
        /\ op'[r].pc = "idle"
    BY <1>1, <1>9 DEF Inv, TypeOK
  <2>2. Consenting(r)'
    BY <1>4, <1>9, ConsentKept DEF ApplyInv, Progress
  <2>3. Progress(r)'
    BY <2>1, <2>2, EndedProgress
  <2> QED
    BY <1>5, <1>6, <1>9, <2>1, <2>3, ApplyStep
<1> QED
  BY <1>2, <1>7, <1>8, <1>9

\* Create starts with every alias of the plan to add.
LEMMA PlanCreateApply ==
    ASSUME Inv, ApplyInv, NEW r \in Resources, PlanCreate(r)
    PROVE  ApplyInv'
<1> DEFINE h == CreateOp(PlanForCreate(cfg[r]))
<1>1. /\ tf[r] = NoState
      /\ op' = [op EXCEPT ![r] = h]
      /\ disturbed' = disturbed \ {r}
      /\ UNCHANGED <<garage, tf, consent>>
  BY DEF PlanCreate, Continue
<1>2. h.pc = "createBucket" /\ h.adds = h.plan.aliases
  BY DEF CreateOp, Idle
<1> HIDE DEF h
<1>3. UNCHANGED <<live, owner, quota, consent>>
  BY <1>1 DEF garage
<1>4. Tidy' /\ (consent \subseteq live)'
  BY <1>3, NoEffect DEF ApplyInv
<1>5. \A s \in Resources \ {r}, b \in BucketIds : Holds(s, b) => Untouched(b)
  BY <1>3, NoneTouched
<1>6. tf' = [tf EXCEPT ![r] = tf[r]] /\ tf'[r] = NoState /\ op'[r] = h
  BY <1>1 DEF Inv, TypeOK
<1>7. Progress(r)'
  BY <1>2, <1>6 DEF Progress, Creating, Updating, Purging, Consenting, UpdatePcs
<1> QED
  BY <1>1, <1>4, <1>5, <1>6, <1>7, ApplyStep

\* An imported bucket has no consent, and claims none.
LEMMA ImportApply ==
    ASSUME Inv, ApplyInv, NEW r \in Resources, NEW b \in BucketIds, Import(r, b)
    PROVE  ApplyInv'
<1> DEFINE state == ApplyBucketInfo(BucketInfo(b), [force |-> FALSE])
<1>1. /\ op[r].pc = "idle" /\ b \in known
      /\ tf' = [tf EXCEPT ![r] = state]
      /\ consent' = consent \ {b}
      /\ UNCHANGED <<garage, op, disturbed>>
  BY DEF Import
<1>2. state.force = FALSE
  BY DEF ApplyBucketInfo
<1> HIDE DEF state
<1>3. UNCHANGED <<live, owner, quota>>
  BY <1>1 DEF garage
<1>4. Tidy' /\ (consent \subseteq live)' /\ \A x : SameBucket(x)
  BY <1>1, <1>3, NoEffect DEF ApplyInv
<1>5. \A s \in Resources \ {r}, x \in BucketIds : Holds(s, x) => Untouched(x)
  <2>1. \A x \in BucketIds \ {b} : x \in consent' <=> x \in consent
    BY <1>1
  <2> QED
    BY <1>1, <1>4, <2>1, OthersUntouched
<1>6. op' = [op EXCEPT ![r] = op[r]] /\ op'[r].pc = "idle" /\ tf'[r] = state
  BY <1>1 DEF Inv, TypeOK
<1>7. Progress(r)'
  BY <1>2, <1>6, EndedProgress DEF Consenting
<1> QED
  BY <1>1, <1>4, <1>5, <1>6, <1>7, ApplyStep

----
(* Create *)

\* The new bucket has no alias and no quota, as Create takes it to have.
LEMMA CreateCallApply ==
    ASSUME Inv, ApplyInv, NEW r \in Resources, CreateCall(r)
    PROVE  ApplyInv'
<1>1. op[r].pc = "createBucket" /\ tf[r] = NoState /\ UNCHANGED <<tf, disturbed>>
  BY BlockFacts DEF CreateCall, Shape
<1>2. PICK b \in FreshIds, err \in ErrorClasses :
        /\ CreateBucket(b, op[r].cancelled, err)
        /\ \/ /\ err = "ok"
              /\ Continue(r, [op[r] EXCEPT !.id = b,
                                           !.pc = CreatePc(op[r].adds, op[r].plan)])
              /\ Account({})
           \/ /\ err # "ok"
              /\ Continue(r, Idle)
              /\ Account({b})
  BY DEF CreateCall
<1>3. b \in BucketIds \ live /\ \A s \in Resources : ~Holds(s, b)
  BY DEF FreshIds, Managed, InCreate, Holds, Inv
<1>4. /\ Tidy'
      /\ \A x \in BucketIds \ {b} : SameBucket(x)
      /\ \A a \in Aliases : owner'[a] # b
      /\ quota'[b] = NoQuota
  BY <1>2, <1>3, BlockFacts, CreateEffect DEF ApplyInv
<1>5. consent' = consent \cap live'
  BY <1>2 DEF Account
<1>6. \A s \in Resources \ {r}, x \in BucketIds : Holds(s, x) => Untouched(x)
  BY <1>3, <1>4, <1>5, OthersUntouched
<1>7. tf' = [tf EXCEPT ![r] = NoState] /\ tf'[r] = NoState
  BY <1>1 DEF Inv, TypeOK
<1>8. CASE Continue(r, [op[r] EXCEPT !.id = b, !.pc = CreatePc(op[r].adds, op[r].plan)])
  <2> DEFINE pc == CreatePc(op[r].adds, op[r].plan)
             h == [op[r] EXCEPT !.id = b, !.pc = pc]
  <2>1. op[r] \in Handlers /\ op[r].plan.quota \in QuotaAttrs
    BY BlockFacts DEF Handlers, Plans
  <2>2. op' = [op EXCEPT ![r] = h]
    BY <1>8 DEF Continue
  <2>3. /\ pc \in {"addAlias", "setQuota", "createGet"}
        /\ pc # "addAlias" => op[r].adds = {}
        /\ pc = "createGet" => op[r].plan.quota = NoPlan.quota
    BY <2>1, CreatePcFacts, NoQuotaFacts
  <2> HIDE DEF pc
  <2>4. h.pc = pc /\ h.id = b /\ h.adds = op[r].adds /\ h.plan = op[r].plan
    BY <2>1 DEF Handlers
  <2> HIDE DEF h
  <2>5. op'[r] = h
    BY <2>2 DEF Inv, TypeOK
  <2>6. op[r].adds = op[r].plan.aliases
    BY <1>1 DEF ApplyInv, Progress, Creating
  <2>7. {a \in Aliases : owner'[a] = b} = {}
    BY <1>4
  <2>8. Creating(r)'
    BY <1>4, <2>3, <2>4, <2>5, <2>6, <2>7, NoQuotaFacts DEF Creating, AliasesOf
  <2>9. Progress(r)'
    BY <1>7, <2>3, <2>4, <2>5, <2>8 DEF Progress, Updating, Purging, Consenting, UpdatePcs
  <2> QED
    BY <1>1, <1>4, <1>5, <1>6, <1>7, <2>2, <2>9, ApplyStep
<1>9. CASE Continue(r, Idle)
  <2>1. op' = [op EXCEPT ![r] = Idle] /\ op'[r] = Idle
    BY <1>9 DEF Continue, Inv, TypeOK
  <2>2. Progress(r)'
    BY <1>7, <2>1, PcsDisjoint, EndedProgress DEF Consenting
  <2> QED
    BY <1>1, <1>4, <1>5, <1>6, <1>7, <2>1, <2>2, ApplyStep
<1> QED
  BY <1>2, <1>8, <1>9

\* A Create that fails has only its rollback to do.
LEMMA FailedProgress ==
    ASSUME Inv, NEW r \in Resources, tf[r] = NoState, UNCHANGED tf, FailCreate(r)
    PROVE  /\ Progress(r)'
           /\ \E h : op' = [op EXCEPT ![r] = h]
<1> DEFINE h == [op[r] EXCEPT !.pc = "rollback"]
<1>1. op' = [op EXCEPT ![r] = h]
  BY DEF FailCreate, Continue
<1>2. op'[r].pc = "rollback" /\ tf'[r] = NoState
  BY <1>1, BlockFacts DEF Handlers, Inv, TypeOK
<1> QED
  BY <1>1, <1>2, EndedProgress DEF Consenting

\* Each alias added is one less to add.
LEMMA CreateAddAliasApply ==
    ASSUME Inv, ApplyInv, NEW r \in Resources, CreateAddAlias(r)
    PROVE  ApplyInv'
<1>1. op[r].pc = "addAlias" /\ op[r].pc \in CreatePcs /\ UNCHANGED <<tf, disturbed, consent>>
  BY DEF CreateAddAlias, CreatePcs, history
<1>2. PICK a \in op[r].adds, err \in ErrorClasses :
        /\ AddBucketAlias(op[r].id, a, op[r].cancelled, err)
        /\ \/ /\ err = "ok"
              /\ Continue(r, [op[r] EXCEPT !.adds = @ \ {a},
                                           !.pc = CreatePc(op[r].adds \ {a}, op[r].plan)])
           \/ /\ err # "ok"
              /\ FailCreate(r)
  BY DEF CreateAddAlias
<1> DEFINE b == op[r].id
<1>3. b \in BucketIds /\ tf[r] = NoState /\ a \in Aliases /\ Holds(r, b)
  BY <1>1, BlockFacts DEF Shape, Handlers, AliasSets, Holds, CreatedBy
<1>4. /\ Tidy' /\ live' = live /\ quota' = quota
      /\ \A x \in BucketIds \ {b} : SameBucket(x)
      /\ err = "ok" => \A x \in Aliases : owner'[x] = b <=> owner[x] = b \/ x = a
  BY <1>2, <1>3, BlockFacts, AddAliasEffect DEF ApplyInv
<1>5. \A s \in Resources \ {r}, x \in BucketIds : Holds(s, x) => Untouched(x)
  BY <1>1, <1>3, <1>4, OthersUntouched
<1>6. (consent \subseteq live)' /\ tf' = [tf EXCEPT ![r] = tf[r]] /\ tf'[r] = NoState
  BY <1>1, <1>3, <1>4 DEF ApplyInv, Inv, TypeOK
<1>7. CASE FailCreate(r)
  <2>1. Progress(r)' /\ \E h : op' = [op EXCEPT ![r] = h]
    BY <1>1, <1>3, <1>7, FailedProgress
  <2> QED
    BY <1>1, <1>4, <1>5, <1>6, <2>1, ApplyStep
<1>8. CASE /\ err = "ok"
           /\ Continue(r, [op[r] EXCEPT !.adds = @ \ {a},
                                        !.pc = CreatePc(op[r].adds \ {a}, op[r].plan)])
  <2> DEFINE adds == op[r].adds \ {a}
             pc == CreatePc(adds, op[r].plan)
             h == [op[r] EXCEPT !.adds = adds, !.pc = pc]
  <2>1. op[r] \in Handlers /\ op[r].plan.quota \in QuotaAttrs
    BY BlockFacts DEF Handlers, Plans
  <2>2. op' = [op EXCEPT ![r] = h]
    BY <1>8 DEF Continue
  <2>3. /\ pc \in {"addAlias", "setQuota", "createGet"}
        /\ pc # "addAlias" => adds = {}
        /\ pc = "createGet" => op[r].plan.quota = NoPlan.quota
    BY <2>1, CreatePcFacts, NoQuotaFacts
  <2> HIDE DEF pc
  <2>4. h.pc = pc /\ h.id = b /\ h.adds = adds /\ h.plan = op[r].plan
    BY <2>1 DEF Handlers
  <2> HIDE DEF h
  <2>5. op'[r] = h
    BY <2>2 DEF Inv, TypeOK
  <2>6. r \notin disturbed =>
          /\ op[r].adds \subseteq op[r].plan.aliases
          /\ AliasesOf(b) = op[r].plan.aliases \ op[r].adds
          /\ QuotasToModel(quota[b]) = NoPlan.quota
    BY <1>1 DEF ApplyInv, Progress, Creating
  <2>7. {x \in Aliases : owner'[x] = b} = AliasesOf(b) \cup {a}
    BY <1>3, <1>4, <1>8 DEF AliasesOf
  <2>8. Creating(r)'
    BY <1>1, <1>2, <1>4, <2>3, <2>4, <2>5, <2>6, <2>7 DEF Creating, AliasesOf
  <2>9. Progress(r)'
    BY <1>6, <2>3, <2>4, <2>5, <2>8 DEF Progress, Updating, Purging, Consenting, UpdatePcs
  <2> QED
    BY <1>1, <1>4, <1>5, <1>6, <2>2, <2>9, ApplyStep
<1> QED
  BY <1>2, <1>7, <1>8

\* The quotas set are the plan's, null and 0 kept apart.
LEMMA CreateSetQuotaApply ==
    ASSUME Inv, ApplyInv, NEW r \in Resources, CreateSetQuota(r)
    PROVE  ApplyInv'
<1>1. op[r].pc = "setQuota" /\ op[r].pc \in CreatePcs /\ UNCHANGED <<tf, disturbed, consent>>
  BY DEF CreateSetQuota, CreatePcs, history
<1>2. PICK err \in ErrorClasses :
        /\ UpdateBucket(op[r].id, ModelToQuotas(op[r].plan.quota), op[r].cancelled, err)
        /\ IF err = "ok" THEN Continue(r, [op[r] EXCEPT !.pc = "createGet"]) ELSE FailCreate(r)
  BY DEF CreateSetQuota
<1> DEFINE b == op[r].id
<1>3. b \in BucketIds /\ tf[r] = NoState /\ Holds(r, b) /\ op[r].plan.quota \in QuotaAttrs
  BY <1>1, BlockFacts DEF Shape, Handlers, Plans, Holds, CreatedBy
<1>4. /\ Tidy' /\ live' = live /\ owner' = owner
      /\ \A x \in BucketIds \ {b} : SameBucket(x)
      /\ err = "ok" => quota'[b] = ModelToQuotas(op[r].plan.quota)
  BY <1>2, <1>3, BlockFacts, SetQuotaEffect DEF ApplyInv
<1>5. \A s \in Resources \ {r}, x \in BucketIds : Holds(s, x) => Untouched(x)
  BY <1>1, <1>3, <1>4, OthersUntouched
<1>6. (consent \subseteq live)' /\ tf' = [tf EXCEPT ![r] = tf[r]] /\ tf'[r] = NoState
  BY <1>1, <1>3, <1>4 DEF ApplyInv, Inv, TypeOK
<1>7. CASE FailCreate(r)
  <2>1. Progress(r)' /\ \E h : op' = [op EXCEPT ![r] = h]
    BY <1>1, <1>3, <1>7, FailedProgress
  <2> QED
    BY <1>1, <1>4, <1>5, <1>6, <2>1, ApplyStep
<1>8. CASE err = "ok" /\ Continue(r, [op[r] EXCEPT !.pc = "createGet"])
  <2> DEFINE h == [op[r] EXCEPT !.pc = "createGet"]
  <2>1. op' = [op EXCEPT ![r] = h]
    BY <1>8 DEF Continue
  <2>2. h.pc = "createGet" /\ h.id = b /\ h.adds = op[r].adds /\ h.plan = op[r].plan
    BY BlockFacts DEF Handlers
  <2> HIDE DEF h
  <2>3. op'[r] = h
    BY <2>1 DEF Inv, TypeOK
  <2>4. r \notin disturbed =>
          op[r].adds = {} /\ AliasesOf(b) = op[r].plan.aliases \ op[r].adds
    BY <1>1 DEF ApplyInv, Progress, Creating
  <2>5. QuotasToModel(quota'[b]) = op[r].plan.quota
    BY <1>3, <1>4, <1>8, QuotaRoundTrip
  <2>6. Creating(r)'
    BY <1>1, <1>4, <2>2, <2>3, <2>4, <2>5 DEF Creating, AliasesOf
  <2>7. Progress(r)'
    BY <1>6, <2>2, <2>3, <2>6 DEF Progress, Updating, Purging, Consenting, UpdatePcs
  <2> QED
    BY <1>1, <1>4, <1>5, <1>6, <2>1, <2>7, ApplyStep
<1> QED
  BY <1>2, <1>7, <1>8

\* The consent recorded is the one the new state claims.
LEMMA CreateGetApply ==
    ASSUME Inv, ApplyInv, NEW r \in Resources, CreateGet(r)
    PROVE  ApplyInv'
<1>1. op[r].pc = "createGet" /\ op[r].pc \in CreatePcs /\ UNCHANGED disturbed
  BY DEF CreateGet, CreatePcs
<1> DEFINE b == op[r].id
           state == ApplyBucketInfo(BucketInfo(b), op[r].plan)
<1>2. b \in BucketIds /\ tf[r] = NoState /\ Holds(r, b)
  BY <1>1, BlockFacts DEF Shape, Holds, CreatedBy
<1>3. PICK err \in ErrorClasses :
        /\ GetBucket(b, op[r].cancelled, err)
        /\ \/ /\ err = "ok"
              /\ tf' = [tf EXCEPT ![r] = state]
              /\ Continue(r, Idle)
              /\ consent' = IF op[r].plan.force THEN consent \cup {b} ELSE consent \ {b}
           \/ /\ err # "ok"
              /\ FailCreate(r)
              /\ UNCHANGED <<tf, consent>>
  BY DEF CreateGet
<1>4. UNCHANGED garage /\ (err = "ok" => b \in live)
  BY <1>2, <1>3, BlockFacts, GetBucketFacts
<1>5. state.id = b /\ state.force = op[r].plan.force
  BY DEF ApplyBucketInfo, BucketInfo
<1> HIDE DEF state
<1>6. UNCHANGED <<live, owner, quota>>
  BY <1>4 DEF garage
<1>7. Tidy' /\ \A x : SameBucket(x)
  BY <1>6, NoEffect DEF ApplyInv
<1>8. \A s \in Resources \ {r}, x \in BucketIds : Holds(s, x) => Untouched(x)
  <2>1. \A x \in BucketIds \ {b} : x \in consent' <=> x \in consent
    BY <1>3
  <2> QED
    BY <1>2, <1>7, <2>1, OthersUntouched
<1>9. (consent \subseteq live)'
  BY <1>3, <1>4, <1>6 DEF ApplyInv
<1>10. CASE FailCreate(r) /\ UNCHANGED <<tf, consent>>
  <2>1. Progress(r)' /\ \E h : op' = [op EXCEPT ![r] = h]
    BY <1>2, <1>10, FailedProgress
  <2>2. tf' = [tf EXCEPT ![r] = tf[r]]
    BY <1>10 DEF Inv, TypeOK
  <2> QED
    BY <1>1, <1>7, <1>8, <1>9, <2>1, <2>2, ApplyStep
<1>11. CASE /\ tf' = [tf EXCEPT ![r] = state]
            /\ Continue(r, Idle)
            /\ consent' = IF op[r].plan.force THEN consent \cup {b} ELSE consent \ {b}
  <2>1. op' = [op EXCEPT ![r] = Idle] /\ op'[r] = Idle /\ tf'[r] = state
    BY <1>11 DEF Continue, Inv, TypeOK
  <2>2. Consenting(r)'
    BY <1>5, <1>11, <2>1 DEF Consenting
  <2>3. Progress(r)'
    BY <2>1, <2>2, PcsDisjoint, EndedProgress
  <2> QED
    BY <1>1, <1>7, <1>8, <1>9, <1>11, <2>1, <2>3, ApplyStep
<1> QED
  BY <1>3, <1>10, <1>11

\* A rollback deletes a bucket that no other block holds.
LEMMA RollbackApply ==
    ASSUME Inv, ApplyInv, NEW r \in Resources, Rollback(r)
    PROVE  ApplyInv'
<1>1. /\ op[r].pc \in CreatePcs /\ op' = [op EXCEPT ![r] = Idle]
      /\ UNCHANGED <<tf, disturbed>>
  BY DEF Rollback, CreatePcs, Continue
<1> DEFINE b == op[r].id
<1>2. b \in BucketIds /\ tf[r] = NoState /\ Holds(r, b)
  BY <1>1, BlockFacts, PcsDisjoint DEF Shape, Holds, CreatedBy
<1>3. PICK err \in ErrorClasses :
        DeleteBucket(b, op[r].cancelled, err) /\ consent' = consent \cap live'
  BY DEF Rollback, Account
<1>4. Tidy' /\ \A x \in BucketIds \ {b} : SameBucket(x)
  BY <1>2, <1>3, BlockFacts, DeleteEffect DEF ApplyInv
<1>5. \A s \in Resources \ {r}, x \in BucketIds : Holds(s, x) => Untouched(x)
  BY <1>2, <1>3, <1>4, OthersUntouched
<1>6. tf' = [tf EXCEPT ![r] = tf[r]] /\ tf'[r] = NoState /\ op'[r] = Idle
  BY <1>1, <1>2 DEF Inv, TypeOK
<1>7. Progress(r)'
  BY <1>6, PcsDisjoint, EndedProgress DEF Consenting
<1> QED
  BY <1>1, <1>3, <1>4, <1>5, <1>6, <1>7, ApplyStep

----
(* Update *)

\* What is known when an Update, or a Delete, makes a call.
LEMMA BoundFacts ==
    ASSUME Inv, ApplyInv, NEW r \in Resources, op[r].pc \in UpdatePcs \cup DeletePcs
    PROVE  /\ op[r].id \in BucketIds /\ Holds(r, op[r].id)
           /\ tf[r] # NoState /\ tf[r].id = op[r].id
           /\ Progress(r)
BY BlockFacts DEF Shape, Holds, ApplyInv

\* An Update or Delete that ends leaves the state's word on consent true.
LEMMA EndedStep ==
    ASSUME Inv, ApplyInv, NEW r \in Resources,
           NEW h, op' = [op EXCEPT ![r] = h], h.pc \in {"idle", "deleteGet", "deleteBucket"},
           UNCHANGED <<tf, disturbed, consent>>, Tidy', live' = live,
           \A s \in Resources \ {r}, b \in BucketIds : Holds(s, b) => Untouched(b)
    PROVE  ApplyInv'
<1>1. op'[r] = h /\ tf' = [tf EXCEPT ![r] = tf[r]]
  BY DEF Inv, TypeOK
<1>2. Consenting(r)' /\ (consent \subseteq live)'
  BY ConsentKept DEF ApplyInv, Progress
<1>3. Progress(r)'
  BY <1>1, <1>2, EndedProgress
<1> QED
  BY <1>1, <1>2, <1>3, ApplyStep

\* An Update that goes on leaves the state's word on consent true.
LEMMA UpdateStep ==
    ASSUME Inv, ApplyInv, NEW r \in Resources,
           NEW h, op' = [op EXCEPT ![r] = h], h.pc \in UpdatePcs, Updating(r)',
           UNCHANGED <<tf, disturbed, consent>>, Tidy', live' = live,
           \A s \in Resources \ {r}, b \in BucketIds : Holds(s, b) => Untouched(b)
    PROVE  ApplyInv'
<1>1. op'[r] = h /\ tf' = [tf EXCEPT ![r] = tf[r]]
  BY DEF Inv, TypeOK
<1>2. Consenting(r)' /\ (consent \subseteq live)'
  BY ConsentKept DEF ApplyInv, Progress
<1>3. Progress(r)'
  BY <1>1, <1>2 DEF Progress, Creating, Purging, UpdatePcs
<1> QED
  BY <1>1, <1>2, <1>3, ApplyStep

\* Each alias added is one less to add.
LEMMA UpdateAddAliasApply ==
    ASSUME Inv, ApplyInv, NEW r \in Resources, UpdateAddAlias(r)
    PROVE  ApplyInv'
<1>1. op[r].pc = "updateAdd" /\ op[r].pc \in UpdatePcs /\ UNCHANGED <<tf, disturbed, consent>>
  BY DEF UpdateAddAlias, UpdatePcs, history
<1>2. PICK a \in op[r].adds, err \in ErrorClasses :
        /\ AddBucketAlias(op[r].id, a, op[r].cancelled, err)
        /\ Continue(r, IF err = "ok"
                       THEN [op[r] EXCEPT !.adds = @ \ {a},
                                          !.pc = UpdatePc(op[r].adds \ {a}, op[r].drops, op[r].plan, tf[r])]
                       ELSE Idle)
  BY DEF UpdateAddAlias
<1> DEFINE b == op[r].id
<1>3. b \in BucketIds /\ Holds(r, b) /\ Progress(r) /\ a \in Aliases /\ op[r] \in Handlers
  BY <1>1, BoundFacts, BlockFacts DEF Handlers, AliasSets
<1>4. /\ Tidy' /\ live' = live /\ quota' = quota
      /\ \A x \in BucketIds \ {b} : SameBucket(x)
      /\ err = "ok" => \A x \in Aliases : owner'[x] = b <=> owner[x] = b \/ x = a
  BY <1>2, <1>3, BlockFacts, AddAliasEffect DEF ApplyInv
<1>5. \A s \in Resources \ {r}, x \in BucketIds : Holds(s, x) => Untouched(x)
  BY <1>1, <1>3, <1>4, OthersUntouched
<1>6. CASE err # "ok"
  BY <1>1, <1>2, <1>4, <1>5, <1>6, PcsDisjoint, EndedStep DEF Continue
<1>7. CASE err = "ok"
  <2> DEFINE adds == op[r].adds \ {a}
             pc == UpdatePc(adds, op[r].drops, op[r].plan, tf[r])
             h == [op[r] EXCEPT !.adds = adds, !.pc = pc]
  <2>1. op' = [op EXCEPT ![r] = h]
    BY <1>2, <1>7 DEF Continue
  <2>2. /\ pc \in UpdatePcs
        /\ pc # "updateAdd" => adds = {}
        /\ pc \in {"updateQuota", "updateGet"} => op[r].drops = {}
        /\ pc = "updateGet" => op[r].plan.quota = tf[r].quota
    BY UpdatePcFacts
  <2> HIDE DEF pc
  <2>3. h.pc = pc /\ h.id = b /\ h.adds = adds /\ h.drops = op[r].drops /\ h.plan = op[r].plan
    BY <1>3 DEF Handlers
  <2> HIDE DEF h
  <2>4. op'[r] = h
    BY <2>1 DEF Inv, TypeOK
  <2>5. r \notin disturbed =>
          /\ b \in live
          /\ op[r].adds \subseteq op[r].plan.aliases
          /\ op[r].drops \cap op[r].plan.aliases = {}
          /\ AliasesOf(b) = (op[r].plan.aliases \ op[r].adds) \cup op[r].drops
          /\ QuotasToModel(quota[b]) = tf[r].quota
    BY <1>1, <1>3 DEF Progress, Updating
  <2>6. {x \in Aliases : owner'[x] = b} = AliasesOf(b) \cup {a}
    BY <1>3, <1>4, <1>7 DEF AliasesOf
  <2>7. Updating(r)'
    BY <1>1, <1>2, <1>4, <2>2, <2>3, <2>4, <2>5, <2>6 DEF Updating, AliasesOf
  <2> QED
    BY <1>1, <1>4, <1>5, <2>1, <2>2, <2>3, <2>7, UpdateStep
<1> QED
  BY <1>6, <1>7

\* Each alias removed is one less to remove.
LEMMA UpdateRemoveAliasApply ==
    ASSUME Inv, ApplyInv, NEW r \in Resources, UpdateRemoveAlias(r)
    PROVE  ApplyInv'
<1>1. op[r].pc = "updateRemove" /\ op[r].pc \in UpdatePcs /\ UNCHANGED <<tf, disturbed, consent>>
  BY DEF UpdateRemoveAlias, UpdatePcs, history
<1>2. PICK a \in op[r].drops, err \in ErrorClasses :
        /\ RemoveBucketAlias(op[r].id, a, op[r].cancelled, err)
        /\ Continue(r, IF err = "ok"
                       THEN [op[r] EXCEPT !.drops = @ \ {a},
                                          !.pc = UpdatePc(op[r].adds, op[r].drops \ {a}, op[r].plan, tf[r])]
                       ELSE Idle)
  BY DEF UpdateRemoveAlias
<1> DEFINE b == op[r].id
<1>3. b \in BucketIds /\ Holds(r, b) /\ Progress(r) /\ a \in Aliases /\ op[r] \in Handlers
  BY <1>1, BoundFacts, BlockFacts DEF Handlers, AliasSets
<1>4. /\ Tidy' /\ live' = live /\ quota' = quota
      /\ \A x \in BucketIds \ {b} : SameBucket(x)
      /\ err = "ok" => \A x \in Aliases : owner'[x] = b <=> owner[x] = b /\ x # a
  BY <1>2, <1>3, BlockFacts, RemoveAliasEffect DEF ApplyInv
<1>5. \A s \in Resources \ {r}, x \in BucketIds : Holds(s, x) => Untouched(x)
  BY <1>1, <1>3, <1>4, OthersUntouched
<1>6. CASE err # "ok"
  BY <1>1, <1>2, <1>4, <1>5, <1>6, PcsDisjoint, EndedStep DEF Continue
<1>7. CASE err = "ok"
  <2> DEFINE drops == op[r].drops \ {a}
             pc == UpdatePc(op[r].adds, drops, op[r].plan, tf[r])
             h == [op[r] EXCEPT !.drops = drops, !.pc = pc]
  <2>1. op' = [op EXCEPT ![r] = h]
    BY <1>2, <1>7 DEF Continue
  <2>2. /\ pc \in UpdatePcs
        /\ pc # "updateAdd" => op[r].adds = {}
        /\ pc \in {"updateQuota", "updateGet"} => drops = {}
        /\ pc = "updateGet" => op[r].plan.quota = tf[r].quota
    BY UpdatePcFacts
  <2> HIDE DEF pc
  <2>3. h.pc = pc /\ h.id = b /\ h.adds = op[r].adds /\ h.drops = drops /\ h.plan = op[r].plan
    BY <1>3 DEF Handlers
  <2> HIDE DEF h
  <2>4. op'[r] = h
    BY <2>1 DEF Inv, TypeOK
  <2>5. r \notin disturbed =>
          /\ b \in live
          /\ op[r].adds = {}
          /\ op[r].drops \cap op[r].plan.aliases = {}
          /\ AliasesOf(b) = (op[r].plan.aliases \ op[r].adds) \cup op[r].drops
          /\ QuotasToModel(quota[b]) = tf[r].quota
    BY <1>1, <1>3 DEF Progress, Updating
  <2>6. {x \in Aliases : owner'[x] = b} = AliasesOf(b) \ {a}
    BY <1>3, <1>4, <1>7 DEF AliasesOf
  <2>7. Updating(r)'
    BY <1>1, <1>2, <1>4, <2>2, <2>3, <2>4, <2>5, <2>6 DEF Updating, AliasesOf
  <2> QED
    BY <1>1, <1>4, <1>5, <2>1, <2>2, <2>3, <2>7, UpdateStep
<1> QED
  BY <1>6, <1>7

\* The quotas set are the plan's, null and 0 kept apart.
LEMMA UpdateSetQuotaApply ==
    ASSUME Inv, ApplyInv, NEW r \in Resources, UpdateSetQuota(r)
    PROVE  ApplyInv'
<1>1. op[r].pc = "updateQuota" /\ op[r].pc \in UpdatePcs /\ UNCHANGED <<tf, disturbed, consent>>
  BY DEF UpdateSetQuota, UpdatePcs, history
<1>2. PICK err \in ErrorClasses :
        /\ UpdateBucket(op[r].id, ModelToQuotas(op[r].plan.quota), op[r].cancelled, err)
        /\ Continue(r, IF err = "ok" THEN [op[r] EXCEPT !.pc = "updateGet"] ELSE Idle)
  BY DEF UpdateSetQuota
<1> DEFINE b == op[r].id
<1>3. /\ b \in BucketIds /\ Holds(r, b) /\ Progress(r)
      /\ op[r] \in Handlers /\ op[r].plan.quota \in QuotaAttrs
  BY <1>1, BoundFacts, BlockFacts DEF Handlers, Plans
<1>4. /\ Tidy' /\ live' = live /\ owner' = owner
      /\ \A x \in BucketIds \ {b} : SameBucket(x)
      /\ err = "ok" => quota'[b] = ModelToQuotas(op[r].plan.quota)
  BY <1>2, <1>3, BlockFacts, SetQuotaEffect DEF ApplyInv
<1>5. \A s \in Resources \ {r}, x \in BucketIds : Holds(s, x) => Untouched(x)
  BY <1>1, <1>3, <1>4, OthersUntouched
<1>6. CASE err # "ok"
  BY <1>1, <1>2, <1>4, <1>5, <1>6, PcsDisjoint, EndedStep DEF Continue
<1>7. CASE err = "ok"
  <2> DEFINE h == [op[r] EXCEPT !.pc = "updateGet"]
  <2>1. op' = [op EXCEPT ![r] = h]
    BY <1>2, <1>7 DEF Continue
  <2>2. /\ h.pc = "updateGet" /\ h.id = b
        /\ h.adds = op[r].adds /\ h.drops = op[r].drops /\ h.plan = op[r].plan
    BY <1>3 DEF Handlers
  <2> HIDE DEF h
  <2>3. op'[r] = h
    BY <2>1 DEF Inv, TypeOK
  <2>4. r \notin disturbed =>
          /\ b \in live
          /\ op[r].adds = {} /\ op[r].drops = {}
          /\ AliasesOf(b) = (op[r].plan.aliases \ op[r].adds) \cup op[r].drops
    BY <1>1, <1>3 DEF Progress, Updating
  <2>5. QuotasToModel(quota'[b]) = op[r].plan.quota
    BY <1>3, <1>4, <1>7, QuotaRoundTrip
  <2>6. Updating(r)'
    BY <1>1, <1>4, <2>2, <2>3, <2>4, <2>5 DEF Updating, AliasesOf
  <2> QED
    BY <1>1, <1>4, <1>5, <2>1, <2>2, <2>6, UpdateStep DEF UpdatePcs
<1> QED
  BY <1>6, <1>7

\* The consent recorded is the one the new state claims.
LEMMA UpdateGetApply ==
    ASSUME Inv, ApplyInv, NEW r \in Resources, UpdateGet(r)
    PROVE  ApplyInv'
<1>1. /\ op[r].pc \in UpdatePcs /\ UNCHANGED disturbed
      /\ op' = [op EXCEPT ![r] = Idle]
  BY DEF UpdateGet, UpdatePcs, Continue
<1> DEFINE b == op[r].id
           state == ApplyBucketInfo(BucketInfo(b), op[r].plan)
<1>2. b \in BucketIds /\ Holds(r, b) /\ Consenting(r)
  BY <1>1, BoundFacts DEF Progress
<1>3. PICK err \in ErrorClasses :
        /\ GetBucket(b, op[r].cancelled, err)
        /\ \/ /\ err = "ok"
              /\ tf' = [tf EXCEPT ![r] = state]
              /\ consent' = IF op[r].plan.force THEN consent \cup {b} ELSE consent \ {b}
           \/ /\ err # "ok"
              /\ UNCHANGED <<tf, consent>>
  BY DEF UpdateGet
<1>4. UNCHANGED garage /\ (err = "ok" => b \in live)
  BY <1>2, <1>3, BlockFacts, GetBucketFacts
<1>5. state.id = b /\ state.force = op[r].plan.force
  BY DEF ApplyBucketInfo, BucketInfo
<1> HIDE DEF state
<1>6. UNCHANGED <<live, owner, quota>>
  BY <1>4 DEF garage
<1>7. Tidy' /\ \A x : SameBucket(x)
  BY <1>6, NoEffect DEF ApplyInv
<1>8. \A s \in Resources \ {r}, x \in BucketIds : Holds(s, x) => Untouched(x)
  <2>1. \A x \in BucketIds \ {b} : x \in consent' <=> x \in consent
    BY <1>3
  <2> QED
    BY <1>2, <1>7, <2>1, OthersUntouched
<1>9. (consent \subseteq live)'
  BY <1>3, <1>4, <1>6 DEF ApplyInv
<1>10. op'[r] = Idle
  BY <1>1 DEF Inv, TypeOK
<1>11. CASE UNCHANGED <<tf, consent>>
  BY <1>1, <1>6, <1>7, <1>8, <1>11, PcsDisjoint, EndedStep
<1>12. CASE /\ tf' = [tf EXCEPT ![r] = state]
            /\ consent' = IF op[r].plan.force THEN consent \cup {b} ELSE consent \ {b}
  <2>1. tf'[r] = state
    BY <1>12 DEF Inv, TypeOK
  <2>2. Consenting(r)'
    BY <1>5, <1>12, <2>1 DEF Consenting
  <2>3. Progress(r)'
    BY <1>10, <2>2, PcsDisjoint, EndedProgress
  <2> QED
    BY <1>1, <1>7, <1>8, <1>9, <1>12, <2>3, ApplyStep
<1> QED
  BY <1>3, <1>11, <1>12

----
(* Delete *)

\* Emptying starts from an alias of the bucket, and only with consent.
LEMMA DeleteGetApply ==
    ASSUME Inv, ApplyInv, NEW r \in Resources, DeleteGet(r)
    PROVE  ApplyInv'
<1>1. op[r].pc \in DeletePcs /\ UNCHANGED <<disturbed, consent>>
  BY DEF DeleteGet, DeletePcs, history
<1> DEFINE b == op[r].id
           info == BucketInfo(b)
<1>2. PICK err \in ErrorClasses :
        /\ GetBucket(b, op[r].cancelled, err)
        /\ \/ /\ Gone(err)
              /\ Forget(r)
              /\ Continue(r, Idle)
           \/ /\ err = "ok" /\ info.empty
              /\ Continue(r, [op[r] EXCEPT !.pc = "deleteBucket"])
              /\ UNCHANGED tf
           \/ /\ err = "ok" /\ ~info.empty /\ MayEmpty(r)
              /\ \E a \in EmptyTargets(info) :
                    Continue(r, [op[r] EXCEPT !.pc = "list", !.alias = a])
              /\ UNCHANGED tf
           \/ /\ \/ err # "ok" /\ ~Gone(err)
                 \/ err = "ok" /\ ~info.empty /\ ~(MayEmpty(r) /\ EmptyTargets(info) # {})
              /\ Continue(r, Idle)
              /\ UNCHANGED tf
  BY DEF DeleteGet
<1>3. b \in BucketIds /\ Consenting(r) /\ op[r] \in Handlers
  BY <1>1, BoundFacts, BlockFacts DEF Progress
<1>4. UNCHANGED <<live, owner, quota>>
  BY <1>2, <1>3, BlockFacts, GetBucketFacts DEF garage
<1>5. Tidy' /\ (consent \subseteq live)'
  BY <1>1, <1>4, NoEffect DEF ApplyInv
<1>6. \A s \in Resources \ {r}, x \in BucketIds : Holds(s, x) => Untouched(x)
  BY <1>1, <1>4, NoneTouched
<1>7. CASE Forget(r) /\ Continue(r, Idle)
  <2>1. /\ op' = [op EXCEPT ![r] = Idle] /\ tf' = [tf EXCEPT ![r] = NoState]
        /\ op'[r] = Idle /\ tf'[r] = NoState
    BY <1>7 DEF Continue, Forget, Inv, TypeOK
  <2>2. Progress(r)'
    BY <2>1, PcsDisjoint, EndedProgress DEF Consenting
  <2> QED
    BY <1>1, <1>5, <1>6, <2>1, <2>2, ApplyStep
<1>8. CASE Continue(r, Idle) /\ UNCHANGED tf
  BY <1>1, <1>4, <1>5, <1>6, <1>8, PcsDisjoint, EndedStep DEF Continue
<1>9. CASE Continue(r, [op[r] EXCEPT !.pc = "deleteBucket"]) /\ UNCHANGED tf
  <2> DEFINE h == [op[r] EXCEPT !.pc = "deleteBucket"]
  <2>1. op' = [op EXCEPT ![r] = h] /\ h.pc = "deleteBucket"
    BY <1>3, <1>9 DEF Continue, Handlers
  <2> HIDE DEF h
  <2> QED
    BY <1>1, <1>4, <1>5, <1>6, <1>9, <2>1, EndedStep
<1>10. CASE /\ MayEmpty(r) /\ UNCHANGED tf
            /\ \E a \in EmptyTargets(info) : Continue(r, [op[r] EXCEPT !.pc = "list", !.alias = a])
  <2>1. PICK a \in EmptyTargets(info) : Continue(r, [op[r] EXCEPT !.pc = "list", !.alias = a])
    BY <1>10
  <2> DEFINE h == [op[r] EXCEPT !.pc = "list", !.alias = a]
  <2>2. op' = [op EXCEPT ![r] = h] /\ h.pc = "list" /\ h.alias = a /\ h.id = b
    BY <1>3, <2>1 DEF Continue, Handlers
  <2> HIDE DEF h
  <2>3. owner[a] = b /\ tf[r].force
    BY <1>10 DEF EmptyTargets, BucketInfo, AliasesOf, MayEmpty
  <2>4. op'[r] = h /\ tf' = [tf EXCEPT ![r] = tf[r]]
    BY <1>10, <2>2 DEF Inv, TypeOK
  <2>5. Purging(r)'
    BY <1>4, <1>10, <2>2, <2>3, <2>4 DEF Purging
  <2>6. Consenting(r)'
    BY <1>1, <1>3, <1>4, <1>10, ConsentKept
  <2>7. Progress(r)'
    BY <2>2, <2>4, <2>5, <2>6 DEF Progress, Creating, Updating, UpdatePcs
  <2> QED
    BY <1>1, <1>5, <1>6, <2>2, <2>4, <2>7, ApplyStep
<1> QED
  BY <1>2, <1>7, <1>8, <1>9, <1>10

\* A step of emptyBucket changes objects only.
LEMMA EmptyFacts ==
    ASSUME ApplyInv, UNCHANGED <<live, owner, quota>>, UNCHANGED consent
    PROVE  /\ Tidy' /\ (consent \subseteq live)' /\ live' = live
           /\ \A s \in Resources, b \in BucketIds : Holds(s, b) => Untouched(b)
BY NoEffect, NoneTouched DEF ApplyInv

\* Listing takes the keys of the page along.
LEMMA EmptyListApply ==
    ASSUME Inv, ApplyInv, NEW r \in Resources, EmptyList(r)
    PROVE  ApplyInv'
<1> DEFINE page == objects[owner[op[r].alias]]
           pc == IF page = {} THEN "deleteBucket" ELSE "purge"
           g == [op[r] EXCEPT !.page = page, !.pc = pc]
<1>1. op[r].pc = "list" /\ UNCHANGED <<tf, disturbed, consent>>
  BY DEF EmptyList, history
<1>2. PICK err \in ErrorClasses :
        /\ ListObjects(op[r].alias, op[r].cancelled, err)
        /\ Continue(r, IF err # "ok" THEN Idle ELSE g)
  BY DEF EmptyList
<1>3. UNCHANGED <<live, owner, quota>>
  BY <1>2, S3Effect
<1>4. /\ Tidy' /\ (consent \subseteq live)' /\ live' = live
      /\ \A s \in Resources \ {r}, b \in BucketIds : Holds(s, b) => Untouched(b)
  BY <1>1, <1>3, EmptyFacts
<1>5. pc \in {"deleteBucket", "purge"}
  OBVIOUS
<1> HIDE DEF page, pc
<1>6. g.pc = pc /\ g.alias = op[r].alias /\ g.id = op[r].id
  BY BlockFacts DEF Handlers
<1> HIDE DEF g
<1>7. CASE op' = [op EXCEPT ![r] = Idle]
  BY <1>1, <1>4, <1>7, PcsDisjoint, EndedStep
<1>8. CASE op' = [op EXCEPT ![r] = g] /\ pc = "deleteBucket"
  BY <1>1, <1>4, <1>6, <1>8, EndedStep
<1>9. CASE op' = [op EXCEPT ![r] = g] /\ pc = "purge"
  <2>1. Progress(r)
    BY DEF ApplyInv
  <2>2. op'[r] = g /\ tf' = [tf EXCEPT ![r] = tf[r]]
    BY <1>1, <1>9 DEF Inv, TypeOK
  <2>3. Purging(r)' /\ Consenting(r)'
    BY <1>1, <1>3, <1>6, <1>9, <2>1, <2>2 DEF Progress, Purging, Consenting
  <2>4. Progress(r)'
    BY <1>6, <1>9, <2>2, <2>3 DEF Progress, Creating, Updating, UpdatePcs
  <2> QED
    BY <1>1, <1>4, <1>9, <2>2, <2>4, ApplyStep
<1> QED
  BY <1>2, <1>5, <1>7, <1>8, <1>9 DEF Continue

\* Purging hands over to the deletion, or ends.
LEMMA EmptyPurgeApply ==
    ASSUME Inv, ApplyInv, NEW r \in Resources, EmptyPurge(r)
    PROVE  ApplyInv'
<1> DEFINE g == [op[r] EXCEPT !.pc = "deleteBucket"]
<1>1. UNCHANGED <<tf, disturbed, consent>>
  BY DEF EmptyPurge, history
<1>2. PICK err \in ErrorClasses :
        /\ DeleteObjects(op[r].alias, op[r].page, op[r].cancelled, err)
        /\ Continue(r, IF err = "ok" THEN g ELSE Idle)
  BY DEF EmptyPurge
<1>3. UNCHANGED <<live, owner, quota>>
  BY <1>2, S3Effect
<1>4. /\ Tidy' /\ live' = live
      /\ \A s \in Resources \ {r}, b \in BucketIds : Holds(s, b) => Untouched(b)
  BY <1>1, <1>3, EmptyFacts
<1>5. g.pc = "deleteBucket"
  BY BlockFacts DEF Handlers
<1> HIDE DEF g
<1>6. CASE op' = [op EXCEPT ![r] = Idle]
  BY <1>1, <1>4, <1>6, PcsDisjoint, EndedStep
<1>7. CASE op' = [op EXCEPT ![r] = g]
  BY <1>1, <1>4, <1>5, <1>7, EndedStep
<1> QED
  BY <1>2, <1>6, <1>7 DEF Continue

\* A Delete deletes a bucket that no other block holds.
LEMMA DeleteCallApply ==
    ASSUME Inv, ApplyInv, NEW r \in Resources, DeleteCall(r)
    PROVE  ApplyInv'
<1>1. /\ op[r].pc \in DeletePcs /\ op' = [op EXCEPT ![r] = Idle]
      /\ UNCHANGED disturbed /\ consent' = consent \cap live'
  BY DEF DeleteCall, DeletePcs, Continue, Account
<1> DEFINE b == op[r].id
<1>2. b \in BucketIds /\ Holds(r, b) /\ Consenting(r)
  BY <1>1, BoundFacts DEF Progress
<1>3. PICK err \in ErrorClasses :
        /\ DeleteBucket(b, op[r].cancelled, err)
        /\ IF err = "ok" THEN Forget(r) ELSE UNCHANGED tf
  BY DEF DeleteCall
<1>4. Tidy' /\ live' \subseteq live /\ \A x \in BucketIds \ {b} : SameBucket(x)
  BY <1>2, <1>3, BlockFacts, DeleteEffect DEF ApplyInv
<1>5. \A s \in Resources \ {r}, x \in BucketIds : Holds(s, x) => Untouched(x)
  BY <1>1, <1>2, <1>4, OthersUntouched
<1>6. op'[r] = Idle
  BY <1>1 DEF Inv, TypeOK
<1>7. PICK st : tf' = [tf EXCEPT ![r] = st] /\ st \in {NoState, tf[r]}
  BY <1>3 DEF Forget, Inv, TypeOK
<1>8. tf'[r] = st
  BY <1>7 DEF Inv, TypeOK
<1>9. Consenting(r)'
  <2>1. CASE st = NoState
    BY <1>8, <2>1 DEF Consenting
  <2>2. CASE st = tf[r]
    BY <1>1, <1>2, <1>4, <1>8, <2>2, ConsentKept
  <2> QED
    BY <1>7, <2>1, <2>2
<1>10. Progress(r)'
  BY <1>6, <1>9, PcsDisjoint, EndedProgress
<1> QED
  BY <1>1, <1>4, <1>5, <1>7, <1>10, ApplyStep

----
(* Disturbances *)

\* A step that changes nothing of what progress is about.
LEMMA Unmoved ==
    ASSUME Inv, ApplyInv,
           UNCHANGED <<live, owner, quota, op, tf, disturbed, consent>>
    PROVE  ApplyInv'
<1>1. Tidy' /\ (consent \subseteq live)'
  BY NoEffect DEF ApplyInv
<1>2. \A r \in Resources : Progress(r)'
  BY NoneTouched, ProgressFrame DEF ApplyInv
<1> QED
  BY <1>1, <1>2 DEF ApplyInv

\* An interrupt leaves the handler where it is.
LEMMA CancelApply ==
    ASSUME Inv, ApplyInv, NEW r \in Resources, Cancel(r)
    PROVE  ApplyInv'
<1> DEFINE h == [op[r] EXCEPT !.cancelled = TRUE]
<1>1. op' = [op EXCEPT ![r] = h] /\ UNCHANGED <<tf, disturbed, consent>>
  BY DEF Cancel, Continue, history
<1>2. UNCHANGED <<live, owner, quota>>
  BY DEF Cancel, garage
<1>3. /\ h.pc = op[r].pc /\ h.id = op[r].id /\ h.plan = op[r].plan
      /\ h.adds = op[r].adds /\ h.drops = op[r].drops /\ h.alias = op[r].alias
  BY BlockFacts DEF Handlers
<1> HIDE DEF h
<1>4. op'[r] = h /\ tf' = [tf EXCEPT ![r] = tf[r]]
  BY <1>1 DEF Inv, TypeOK
<1>5. Progress(r)
  BY DEF ApplyInv
<1>6. Creating(r)' /\ Updating(r)'
  BY <1>1, <1>2, <1>3, <1>4, <1>5 DEF Progress, Creating, Updating, AliasesOf
<1>7. Purging(r)' /\ Consenting(r)'
  BY <1>1, <1>2, <1>3, <1>4, <1>5 DEF Progress, Purging, Consenting
<1>8. Progress(r)'
  BY <1>6, <1>7 DEF Progress
<1>9. Tidy' /\ (consent \subseteq live)'
  BY <1>1, <1>2, NoEffect DEF ApplyInv
<1>10. \A s \in Resources \ {r}, x \in BucketIds : Holds(s, x) => Untouched(x)
  BY <1>1, <1>2, NoneTouched
<1> QED
  BY <1>1, <1>4, <1>8, <1>9, <1>10, ApplyStep

\* A kill ends the handler.
LEMMA CrashApply ==
    ASSUME Inv, ApplyInv, NEW r \in Resources, Crash(r)
    PROVE  ApplyInv'
<1>1. op' = [op EXCEPT ![r] = Idle] /\ UNCHANGED <<tf, disturbed, consent>>
  BY DEF Crash, Continue
<1>2. UNCHANGED <<live, owner, quota>>
  BY DEF Crash, garage
<1>3. Tidy'
  BY <1>2, NoEffect DEF ApplyInv
<1>4. \A s \in Resources \ {r}, x \in BucketIds : Holds(s, x) => Untouched(x)
  BY <1>1, <1>2, NoneTouched
<1> QED
  BY <1>1, <1>2, <1>3, <1>4, PcsDisjoint, EndedStep

\* A change behind Terraform's back ends every claim of progress; a purge's
\* alias moves only if one may.
LEMMA DisturbedStep ==
    ASSUME Inv, ApplyInv, UNCHANGED <<tf, op>>, disturbed' = Resources,
           Tidy', live' \subseteq live,
           consent' = consent \/ consent' = consent \cap live',
           (consent \subseteq live)', Calm => UNCHANGED owner
    PROVE  ApplyInv'
<1>1. ASSUME NEW r \in Resources PROVE Progress(r)'
  <2>1. Progress(r)
    BY DEF ApplyInv
  <2>2. Creating(r)' /\ Updating(r)' /\ Purging(r)'
    BY <2>1 DEF Progress, Creating, Updating, Purging
  <2>3. Consenting(r)'
    BY <2>1, ConsentKept DEF Progress
  <2> QED
    BY <2>2, <2>3 DEF Progress
<1> QED
  BY <1>1 DEF ApplyInv

\* An alias moved.
LEMMA MoveAliasApply ==
    ASSUME Inv, ApplyInv, CalmInv,
           NEW a \in Aliases, NEW b \in BucketIds \cup {NoBucket}, MoveAlias(a, b)
    PROVE  ApplyInv'
<1>1. /\ b # NoBucket => b \in live
      /\ Spend("aliasDrift")
      /\ owner' = [owner EXCEPT ![a] = b]
      /\ disturbed' = Resources
      /\ UNCHANGED <<live, quota, tf, op, consent>>
  BY DEF MoveAlias
<1>2. ~Calm
  BY <1>1 DEF CalmInv, Spend
<1>3. \A x \in Aliases : owner'[x] = IF x = a THEN b ELSE owner[x]
  BY <1>1 DEF Inv, TypeOK, GarageTypeOK
<1>4. Tidy'
  BY <1>1, <1>3 DEF ApplyInv, Tidy
<1> QED
  BY <1>1, <1>2, <1>4, DisturbedStep DEF ApplyInv

\* A quota changed.
LEMMA ChangeQuotaApply ==
    ASSUME Inv, ApplyInv, NEW b \in BucketIds, NEW wire \in WireQuotas, ChangeQuota(b, wire)
    PROVE  ApplyInv'
<1>1. /\ b \in live
      /\ quota' = [quota EXCEPT ![b] = wire]
      /\ disturbed' = Resources
      /\ UNCHANGED <<live, owner, tf, op, consent>>
  BY DEF ChangeQuota, UpdateBucketEffect
<1>2. \A x \in BucketIds : quota'[x] = IF x = b THEN wire ELSE quota[x]
  BY <1>1 DEF Inv, TypeOK, GarageTypeOK
<1>3. Tidy'
  BY <1>1, <1>2 DEF ApplyInv, Tidy
<1> QED
  BY <1>1, <1>3, DisturbedStep DEF ApplyInv

\* A bucket deleted.
LEMMA DropBucketApply ==
    ASSUME Inv, ApplyInv, CalmInv, NEW b \in BucketIds, DropBucket(b)
    PROVE  ApplyInv'
<1>1. /\ Spend("bucketDrift")
      /\ DeleteBucketEffect(b)
      /\ disturbed' = Resources
      /\ consent' = consent \cap live'
      /\ UNCHANGED <<tf, op>>
  BY DEF DropBucket, Account
<1>2. ~Calm
  BY <1>1 DEF CalmInv, Spend
<1>3. Tidy' /\ live' \subseteq live
  BY <1>1, BlockFacts, DropEffect DEF ApplyInv, Inv, TypeOK
<1> QED
  BY <1>1, <1>2, <1>3, DisturbedStep

----
(* The theorems *)

\* Spending never adds to the budget.
LEMMA SpendLess ==
    ASSUME left \in [Kinds -> Nat], NEW kind, Spend(kind), NEW k \in Kinds, left[k] = 0
    PROVE  left'[k] = 0
BY DEF Spend

\* A call spends from the faults, or nothing.
LEMMA RequestSpends ==
    ASSUME NEW r \in Resources, Run(r)
    PROVE  left' = left \/ Spend("fault")
<1> USE DEF Request, Refused
<1>1. CASE Read(r) \/ CreateGet(r) \/ UpdateGet(r) \/ DeleteGet(r)
  BY <1>1 DEF Read, CreateGet, UpdateGet, DeleteGet, GetBucket
<1>2. CASE PlanCreate(r)
  BY <1>2 DEF PlanCreate
<1>3. CASE CreateCall(r)
  BY <1>3 DEF CreateCall, CreateBucket
<1>4. CASE CreateAddAlias(r) \/ UpdateAddAlias(r)
  BY <1>4 DEF CreateAddAlias, UpdateAddAlias, AddBucketAlias
<1>5. CASE CreateSetQuota(r) \/ UpdateSetQuota(r)
  BY <1>5 DEF CreateSetQuota, UpdateSetQuota, UpdateBucket
<1>6. CASE Rollback(r) \/ DeleteCall(r)
  BY <1>6 DEF Rollback, DeleteCall, DeleteBucket
<1>7. CASE UpdateRemoveAlias(r)
  BY <1>7 DEF UpdateRemoveAlias, RemoveBucketAlias
<1>8. CASE EmptyList(r) \/ EmptyPurge(r)
  BY <1>8 DEF EmptyList, EmptyPurge, ListObjects, DeleteObjects
<1> QED
  BY <1>1, <1>2, <1>3, <1>4, <1>5, <1>6, <1>7, <1>8 DEF Run

\* A calm system stays calm.
LEMMA NextCalm == Inv /\ CalmInv /\ [Next]_vars => CalmInv'
<1> SUFFICES ASSUME Inv, CalmInv, [Next]_vars PROVE CalmInv'
  OBVIOUS
<1>1. left' = left \/ \E kind : Spend(kind)
  <2>1. ASSUME NEW r \in Resources, Run(r) PROVE left' = left \/ \E kind : Spend(kind)
    BY <2>1, RequestSpends
  <2>2. ASSUME NEW r \in Resources, NEW b \in BucketIds, Import(r, b) PROVE left' = left
    BY <2>2 DEF Import
  <2>3. ASSUME Disturbance PROVE \E kind : Spend(kind)
    BY <2>3 DEF Disturbance, Cancel, Crash, Edit, MoveAlias, ChangeQuota, DropBucket, Upload
  <2>4. CASE UNCHANGED vars
    BY <2>4 DEF vars
  <2> QED
    BY <2>1, <2>2, <2>3, <2>4 DEF Next
<1>2. "aliasDrift" \in Kinds /\ "bucketDrift" \in Kinds /\ left \in [Kinds -> Nat]
  BY DEF Kinds, Inv, TypeOK
<1> QED
  BY <1>1, <1>2, SpendLess DEF CalmInv

\* Both invariants hold at the start.
LEMMA InitApply == Init => ApplyInv /\ CalmInv
<1> SUFFICES ASSUME Init PROVE ApplyInv /\ CalmInv
  OBVIOUS
<1>1. Tidy /\ consent \subseteq live
  BY DEF Init, GarageInit, Tidy
<1>2. \A r \in Resources : Progress(r)
  BY PcsDisjoint DEF Init, Progress, Creating, Updating, Purging, Consenting, UpdatePcs
<1>3. CalmInv
  BY DEF Init, CalmInv, Calm
<1> QED
  BY <1>1, <1>2, <1>3 DEF ApplyInv

\* Every step keeps ApplyInv.
LEMMA NextApply == Inv /\ CalmInv /\ ApplyInv /\ [Next]_vars => ApplyInv'
<1> SUFFICES ASSUME Inv, CalmInv, ApplyInv, [Next]_vars PROVE ApplyInv'
  OBVIOUS
<1>1. ASSUME NEW r \in Resources, Run(r) PROVE ApplyInv'
  BY <1>1, ReadApply, PlanCreateApply, CreateCallApply, CreateAddAliasApply,
     CreateSetQuotaApply, CreateGetApply, RollbackApply, UpdateAddAliasApply,
     UpdateRemoveAliasApply, UpdateSetQuotaApply, UpdateGetApply, DeleteGetApply,
     EmptyListApply, EmptyPurgeApply, DeleteCallApply DEF Run
<1>2. ASSUME NEW r \in Resources, NEW b \in BucketIds, Import(r, b) PROVE ApplyInv'
  BY <1>2, ImportApply
<1>3. ASSUME NEW r \in Resources, Edit(r) PROVE ApplyInv'
  BY <1>3, Unmoved DEF Edit, garage, history
<1>4. ASSUME NEW a \in Aliases, NEW k \in Keys, Upload(a, k) PROVE ApplyInv'
  BY <1>4, Unmoved DEF Upload, PutObject, history
<1>5. CASE Disturbance
  BY <1>3, <1>4, <1>5, CancelApply, CrashApply, MoveAliasApply, ChangeQuotaApply,
     DropBucketApply DEF Disturbance
<1>6. CASE UNCHANGED vars
  BY <1>6, Unmoved DEF vars, garage
<1> QED
  BY <1>1, <1>2, <1>5, <1>6 DEF Next

\* The inductive invariant, from which the theorems below follow.
THEOREM ApplyInvariance == Spec => [](Inv /\ CalmInv /\ ApplyInv)
BY InitInv, NextInv, InitApply, NextCalm, NextApply, PTL DEF Spec

\* Create and Update end with the bucket as planned (AppliedAsPlanned),
\* whatever failed before, however many blocks work at the same time.
THEOREM PlansAreApplied == Spec => []AppliedAsPlanned
<1>1. Inv /\ ApplyInv => AppliedAsPlanned
  <2> SUFFICES ASSUME ApplyInv,
                      NEW r \in Resources, op[r].pc \in {"createGet", "updateGet"}, r \notin disturbed
               PROVE  /\ AliasesOf(op[r].id) = op[r].plan.aliases
                      /\ QuotasToModel(quota[op[r].id]) = op[r].plan.quota
    BY DEF AppliedAsPlanned, BucketInfo
  <2>1. Creating(r) /\ Updating(r)
    BY DEF ApplyInv, Progress
  <2>2. CASE op[r].pc = "createGet"
    BY <2>1, <2>2 DEF Creating
  <2>3. CASE op[r].pc = "updateGet"
    BY <2>1, <2>3 DEF Updating, UpdatePcs
  <2> QED
    BY <2>2, <2>3
<1> QED
  BY <1>1, ApplyInvariance, PTL

\* An Update that leaves some alias is never refused as the removal of the
\* last one (RenameNeverRefused).
THEOREM RenamesPass == Spec => []RenameNeverRefused
<1>1. Inv /\ ApplyInv => RenameNeverRefused
  <2> SUFFICES ASSUME Inv, ApplyInv,
                      NEW r \in Resources, op[r].pc = "updateRemove", r \notin disturbed,
                      op[r].plan.aliases # {}, NEW a \in op[r].drops
               PROVE  RemoveBucketAliasStatus(op[r].id, a) = 200
    BY DEF RenameNeverRefused
  <2>1. /\ op[r].id \in live
        /\ op[r].drops \cap op[r].plan.aliases = {}
        /\ AliasesOf(op[r].id) = op[r].plan.aliases \cup op[r].drops
    BY DEF ApplyInv, Progress, Updating, UpdatePcs
  <2>2. AliasesOf(op[r].id) # {a}
    BY <2>1
  <2>3. owner[a] = op[r].id
    BY <2>1 DEF AliasesOf
  <2> QED
    BY <2>1, <2>2, <2>3 DEF RemoveBucketAliasStatus
<1> QED
  BY <1>1, ApplyInvariance, PTL

----
(* The objects *)

\* Only S3 calls touch objects: the handlers' admin calls leave them alone.
LEMMA AdminKeepsObjects ==
    ASSUME NEW r \in Resources, Run(r), ~EmptyPurge(r)
    PROVE  objects' = objects
<1> USE DEF Request, Refused, garage
<1>1. CASE Read(r) \/ CreateGet(r) \/ UpdateGet(r) \/ DeleteGet(r)
  BY <1>1 DEF Read, CreateGet, UpdateGet, DeleteGet, GetBucket
<1>2. CASE PlanCreate(r)
  BY <1>2 DEF PlanCreate
<1>3. CASE CreateCall(r)
  BY <1>3 DEF CreateCall, CreateBucket, CreateBucketEffect
<1>4. CASE CreateAddAlias(r) \/ UpdateAddAlias(r)
  BY <1>4 DEF CreateAddAlias, UpdateAddAlias, AddBucketAlias, AddBucketAliasEffect
<1>5. CASE CreateSetQuota(r) \/ UpdateSetQuota(r)
  BY <1>5 DEF CreateSetQuota, UpdateSetQuota, UpdateBucket, UpdateBucketEffect
<1>6. CASE Rollback(r) \/ DeleteCall(r)
  BY <1>6 DEF Rollback, DeleteCall, DeleteBucket, DeleteBucketEffect
<1>7. CASE UpdateRemoveAlias(r)
  BY <1>7 DEF UpdateRemoveAlias, RemoveBucketAlias, RemoveBucketAliasEffect
<1>8. CASE EmptyList(r)
  BY <1>8 DEF EmptyList, ListObjects
<1> QED
  BY <1>1, <1>2, <1>3, <1>4, <1>5, <1>6, <1>7, <1>8 DEF Run

\* Nor do changes behind Terraform's back take any.
LEMMA OthersKeepObjects ==
    ASSUME Inv, Disturbance \/ UNCHANGED vars \/ \E r \in Resources, b \in BucketIds : Import(r, b)
    PROVE  \A b \in BucketIds : objects[b] \subseteq objects'[b]
<1>1. ASSUME NEW a \in Aliases, NEW k \in Keys, Upload(a, k)
      PROVE  \A b \in BucketIds : objects[b] \subseteq objects'[b]
  BY <1>1 DEF Upload, PutObject, Inv, TypeOK, GarageTypeOK
<1>2. ASSUME Disturbance, \A a \in Aliases, k \in Keys : ~Upload(a, k)
      PROVE  objects' = objects
  BY <1>2 DEF Disturbance, Cancel, Crash, Edit, MoveAlias, ChangeQuota, UpdateBucketEffect,
     DropBucket, DeleteBucketEffect, garage
<1>3. ASSUME NEW r \in Resources, NEW b \in BucketIds, Import(r, b)
      PROVE  objects' = objects
  BY <1>3 DEF Import, garage
<1>4. CASE UNCHANGED vars
  BY <1>4 DEF vars, garage
<1> QED
  BY <1>1, <1>2, <1>3, <1>4

\* A purge takes objects from the bucket that its alias names at that moment.
LEMMA PurgeTakes ==
    ASSUME Inv, NEW r \in Resources, EmptyPurge(r),
           NEW b \in BucketIds, ~(objects[b] \subseteq objects'[b])
    PROVE  op[r].pc = "purge" /\ owner[op[r].alias] = b
<1>1. op[r].pc = "purge" /\ objects \in [BucketIds -> SUBSET Keys]
  BY DEF EmptyPurge, Inv, TypeOK, GarageTypeOK
<1>2. PICK err \in ErrorClasses : DeleteObjects(op[r].alias, op[r].page, op[r].cancelled, err)
  BY DEF EmptyPurge
<1>3. UNCHANGED garage \/ \E keys : DeleteObjectsEffect(op[r].alias, keys)
  BY <1>2 DEF DeleteObjects, Request
<1>4. CASE UNCHANGED garage
  BY <1>4 DEF garage
<1>5. CASE \E keys : DeleteObjectsEffect(op[r].alias, keys)
  <2>1. PICK keys : objects' = [objects EXCEPT ![owner[op[r].alias]] = @ \ keys]
    BY <1>5 DEF DeleteObjectsEffect
  <2>2. owner[op[r].alias] # b => objects'[b] = objects[b]
    BY <1>1, <2>1
  <2> QED
    BY <1>1, <2>2
<1> QED
  BY <1>3, <1>4, <1>5

\* A bucket that loses an object loses it to a purge, and unless something
\* moved since that block's refresh, it is the block's own bucket and the
\* last apply of it asked for force_destroy.
ObjectLoss ==
    \A b \in BucketIds : ~(objects[b] \subseteq objects'[b]) =>
        \E r \in Resources :
            /\ op[r].pc = "purge"
            /\ r \notin disturbed \/ Calm => op[r].id = b /\ b \in consent

\* Every step takes objects in no other way.
LEMMA StepTakes == Inv /\ ApplyInv /\ [Next]_vars => ObjectLoss
<1> SUFFICES ASSUME Inv, ApplyInv, [Next]_vars,
                    NEW b \in BucketIds, ~(objects[b] \subseteq objects'[b])
             PROVE  \E r \in Resources :
                        /\ op[r].pc = "purge"
                        /\ r \notin disturbed \/ Calm => op[r].id = b /\ b \in consent
  BY DEF ObjectLoss
<1>1. PICK r \in Resources : EmptyPurge(r)
  BY AdminKeepsObjects, OthersKeepObjects DEF Next
<1>2. op[r].pc = "purge" /\ owner[op[r].alias] = b
  BY <1>1, PurgeTakes
<1>3. Purging(r) /\ Consenting(r) /\ Tidy
  BY DEF ApplyInv, Progress
<1>4. tf[r] # NoState /\ op[r].id = tf[r].id /\ op[r].alias \in Aliases
  BY <1>2, BlockFacts DEF Shape, DeletePcs
<1>5. b \in live
  BY <1>2, <1>3, <1>4, NoBucketAssumption DEF Tidy
<1>6. ASSUME r \notin disturbed \/ Calm PROVE op[r].id = b /\ b \in consent
  BY <1>2, <1>3, <1>4, <1>5, <1>6 DEF Purging, Consenting
<1> QED
  BY <1>2, <1>6

\* However much drifts: objects go only where ObjectLoss says.
THEOREM ObjectsTakenByPurge == Spec => [][ObjectLoss]_vars
<1>1. Inv /\ ApplyInv /\ [Next]_vars => [ObjectLoss]_vars
  BY StepTakes
<1> QED
  BY <1>1, ApplyInvariance, PTL DEF Spec

\* When neither aliases nor buckets change behind Terraform's back, a
\* destroy empties its own bucket alone (EmptiesItsOwnBucket).
THEOREM PurgesItsOwn ==
    ASSUME Calm
    PROVE  Spec => EmptiesItsOwnBucket
<1>1. Inv /\ ApplyInv /\ [Next]_vars =>
        [\A b \in BucketIds : ~(objects[b] \subseteq objects'[b]) =>
            \E r \in Resources : op[r].pc = "purge" /\ op[r].id = b]_vars
  BY StepTakes DEF ObjectLoss
<1> QED
  BY <1>1, ApplyInvariance, PTL DEF Spec, EmptiesItsOwnBucket

\* And under the same condition no object goes without force_destroy having
\* been applied (ForceDestroyIsOptIn).
THEOREM PurgesWithConsent ==
    ASSUME Calm
    PROVE  Spec => ForceDestroyIsOptIn
<1>1. Inv /\ ApplyInv /\ [Next]_vars =>
        [\A b \in BucketIds : ~(objects[b] \subseteq objects'[b]) => b \in consent]_vars
  BY StepTakes DEF ObjectLoss
<1> QED
  BY <1>1, ApplyInvariance, PTL DEF Spec, ForceDestroyIsOptIn

----
(* Applied blocks *)

\* A run writes the handler and the state entry of its own block, and never
\* its configuration.
LEMMA RunWritesOwn ==
    ASSUME Inv, NEW r \in Resources, Run(r), NEW s \in Resources \ {r}
    PROVE  op'[s] = op[s] /\ tf'[s] = tf[s] /\ UNCHANGED cfg
<1> USE DEF Continue, FailCreate, Forget
<1>1. op \in [Resources -> Handlers] /\ tf \in [Resources -> States \cup {NoState}]
  BY DEF Inv, TypeOK
<1>2. CASE Read(r) \/ PlanCreate(r)
  BY <1>1, <1>2 DEF Read, PlanCreate
<1>3. CASE CreateCall(r) \/ CreateAddAlias(r) \/ CreateSetQuota(r)
  BY <1>1, <1>3 DEF CreateCall, CreateAddAlias, CreateSetQuota
<1>4. CASE CreateGet(r) \/ Rollback(r)
  BY <1>1, <1>4 DEF CreateGet, Rollback
<1>5. CASE UpdateAddAlias(r) \/ UpdateRemoveAlias(r)
  BY <1>1, <1>5 DEF UpdateAddAlias, UpdateRemoveAlias
<1>6. CASE UpdateSetQuota(r) \/ UpdateGet(r)
  BY <1>1, <1>6 DEF UpdateSetQuota, UpdateGet
<1>7. CASE DeleteGet(r) \/ DeleteCall(r)
  BY <1>1, <1>7 DEF DeleteGet, DeleteCall
<1>8. CASE EmptyList(r) \/ EmptyPurge(r)
  BY <1>1, <1>8 DEF EmptyList, EmptyPurge
<1> QED
  BY <1>2, <1>3, <1>4, <1>5, <1>6, <1>7, <1>8 DEF Run

\* A run works on one bucket at a time: its block's, or a new one that no
\* block holds.
LEMMA RunTouchesOne ==
    ASSUME Inv, ApplyInv, NEW r \in Resources, Run(r)
    PROVE  \/ \A x \in BucketIds : SameBucket(x)
           \/ \E c \in BucketIds :
                /\ Holds(r, c) \/ \A s \in Resources : ~Holds(s, c)
                /\ \A x \in BucketIds \ {c} : SameBucket(x)
<1>1. Tidy /\ GarageTypeOK
  BY BlockFacts DEF ApplyInv
<1>2. op[r].pc \in CreatePcs \cup UpdatePcs \cup DeletePcs => op[r].id \in BucketIds /\ Holds(r, op[r].id)
  BY BlockFacts DEF Shape, Holds, CreatedBy
<1>3. CASE Read(r) \/ PlanCreate(r) \/ CreateGet(r) \/ UpdateGet(r) \/ DeleteGet(r)
  <2>1. UNCHANGED <<live, owner, quota>>
    BY <1>3 DEF Read, PlanCreate, CreateGet, UpdateGet, DeleteGet, GetBucket, Request, garage
  <2> QED
    BY <1>1, <2>1, NoEffect
<1>4. CASE EmptyList(r) \/ EmptyPurge(r)
  <2>1. UNCHANGED <<live, owner, quota>>
    BY <1>4, S3Effect DEF EmptyList, EmptyPurge
  <2> QED
    BY <1>1, <2>1, NoEffect
<1>5. CASE CreateCall(r)
  <2>1. PICK b \in FreshIds, err \in ErrorClasses : CreateBucket(b, op[r].cancelled, err)
    BY <1>5 DEF CreateCall
  <2>2. b \in BucketIds \ live /\ \A s \in Resources : ~Holds(s, b)
    BY DEF FreshIds, Managed, InCreate, Holds
  <2>3. \A x \in BucketIds \ {b} : SameBucket(x)
    BY <1>1, <2>1, <2>2, CreateEffect
  <2> QED
    BY <2>2, <2>3
<1>6. CASE CreateAddAlias(r) \/ UpdateAddAlias(r)
  <2>1. op[r].pc \in CreatePcs \cup UpdatePcs /\ op[r].adds \subseteq Aliases
    BY <1>6, BlockFacts DEF CreateAddAlias, UpdateAddAlias, CreatePcs, UpdatePcs, Handlers, AliasSets
  <2>2. PICK a \in op[r].adds, err \in ErrorClasses : AddBucketAlias(op[r].id, a, op[r].cancelled, err)
    BY <1>6 DEF CreateAddAlias, UpdateAddAlias
  <2>3. \A x \in BucketIds \ {op[r].id} : SameBucket(x)
    BY <1>1, <1>2, <2>1, <2>2, AddAliasEffect
  <2> QED
    BY <1>2, <2>1, <2>3
<1>7. CASE UpdateRemoveAlias(r)
  <2>1. op[r].pc \in UpdatePcs /\ op[r].drops \subseteq Aliases
    BY <1>7, BlockFacts DEF UpdateRemoveAlias, UpdatePcs, Handlers, AliasSets
  <2>2. PICK a \in op[r].drops, err \in ErrorClasses : RemoveBucketAlias(op[r].id, a, op[r].cancelled, err)
    BY <1>7 DEF UpdateRemoveAlias
  <2>3. \A x \in BucketIds \ {op[r].id} : SameBucket(x)
    BY <1>1, <1>2, <2>1, <2>2, RemoveAliasEffect
  <2> QED
    BY <1>2, <2>1, <2>3
<1>8. CASE CreateSetQuota(r) \/ UpdateSetQuota(r)
  <2>1. op[r].pc \in CreatePcs \cup UpdatePcs
    BY <1>8 DEF CreateSetQuota, UpdateSetQuota, CreatePcs, UpdatePcs
  <2>2. PICK err \in ErrorClasses :
          UpdateBucket(op[r].id, ModelToQuotas(op[r].plan.quota), op[r].cancelled, err)
    BY <1>8 DEF CreateSetQuota, UpdateSetQuota
  <2>3. \A x \in BucketIds \ {op[r].id} : SameBucket(x)
    BY <1>1, <1>2, <2>1, <2>2, SetQuotaEffect
  <2> QED
    BY <1>2, <2>1, <2>3
<1>9. CASE Rollback(r) \/ DeleteCall(r)
  <2>1. op[r].pc \in CreatePcs \cup DeletePcs
    BY <1>9 DEF Rollback, DeleteCall, CreatePcs, DeletePcs
  <2>2. PICK err \in ErrorClasses : DeleteBucket(op[r].id, op[r].cancelled, err)
    BY <1>9 DEF Rollback, DeleteCall
  <2>3. \A x \in BucketIds \ {op[r].id} : SameBucket(x)
    BY <1>1, <1>2, <2>1, <2>2, DeleteEffect
  <2> QED
    BY <1>2, <2>1, <2>3
<1> QED
  BY <1>3, <1>4, <1>5, <1>6, <1>7, <1>8, <1>9 DEF Run

\* Hence no run reaches a bucket of another block.
LEMMA RunKeepsOthers ==
    ASSUME Inv, ApplyInv, NEW r \in Resources, Run(r),
           NEW s \in Resources \ {r}, NEW b \in BucketIds, Holds(s, b)
    PROVE  SameBucket(b)
BY RunTouchesOne, HeldApart

\* An up-to-date block stays so when a step leaves it and its bucket alone.
LEMMA UpToDateFrame ==
    ASSUME Inv, NEW r \in Resources, UpToDate(r),
           op'[r] = op[r], tf'[r] = tf[r], cfg'[r] = cfg[r],
           \A b \in BucketIds : Holds(r, b) => SameBucket(b)
    PROVE  UpToDate(r)'
<1>1. tf[r] # NoState =>
        SameBucket(tf[r].id) /\ {a \in Aliases : owner'[a] = tf[r].id} = {a \in Aliases : owner[a] = tf[r].id}
  BY BlockFacts, SameAliases DEF Holds
<1> QED
  BY <1>1 DEF UpToDate, Settled, AliasesOf, SameBucket

\* The refresh of an up-to-date block plans nothing.
LEMMA NothingToPlan ==
    ASSUME Inv, NEW r \in Resources, UpToDate(r), cfg[r] # Null
    PROVE  LET state == ApplyBucketInfo(BucketInfo(tf[r].id), tf[r]) IN
           Planned(cfg[r], state) = Idle /\ state.id = tf[r].id /\ state.force = cfg[r].force
<1> DEFINE state == ApplyBucketInfo(BucketInfo(tf[r].id), tf[r])
           plan == PlanForUpdate(cfg[r], state)
<1>1. /\ cfg[r].aliases # Null => AliasesOf(tf[r].id) = cfg[r].aliases
      /\ QuotasToModel(quota[tf[r].id]) = cfg[r].quota
      /\ tf[r].force = cfg[r].force
  BY DEF UpToDate, Settled
<1>2. /\ state.id = tf[r].id
      /\ state.aliases = AliasesOf(tf[r].id)
      /\ state.quota = cfg[r].quota
      /\ state.force = cfg[r].force
  BY <1>1 DEF ApplyBucketInfo, BucketInfo
<1> HIDE DEF state
<1>3. plan.aliases = state.aliases /\ plan.quota = state.quota /\ plan.force = state.force
  BY <1>1, <1>2 DEF PlanForUpdate, PlanForCreate
<1> HIDE DEF plan
<1>4. ~NeedsUpdate(plan, state)
  BY <1>3 DEF NeedsUpdate
<1>5. Planned(cfg[r], state) = Idle
  BY <1>4 DEF Planned, plan
<1> QED
  BY <1>2, <1>5 DEF state

\* Its own run leaves an up-to-date block up to date.
LEMMA OwnRunIsQuiet ==
    ASSUME Inv, NEW r \in Resources, UpToDate(r), Run(r)
    PROVE  UpToDate(r)'
<1>1. op[r].pc = "idle" /\ Settled(r)
  BY DEF UpToDate
<1>2. Read(r) \/ PlanCreate(r)
  BY <1>1 DEF Run, CreateCall, CreateAddAlias, CreateSetQuota, CreateGet, Rollback, UpdateAddAlias,
     UpdateRemoveAlias, UpdateSetQuota, UpdateGet, DeleteGet, EmptyList, EmptyPurge, DeleteCall
<1>3. cfg[r] # Null /\ tf[r] # NoState /\ tf[r].id \in live /\ Read(r)
  BY <1>1, <1>2 DEF Settled, Read, PlanCreate
<1> DEFINE state == ApplyBucketInfo(BucketInfo(tf[r].id), tf[r])
<1>4. PICK err \in ErrorClasses :
        /\ GetBucket(tf[r].id, FALSE, err)
        /\ \/ /\ Gone(err)
              /\ tf' = [tf EXCEPT ![r] = NoState]
              /\ UNCHANGED <<op, disturbed>>
           \/ /\ err = "ok"
              /\ tf' = [tf EXCEPT ![r] = state]
              /\ Continue(r, Planned(cfg[r], state))
              /\ disturbed' = disturbed \ {r}
           \/ /\ err # "ok" /\ ~Gone(err)
              /\ UNCHANGED <<tf, op, disturbed>>
  BY <1>3 DEF Read
<1>5. ~Gone(err) /\ UNCHANGED garage /\ UNCHANGED cfg
  BY <1>3, <1>4, BlockFacts, GetBucketFacts DEF Gone, Read
<1>6. \A b \in BucketIds : SameBucket(b)
  BY <1>5 DEF SameBucket, garage
<1>7. CASE UNCHANGED <<tf, op>>
  BY <1>5, <1>6, <1>7, UpToDateFrame
<1>8. CASE tf' = [tf EXCEPT ![r] = state] /\ Continue(r, Planned(cfg[r], state))
  <2>1. Planned(cfg[r], state) = Idle /\ state.id = tf[r].id /\ state.force = cfg[r].force
    BY <1>3, NothingToPlan
  <2>2. state \in States
    BY <1>3, BlockFacts, ApplyType
  <2> HIDE DEF state
  <2>3. op'[r] = Idle /\ tf'[r] = state
    BY <1>8, <2>1 DEF Continue, Inv, TypeOK
  <2>4. Idle.pc = "idle" /\ state # NoState
    BY <2>2, NoStateAssumption DEF Idle
  <2>5. UNCHANGED <<live, owner, quota>>
    BY <1>5 DEF garage
  <2> QED
    BY <1>1, <1>3, <1>5, <2>1, <2>3, <2>4, <2>5 DEF UpToDate, Settled, AliasesOf
<1> QED
  BY <1>4, <1>5, <1>7, <1>8

\* Every step but an edit or a change behind Terraform's back leaves an
\* up-to-date block so.
LEMMA StepKeepsUpToDate ==
    ASSUME Inv, ApplyInv, Next,
           \A k \in {"edit", "aliasDrift", "quotaDrift", "bucketDrift"} : left'[k] = left[k],
           NEW r \in Resources, UpToDate(r)
    PROVE  UpToDate(r)'
<1>1. op[r].pc = "idle" /\ Settled(r)
  BY DEF UpToDate
<1>2. ASSUME NEW s \in Resources, Run(s) PROVE UpToDate(r)'
  <2>1. CASE s = r
    BY <1>2, <2>1, OwnRunIsQuiet
  <2>2. CASE s # r
    BY <1>2, <2>2, RunWritesOwn, RunKeepsOthers, UpToDateFrame
  <2> QED
    BY <2>1, <2>2
<1>3. ASSUME NEW s \in Resources, NEW b \in BucketIds, Import(s, b) PROVE UpToDate(r)'
  <2>1. s # r
    BY <1>1, <1>3 DEF Import, Settled
  <2>2. tf'[r] = tf[r] /\ UNCHANGED <<live, owner, quota, op, cfg>>
    BY <1>3, <2>1 DEF Import, Inv, TypeOK, garage
  <2> QED
    BY <2>2, UpToDateFrame DEF SameBucket
<1>4. ASSUME NEW s \in Resources, Cancel(s) \/ Crash(s) PROVE UpToDate(r)'
  <2>1. s # r
    BY <1>1, <1>4 DEF Cancel, Crash
  <2>2. op'[r] = op[r] /\ UNCHANGED <<live, owner, quota, tf, cfg>>
    BY <1>4, <2>1 DEF Cancel, Crash, Continue, Inv, TypeOK, garage
  <2> QED
    BY <2>2, UpToDateFrame DEF SameBucket
<1>5. ASSUME NEW a \in Aliases, NEW k \in Keys, Upload(a, k) PROVE UpToDate(r)'
  BY <1>5, UpToDateFrame DEF Upload, PutObject, SameBucket
<1>6. ASSUME NEW kind \in {"edit", "aliasDrift", "quotaDrift", "bucketDrift"}, Spend(kind)
      PROVE  FALSE
  <2>1. left[kind] \in Nat /\ left'[kind] = left[kind] - 1
    BY <1>6 DEF Spend, Inv, TypeOK, Kinds
  <2> QED
    BY <2>1
<1> QED
  BY <1>2, <1>3, <1>4, <1>5, <1>6 DEF Next, Disturbance, Edit, MoveAlias, ChangeQuota, DropBucket

\* There is no perpetual diff, and no block undoes what another has applied
\* (StaysUpToDate).
THEOREM AppliedStaysApplied == Spec => StaysUpToDate
<1>1. Inv /\ ApplyInv /\ [Next]_vars =>
        [(\A k \in {"edit", "aliasDrift", "quotaDrift", "bucketDrift"} : left'[k] = left[k]) =>
            \A r \in Resources : UpToDate(r) => UpToDate(r)']_vars
  BY StepKeepsUpToDate
<1> QED
  BY <1>1, ApplyInvariance, PTL DEF Spec, StaysUpToDate

\* The final read of a Create or an Update is what writes its block's state.
LEMMA FinalRead ==
    ASSUME Inv, [Next]_vars, NEW r \in Resources,
           op[r].pc \in {"createGet", "updateGet"}, tf'[r] # tf[r]
    PROVE  tf' = [tf EXCEPT ![r] = ApplyBucketInfo(BucketInfo(op[r].id), op[r].plan)]
<1>1. CASE \E s \in Resources : Run(s)
  <2>1. PICK s \in Resources : Run(s)
    BY <1>1
  <2>2. Run(r)
    BY <2>1, RunWritesOwn
  <2>3. CreateGet(r) \/ UpdateGet(r)
    BY <2>2 DEF Run, Read, PlanCreate, CreateCall, CreateAddAlias, CreateSetQuota, Rollback,
       UpdateAddAlias, UpdateRemoveAlias, UpdateSetQuota, DeleteGet, EmptyList, EmptyPurge, DeleteCall
  <2> QED
    BY <2>3 DEF CreateGet, UpdateGet
<1>2. ASSUME NEW s \in Resources, NEW b \in BucketIds, Import(s, b) PROVE FALSE
  BY <1>2 DEF Import, Inv, TypeOK
<1>3. ASSUME Disturbance \/ UNCHANGED vars PROVE tf' = tf
  BY <1>3 DEF Disturbance, Cancel, Crash, Edit, MoveAlias, ChangeQuota, DropBucket, Upload, vars
<1> QED
  BY <1>1, <1>2, <1>3 DEF Next

\* What an apply reports is what was planned (ResultAsPlanned).
THEOREM ResultsAreConsistent == Spec => ResultAsPlanned
<1>1. Inv /\ AppliedAsPlanned /\ [Next]_vars =>
        [\A r \in Resources :
            op[r].pc \in {"createGet", "updateGet"} /\ r \notin disturbed /\ tf'[r] # tf[r] =>
                ~NeedsUpdate(op[r].plan, tf'[r])]_vars
  <2> SUFFICES ASSUME Inv, AppliedAsPlanned, [Next]_vars, NEW r \in Resources,
                      op[r].pc \in {"createGet", "updateGet"}, r \notin disturbed, tf'[r] # tf[r]
               PROVE  ~NeedsUpdate(op[r].plan, tf'[r])
    OBVIOUS
  <2> DEFINE state == ApplyBucketInfo(BucketInfo(op[r].id), op[r].plan)
  <2>1. tf'[r] = state
    BY FinalRead DEF Inv, TypeOK
  <2>2. /\ state.aliases = AliasesOf(op[r].id)
        /\ state.quota = QuotasToModel(quota[op[r].id])
        /\ state.force = op[r].plan.force
    BY DEF ApplyBucketInfo, BucketInfo
  <2>3. /\ AliasesOf(op[r].id) = op[r].plan.aliases
        /\ QuotasToModel(quota[op[r].id]) = op[r].plan.quota
    BY DEF AppliedAsPlanned, BucketInfo
  <2> QED
    BY <2>1, <2>2, <2>3 DEF NeedsUpdate
<1> QED
  BY <1>1, Invariance, PlansAreApplied, PTL DEF Spec, ResultAsPlanned
====
