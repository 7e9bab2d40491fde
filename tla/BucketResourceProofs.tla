---- MODULE BucketResourceProofs ----
(***************************************************************************)
(* Type correctness of BucketResource, and the proof that no bucket is     *)
(* orphaned silently or owned twice, for any number of blocks, buckets,    *)
(* aliases and disturbances.                                               *)
(***************************************************************************)
EXTENDS BucketResource, TLAPS

\* HandlerShape for one block.
Shape(r) ==
    /\ op[r].pc \in {"createBucket"} \cup CreatePcs => tf[r] = NoState
    /\ op[r].pc \in CreatePcs => op[r].id \in BucketIds
    /\ op[r].pc \in UpdatePcs \cup DeletePcs => tf[r] # NoState /\ op[r].id = tf[r].id
    /\ op[r].pc \in {"list", "purge"} => op[r].alias \in Aliases

\* Bucket b is accounted for by block r.
Holds(r, b) ==
    \/ tf[r] # NoState /\ tf[r].id = b
    \/ b \in CreatedBy(r)

\* Exclusive, by buckets: what one block holds no other does, and it is not
\* reported lost.
Apart ==
    \A r \in Resources, b \in BucketIds :
        Holds(r, b) => b \notin known /\ \A s \in Resources \ {r} : ~Holds(s, b)

\* What every step keeps.
Inv ==
    /\ TypeOK
    /\ HandlerShape
    /\ known \subseteq live
    /\ NoSilentOrphan
    /\ Apart

----
(* The pure operators *)

\* null / 0 / absent survive the way to the wire and back (modelToQuotas,
\* applyBucketInfoToModel).
THEOREM QuotaRoundTrip ==
    ASSUME NEW attrs \in QuotaAttrs
    PROVE  /\ ModelToQuotas(attrs) \in WireQuotas
           /\ QuotasToModel(ModelToQuotas(attrs)) = attrs
<1> DEFINE set == {g \in QuotaFields : attrs[g] # Null}
<1>1. ModelToQuotas(attrs) = [f \in set |-> attrs[f]]
  BY DEF ModelToQuotas
<1>2. \A f \in set : attrs[f] \in Limits
  BY DEF QuotaAttrs
<1>3. [f \in set |-> attrs[f]] \in [set -> Limits]
  BY <1>2
<1>4. set \in SUBSET QuotaFields
  OBVIOUS
<1>5. ModelToQuotas(attrs) \in WireQuotas
  BY <1>1, <1>3, <1>4 DEF WireQuotas
<1>6. DOMAIN ModelToQuotas(attrs) = set
  BY <1>1
<1>7. \A f \in QuotaFields : QuotasToModel(ModelToQuotas(attrs))[f] = attrs[f]
  BY <1>1, <1>6 DEF QuotasToModel
<1>8. QuotasToModel(ModelToQuotas(attrs)) = [f \in QuotaFields |-> QuotasToModel(ModelToQuotas(attrs))[f]]
  BY DEF QuotasToModel
<1>9. attrs = [f \in QuotaFields |-> attrs[f]]
  BY DEF QuotaAttrs
<1> QED
  BY <1>5, <1>7, <1>8, <1>9

\* What the server reports becomes well-formed attributes.
LEMMA QuotasToModelType ==
    ASSUME NEW wire \in WireQuotas
    PROVE  QuotasToModel(wire) \in QuotaAttrs
<1>1. PICK D \in SUBSET QuotaFields : wire \in [D -> Limits]
  BY DEF WireQuotas
<1>2. \A f \in QuotaFields : (IF f \in DOMAIN wire THEN wire[f] ELSE Null) \in Limits \cup {Null}
  BY <1>1
<1> QED
  BY <1>2 DEF QuotasToModel, QuotaAttrs

\* A new bucket's quotas are well formed.
LEMMA NoQuotaType == NoQuota \in WireQuotas
<1>1. NoQuota \in [{} -> Limits]
  BY DEF NoQuota
<1> QED
  BY <1>1 DEF WireQuotas

\* Planning a configuration gives a well-formed plan.
LEMMA PlanTypes ==
    ASSUME NEW config \in ConfigSpace
    PROVE  /\ PlanForCreate(config) \in Plans
           /\ \A state \in States : PlanForUpdate(config, state) \in Plans
BY DEF ConfigSpace, Plans, States, PlanForCreate, PlanForUpdate, AliasSets

\* Overlaying the server's answer on a model gives a state entry for that
\* bucket (applyBucketInfoToModel).
LEMMA ApplyType ==
    ASSUME GarageTypeOK, NEW b \in BucketIds, NEW model, model.force \in BOOLEAN
    PROVE  /\ ApplyBucketInfo(BucketInfo(b), model) \in States
           /\ ApplyBucketInfo(BucketInfo(b), model).id = b
<1>1. quota[b] \in WireQuotas
  BY DEF GarageTypeOK
<1>2. QuotasToModel(quota[b]) \in QuotaAttrs
  BY <1>1, QuotasToModelType
<1>3. AliasesOf(b) \in AliasSets
  BY DEF AliasesOf, AliasSets
<1> QED
  BY <1>2, <1>3 DEF ApplyBucketInfo, BucketInfo, States

----
(* Handlers *)

\* A block without a running handler is well typed.
LEMMA IdleType == Idle \in Handlers
<1>1. NoPlan \in Plans
  BY DEF NoPlan, Plans, AliasSets, QuotaAttrs
<1> QED
  BY <1>1 DEF Idle, Handlers, AliasSets

\* A refreshed block runs Update or Delete on its own bucket, or nothing.
LEMMA PlannedType ==
    ASSUME NEW config \in ConfigSpace \cup {Null}, NEW state \in States
    PROVE  /\ Planned(config, state) \in Handlers
           /\ Planned(config, state).pc \in {"idle", "deleteGet"} \cup UpdatePcs
           /\ Planned(config, state).pc # "idle" => Planned(config, state).id = state.id
<1>1. CASE config = Null
  <2>1. Planned(config, state) = [Idle EXCEPT !.pc = "deleteGet", !.id = state.id]
    BY <1>1 DEF Planned, DeleteOp
  <2>2. state.id \in BucketIds
    BY DEF States
  <2> QED
    BY <2>1, <2>2, IdleType DEF Handlers, DeletePcs
<1>2. CASE config # Null
  <2> DEFINE plan == PlanForUpdate(config, state)
  <2>1. plan \in Plans
    BY <1>2, PlanTypes
  <2>2. UpdateOp(plan, state) \in Handlers
    <3>1. state.id \in BucketIds /\ state.aliases \in AliasSets
      BY DEF States
    <3>2. ToAdd(plan, state) \in AliasSets /\ ToRemove(plan, state) \in AliasSets
      BY <2>1, <3>1 DEF Plans, AliasSets, ToAdd, ToRemove
    <3>3. \A A, D : UpdatePc(A, D, plan, state) \in UpdatePcs
      BY DEF UpdatePc, UpdatePcs
    <3> QED
      BY <2>1, <3>1, <3>2, <3>3, IdleType DEF UpdateOp, Handlers
  <2>3. UpdateOp(plan, state).pc \in UpdatePcs /\ UpdateOp(plan, state).id = state.id
    BY DEF UpdateOp, UpdatePc, UpdatePcs, Idle
  <2>4. Planned(config, state) \in {UpdateOp(plan, state), Idle}
    BY <1>2 DEF Planned
  <2>5. Idle.pc = "idle"
    BY DEF Idle
  <2> HIDE DEF plan
  <2> QED
    BY <2>2, <2>3, <2>4, <2>5, IdleType
<1> QED
  BY <1>1, <1>2

----
(* The calls: what each leaves of the server's state and says by its error *)

\* The statuses Garage answers, as classed by statusToError.
LEMMA Statuses ==
    /\ StatusToError(200) = "ok"
    /\ StatusToError(404) = "notFound"
    /\ StatusToError(400) = "server"
    /\ StatusToError(409) = "server"
BY DEF StatusToError

\* A fault is neither a success nor the report that a bucket is gone.
LEMMA FailuresSay == \A err \in Failures : err # "ok" /\ err # "notFound"
BY DEF Failures, Unclear

\* Spending from the budget leaves a budget.
LEMMA SpendType ==
    ASSUME left \in [Kinds -> Nat], NEW kind \in Kinds, Spend(kind)
    PROVE  left' \in [Kinds -> Nat]
BY DEF Spend

\* A call of the resource's client is a whole call of module AdminCall in one
\* step: under a cancelled context nothing is sent, and otherwise the error
\* class and whether the server has acted are one of the outcomes that module
\* ends in, a lost one being paid for by the budget.
THEOREM CallsInOneStep ==
    ASSUME NEW status \in {200, 400, 404, 409}, NEW ACTION Effect, NEW c \in BOOLEAN, NEW err
    PROVE  Request(status, Effect, c, err) <=>
             \/ c /\ err = "cancelled" /\ UNCHANGED <<garage, left>>
             \/ /\ ~c
                /\ \E lost, acted \in BOOLEAN :
                     /\ Outcome(status, lost, acted, err)
                     /\ IF acted THEN Effect ELSE UNCHANGED garage
                     /\ IF lost THEN Spend("fault") ELSE UNCHANGED left
<1> DEFINE Ends(lost, acted) ==
             /\ Outcome(status, lost, acted, err)
             /\ IF acted THEN Effect ELSE UNCHANGED garage
             /\ IF lost THEN Spend("fault") ELSE UNCHANGED left
<1>1. status \in 200..299 <=> status = 200
  OBVIOUS
<1>2. (Ends(FALSE, TRUE) \/ Ends(FALSE, FALSE)) <=>
        /\ err = StatusToError(status)
        /\ IF status = 200 THEN Effect ELSE UNCHANGED garage
        /\ UNCHANGED left
  BY <1>1 DEF Outcome
<1>3. (Ends(TRUE, TRUE) \/ Ends(TRUE, FALSE)) <=>
        /\ err \in Failures
        /\ Spend("fault")
        /\ (status = 200 /\ err \in Unclear /\ Effect) \/ UNCHANGED garage
  BY <1>1 DEF Outcome
<1>4. (\E lost, acted \in BOOLEAN : Ends(lost, acted)) <=>
        Ends(FALSE, TRUE) \/ Ends(FALSE, FALSE) \/ Ends(TRUE, TRUE) \/ Ends(TRUE, FALSE)
  OBVIOUS
<1> HIDE DEF Ends
<1>5. Request(status, Effect, c, err) <=>
        \/ c /\ err = "cancelled" /\ UNCHANGED <<garage, left>>
        \/ ~c /\ \E lost, acted \in BOOLEAN : Ends(lost, acted)
  BY <1>2, <1>3, <1>4 DEF Request
<1> QED
  BY <1>5 DEF Ends

\* An exchange leaves the types right when its effect does.
LEMMA GetBucketFacts ==
    ASSUME left \in [Kinds -> Nat], NEW b \in BucketIds, NEW c, NEW err, GetBucket(b, c, err)
    PROVE  /\ UNCHANGED garage
           /\ left' \in [Kinds -> Nat]
           /\ err = "notFound" => b \notin live
           /\ err = "ok" => b \in live
<1>1. "fault" \in Kinds
  BY DEF Kinds
<1>2. GetBucketInfoStatus(b) \in {200, 404} /\ (GetBucketInfoStatus(b) = 200 <=> b \in live)
  BY DEF GetBucketInfoStatus
<1>3. CASE c /\ err = "cancelled" /\ UNCHANGED <<garage, left>>
  BY <1>3
<1>4. CASE err = StatusToError(GetBucketInfoStatus(b)) /\ UNCHANGED garage /\ UNCHANGED left
  BY <1>2, <1>4, Statuses
<1>5. CASE err \in Failures /\ Spend("fault") /\ UNCHANGED garage
  BY <1>1, <1>5, SpendType, FailuresSay
<1> QED
  BY <1>3, <1>4, <1>5 DEF GetBucket, Request

\* CreateBucket adds the one bucket, or nothing; it does when it says ok.
LEMMA CreateBucketFacts ==
    ASSUME GarageTypeOK, left \in [Kinds -> Nat],
           NEW b \in BucketIds, NEW c, NEW err, CreateBucket(b, c, err)
    PROVE  /\ GarageTypeOK'
           /\ left' \in [Kinds -> Nat]
           /\ live' \in {live, live \cup {b}}
           /\ err = "ok" => live' = live \cup {b}
<1>1. "fault" \in Kinds
  BY DEF Kinds
<1>2. CreateBucketEffect(b) => GarageTypeOK' /\ live' = live \cup {b}
  BY DEF CreateBucketEffect, GarageTypeOK
<1>3. UNCHANGED garage => GarageTypeOK' /\ live' = live
  BY DEF garage, GarageTypeOK
<1>4. CASE err = "cancelled" /\ UNCHANGED <<garage, left>>
  BY <1>3, <1>4
<1>5. CASE CreateBucketEffect(b) /\ UNCHANGED left
  BY <1>2, <1>5
<1>6. CASE err \in Failures /\ Spend("fault") /\ (CreateBucketEffect(b) \/ UNCHANGED garage)
  BY <1>1, <1>2, <1>3, <1>6, SpendType, FailuresSay
<1> QED
  BY <1>4, <1>5, <1>6 DEF CreateBucket, Request

\* UpdateBucket makes and drops no bucket.
LEMMA UpdateBucketFacts ==
    ASSUME GarageTypeOK, left \in [Kinds -> Nat],
           NEW b \in BucketIds, NEW w \in WireQuotas, NEW c, NEW err, UpdateBucket(b, w, c, err)
    PROVE  GarageTypeOK' /\ left' \in [Kinds -> Nat] /\ live' = live
<1>1. "fault" \in Kinds
  BY DEF Kinds
<1>2. UpdateBucketEffect(b, w) => GarageTypeOK' /\ live' = live
  BY DEF UpdateBucketEffect, GarageTypeOK
<1>3. UNCHANGED garage => GarageTypeOK' /\ live' = live
  BY DEF garage, GarageTypeOK
<1> QED
  BY <1>1, <1>2, <1>3, SpendType DEF UpdateBucket, Request

\* AddBucketAlias makes and drops no bucket.
LEMMA AddBucketAliasFacts ==
    ASSUME GarageTypeOK, left \in [Kinds -> Nat],
           NEW b \in BucketIds, NEW a \in Aliases, NEW c, NEW err, AddBucketAlias(b, a, c, err)
    PROVE  GarageTypeOK' /\ left' \in [Kinds -> Nat] /\ live' = live
<1>1. "fault" \in Kinds
  BY DEF Kinds
<1>2. AddBucketAliasEffect(b, a) => GarageTypeOK' /\ live' = live
  BY DEF AddBucketAliasEffect, GarageTypeOK
<1>3. UNCHANGED garage => GarageTypeOK' /\ live' = live
  BY DEF garage, GarageTypeOK
<1> QED
  BY <1>1, <1>2, <1>3, SpendType DEF AddBucketAlias, Refused, Request

\* RemoveBucketAlias makes and drops no bucket.
LEMMA RemoveBucketAliasFacts ==
    ASSUME GarageTypeOK, left \in [Kinds -> Nat],
           NEW b \in BucketIds, NEW a \in Aliases, NEW c, NEW err, RemoveBucketAlias(b, a, c, err)
    PROVE  GarageTypeOK' /\ left' \in [Kinds -> Nat] /\ live' = live
<1>1. "fault" \in Kinds
  BY DEF Kinds
<1>2. RemoveBucketAliasEffect(b, a) => GarageTypeOK' /\ live' = live
  BY DEF RemoveBucketAliasEffect, GarageTypeOK
<1>3. UNCHANGED garage => GarageTypeOK' /\ live' = live
  BY DEF garage, GarageTypeOK
<1> QED
  BY <1>1, <1>2, <1>3, SpendType DEF RemoveBucketAlias, Refused, Request

\* A deletion drops the one bucket and leaves the server well typed.
LEMMA DeleteEffectFacts ==
    ASSUME GarageTypeOK, NEW b \in BucketIds, DeleteBucketEffect(b)
    PROVE  GarageTypeOK' /\ live' = live \ {b}
BY NoQuotaType DEF DeleteBucketEffect, GarageTypeOK

\* DeleteBucket drops the one bucket, or nothing; it does when it says ok.
LEMMA DeleteBucketFacts ==
    ASSUME GarageTypeOK, left \in [Kinds -> Nat],
           NEW b \in BucketIds, NEW c, NEW err, DeleteBucket(b, c, err)
    PROVE  /\ GarageTypeOK'
           /\ left' \in [Kinds -> Nat]
           /\ live' \in {live, live \ {b}}
           /\ err = "ok" => live' = live \ {b}
<1>1. "fault" \in Kinds
  BY DEF Kinds
<1>2. DeleteBucketStatus(b) \in {200, 404, 409}
  BY DEF DeleteBucketStatus
<1>3. DeleteBucketEffect(b) => GarageTypeOK' /\ live' = live \ {b}
  BY DeleteEffectFacts
<1>4. UNCHANGED garage => GarageTypeOK' /\ live' = live
  BY DEF garage, GarageTypeOK
<1>5. CASE err = "cancelled" /\ UNCHANGED <<garage, left>>
  BY <1>4, <1>5
<1>6. CASE /\ err = StatusToError(DeleteBucketStatus(b))
           /\ IF DeleteBucketStatus(b) = 200 THEN DeleteBucketEffect(b) ELSE UNCHANGED garage
           /\ UNCHANGED left
  BY <1>2, <1>3, <1>4, <1>6, Statuses
<1>7. CASE err \in Failures /\ Spend("fault") /\ (DeleteBucketEffect(b) \/ UNCHANGED garage)
  BY <1>1, <1>3, <1>4, <1>7, SpendType, FailuresSay
<1> QED
  BY <1>5, <1>6, <1>7 DEF DeleteBucket, Request

\* The S3 calls of emptyBucket make and drop no bucket.
LEMMA S3Facts ==
    ASSUME GarageTypeOK, left \in [Kinds -> Nat],
           NEW a \in Aliases, NEW keys \in SUBSET Keys, NEW c, NEW err,
           ListObjects(a, c, err) \/ DeleteObjects(a, keys, c, err)
    PROVE  GarageTypeOK' /\ left' \in [Kinds -> Nat] /\ live' = live
<1>1. "fault" \in Kinds
  BY DEF Kinds
<1>2. \A done : S3Status(a) = 200 /\ DeleteObjectsEffect(a, done) => GarageTypeOK' /\ live' = live
  BY DEF DeleteObjectsEffect, GarageTypeOK, S3Status
<1>3. UNCHANGED garage => GarageTypeOK' /\ live' = live
  BY DEF garage, GarageTypeOK
<1> QED
  BY <1>1, <1>2, <1>3, SpendType DEF ListObjects, DeleteObjects, Request

----
(* The invariant, block by block *)

\* NoSilentOrphan, by blocks: every bucket is reported lost or held by one.
LEMMA OrphanByBlock ==
    ASSUME live \subseteq BucketIds
    PROVE  NoSilentOrphan <=>
             \A b \in live : b \in known \/ \E r \in Resources : Holds(r, b)
BY DEF NoSilentOrphan, Managed, InCreate, Holds

\* The same of the next state.
LEMMA OrphanByBlockNext ==
    ASSUME (live \subseteq BucketIds)'
    PROVE  NoSilentOrphan' <=>
             \A b \in live' : b \in known' \/ \E r \in Resources : Holds(r, b)'
BY DEF NoSilentOrphan, Managed, InCreate, Holds, CreatedBy

\* A step that concerns block r alone keeps the invariant when it leaves the
\* types and r's handler in order, and r or the report accounts for what r
\* or the report accounted for, and for every new bucket.
LEMMA BlockStep ==
    ASSUME Inv,
           NEW r \in Resources,
           NEW h \in Handlers, op' = [op EXCEPT ![r] = h],
           NEW st \in States \cup {NoState}, tf' = [tf EXCEPT ![r] = st],
           GarageTypeOK', left' \in [Kinds -> Nat],
           cfg' \in [Resources -> ConfigSpace \cup {Null}],
           disturbed' \in SUBSET Resources,
           consent' \in SUBSET BucketIds,
           known' \in SUBSET BucketIds, known' \subseteq live',
           Shape(r)',
           \A b \in live' : b \notin live => b \in known' \/ Holds(r, b)',
           \A b \in live' : b \in known \/ Holds(r, b) => b \in known' \/ Holds(r, b)',
           \A b \in BucketIds : Holds(r, b)' =>
                b \notin known' /\ (Holds(r, b) \/ \A s \in Resources : ~Holds(s, b)),
           \A b \in known' : b \in known \/ Holds(r, b) \/ \A s \in Resources : ~Holds(s, b)
    PROVE  Inv'
<1>1. TypeOK'
  BY DEF Inv, TypeOK
<1>2. \A s \in Resources \ {r} : op'[s] = op[s] /\ tf'[s] = tf[s]
  BY DEF Inv, TypeOK
<1>3. HandlerShape'
  BY <1>2 DEF Inv, HandlerShape, Shape
<1>4. \A s \in Resources \ {r} : \A b : Holds(s, b)' <=> Holds(s, b)
  BY <1>2 DEF Holds, CreatedBy
<1>5. live \subseteq BucketIds /\ live' \subseteq BucketIds
  BY DEF Inv, TypeOK, GarageTypeOK
<1>6. \A b \in live : b \in known \/ \E s \in Resources : Holds(s, b)
  BY <1>5, OrphanByBlock DEF Inv
<1>7. \A b \in live' : b \in known' \/ \E s \in Resources : Holds(s, b)'
  <2>1. TAKE b \in live'
  <2>2. CASE b \notin live
    BY <2>2
  <2>3. CASE b \in known \/ Holds(r, b)
    BY <2>3
  <2>4. CASE b \in live /\ ~(b \in known \/ Holds(r, b))
    <3>1. PICK s \in Resources \ {r} : Holds(s, b)
      BY <1>6, <2>4
    <3> QED
      BY <3>1, <1>4
  <2> QED
    BY <2>2, <2>3, <2>4
<1>8. NoSilentOrphan'
  BY <1>5, <1>7, OrphanByBlockNext
<1>9. Apart'
  <2>1. SUFFICES ASSUME NEW q \in Resources, NEW b \in BucketIds, Holds(q, b)'
                 PROVE  b \notin known' /\ \A s \in Resources \ {q} : ~Holds(s, b)'
    BY DEF Apart
  <2>2. \A x \in Resources : Holds(x, b) =>
            b \notin known /\ \A s \in Resources \ {x} : ~Holds(s, b)
    BY DEF Inv, Apart
  <2>3. CASE q = r
    BY <1>4, <2>1, <2>2, <2>3
  <2>4. CASE q # r
    <3>1. Holds(q, b)
      BY <1>4, <2>1, <2>4
    <3>2. ~Holds(r, b) /\ b \notin known
      BY <2>2, <2>4, <3>1
    <3>3. b \notin known' /\ ~Holds(r, b)'
      BY <3>1, <3>2
    <3> QED
      BY <1>4, <2>2, <3>1, <3>3
  <2> QED
    BY <2>3, <2>4
<1> QED
  BY <1>1, <1>3, <1>8, <1>9 DEF Inv

\* A step of block r's handler that neither makes nor drops a bucket, and
\* goes on with handler h.
LEMMA HandlerStep ==
    ASSUME Inv,
           NEW r \in Resources,
           NEW h \in Handlers, Continue(r, h),
           UNCHANGED <<cfg, tf, history>>,
           GarageTypeOK', left' \in [Kinds -> Nat], live' = live,
           h.pc \in {"createBucket"} \cup CreatePcs => tf[r] = NoState,
           h.pc \in CreatePcs => h.id \in BucketIds,
           h.pc \in UpdatePcs \cup DeletePcs => tf[r] # NoState /\ h.id = tf[r].id,
           h.pc \in {"list", "purge"} => h.alias \in Aliases,
           op[r].pc \in CreatePcs => h.pc \in CreatePcs /\ h.id = op[r].id,
           h.pc \in CreatePcs => op[r].pc \in CreatePcs
    PROVE  Inv'
<1>1. op' = [op EXCEPT ![r] = h] /\ op'[r] = h
  BY DEF Continue, Inv, TypeOK
<1>2. tf[r] \in States \cup {NoState} /\ tf' = [tf EXCEPT ![r] = tf[r]]
  BY DEF Inv, TypeOK
<1>3. /\ cfg' \in [Resources -> ConfigSpace \cup {Null}]
      /\ disturbed' \in SUBSET Resources
      /\ consent' \in SUBSET BucketIds
      /\ known' \in SUBSET BucketIds
      /\ known' \subseteq live'
  BY DEF Inv, TypeOK, history
<1>4. Shape(r)'
  BY <1>1 DEF Shape
<1>5. \A b : Holds(r, b) <=> Holds(r, b)'
  BY <1>1 DEF Holds, CreatedBy
<1>6. known' = known
  BY DEF history
<1>7. \A b \in BucketIds : Holds(r, b) => b \notin known
  BY DEF Inv, Apart
<1> QED
  BY <1>1, <1>2, <1>3, <1>4, <1>5, <1>6, <1>7, BlockStep

\* What Inv says of one block.
LEMMA BlockFacts ==
    ASSUME Inv, NEW r \in Resources
    PROVE  /\ op[r] \in Handlers
           /\ tf[r] \in States \cup {NoState}
           /\ tf[r] # NoState => tf[r].id \in BucketIds
           /\ tf[r] # NoState => tf[r].force \in BOOLEAN
           /\ cfg[r] \in ConfigSpace \cup {Null}
           /\ GarageTypeOK
           /\ left \in [Kinds -> Nat]
           /\ Shape(r)
           /\ \A b \in BucketIds : Holds(r, b) => b \notin known
BY DEF Inv, TypeOK, States, HandlerShape, Shape, Apart

\* The server's types need only the server's variables.
LEMMA GarageSame ==
    ASSUME Inv, UNCHANGED garage
    PROVE  GarageTypeOK' /\ live' = live
BY DEF Inv, TypeOK, GarageTypeOK, garage

\* The pcs of the three operations do not meet.
LEMMA PcsDisjoint ==
    /\ \A pc \in UpdatePcs \cup DeletePcs : pc \notin CreatePcs /\ pc # "createBucket"
    /\ Idle.pc = "idle"
    /\ "idle" \notin {"createBucket"} \cup CreatePcs \cup UpdatePcs \cup DeletePcs
    /\ {"list", "purge"} \subseteq DeletePcs
    /\ \A pc \in UpdatePcs : pc \notin {"list", "purge"}
BY DEF CreatePcs, UpdatePcs, DeletePcs, Idle

----
(* Read, plan, import *)

\* Read drops a state entry on 404 alone, and hands a refreshed block to a
\* handler of its own bucket.
LEMMA ReadInv ==
    ASSUME Inv, NEW r \in Resources, Read(r)
    PROVE  Inv'
<1>1. /\ op[r].pc = "idle"
      /\ tf[r] # NoState
      /\ UNCHANGED <<cfg, known, consent>>
  BY DEF Read
<1>2. PICK err \in ErrorClasses :
        /\ GetBucket(tf[r].id, FALSE, err)
        /\ \/ /\ Gone(err)
              /\ tf' = [tf EXCEPT ![r] = NoState]
              /\ UNCHANGED <<op, disturbed>>
           \/ /\ err = "ok"
              /\ LET state == ApplyBucketInfo(BucketInfo(tf[r].id), tf[r]) IN
                 /\ tf' = [tf EXCEPT ![r] = state]
                 /\ Continue(r, Planned(cfg[r], state))
              /\ disturbed' = disturbed \ {r}
           \/ /\ err # "ok" /\ ~Gone(err)
              /\ UNCHANGED <<tf, op, disturbed>>
  BY DEF Read
<1>3. /\ UNCHANGED garage
      /\ left' \in [Kinds -> Nat]
      /\ err = "notFound" => tf[r].id \notin live
  BY <1>1, <1>2, BlockFacts, GetBucketFacts
<1>4. GarageTypeOK' /\ live' = live
  BY <1>3, GarageSame
<1>5. /\ cfg' \in [Resources -> ConfigSpace \cup {Null}]
      /\ consent' \in SUBSET BucketIds
      /\ known' \in SUBSET BucketIds
      /\ known' = known
      /\ known' \subseteq live'
  BY <1>1, <1>4 DEF Inv, TypeOK
<1>6. CreatedBy(r) = {}
  BY <1>1 DEF CreatedBy, CreatePcs
<1>7. CASE Gone(err) /\ tf' = [tf EXCEPT ![r] = NoState] /\ UNCHANGED <<op, disturbed>>
  <2>1. op[r] \in Handlers /\ op' = [op EXCEPT ![r] = op[r]] /\ disturbed' \in SUBSET Resources
    BY <1>7 DEF Inv, TypeOK
  <2>2. Shape(r)'
    BY <1>1, <1>7 DEF Shape, CreatePcs, UpdatePcs, DeletePcs
  <2>3. tf[r].id \notin live
    BY <1>3, <1>7 DEF Gone
  <2>4. \A b \in live' : b \in known \/ Holds(r, b) => b \in known'
    BY <1>4, <1>5, <1>6, <2>3 DEF Holds
  <2>5. \A b : ~Holds(r, b)'
    BY <1>1, <1>6, <1>7 DEF Holds, CreatedBy, Inv, TypeOK
  <2> QED
    BY <1>3, <1>4, <1>5, <1>7, <2>1, <2>2, <2>4, <2>5, BlockStep
<1>8. CASE /\ LET state == ApplyBucketInfo(BucketInfo(tf[r].id), tf[r]) IN
              /\ tf' = [tf EXCEPT ![r] = state]
              /\ Continue(r, Planned(cfg[r], state))
           /\ disturbed' = disturbed \ {r}
  <2> DEFINE state == ApplyBucketInfo(BucketInfo(tf[r].id), tf[r])
             h == Planned(cfg[r], state)
  <2>1. state \in States /\ state.id = tf[r].id
    BY <1>1, BlockFacts, ApplyType
  <2>2. /\ h \in Handlers
        /\ h.pc \in {"idle", "deleteGet"} \cup UpdatePcs
        /\ h.pc # "idle" => h.id = state.id
    BY <2>1, BlockFacts, PlannedType
  <2>3. tf' = [tf EXCEPT ![r] = state] /\ op' = [op EXCEPT ![r] = h] /\ disturbed' \in SUBSET Resources
    BY <1>8 DEF Continue, Inv, TypeOK
  <2> HIDE DEF state, h
  <2>5. tf'[r] = state /\ op'[r] = h
    BY <2>3 DEF Inv, TypeOK
  <2>6. state # NoState
    BY <2>1, NoStateAssumption
  <2>7. Shape(r)'
    BY <2>2, <2>5, <2>6 DEF Shape, CreatePcs, UpdatePcs, DeletePcs
  <2>8. \A b : Holds(r, b) <=> Holds(r, b)'
    <3>1. CreatedBy(r)' = {}
      BY <2>2, <2>5, PcsDisjoint DEF CreatedBy, CreatePcs
    <3> QED
      BY <1>1, <1>6, <2>1, <2>5, <2>6, <3>1 DEF Holds
  <2> QED
    BY <1>3, <1>4, <1>5, <2>1, <2>2, <2>3, <2>7, <2>8, BlockFacts, BlockStep
<1>9. CASE UNCHANGED <<tf, op, disturbed>>
  <2>1. op[r] \in Handlers /\ Continue(r, op[r]) /\ UNCHANGED <<cfg, tf, history>>
    BY <1>1, <1>9 DEF Inv, TypeOK, Continue, history
  <2> QED
    BY <1>1, <1>3, <1>4, <2>1, HandlerStep DEF CreatePcs, UpdatePcs, DeletePcs
<1> QED
  BY <1>2, <1>7, <1>8, <1>9

\* A Create starts without a bucket.
LEMMA PlanCreateInv ==
    ASSUME Inv, NEW r \in Resources, PlanCreate(r)
    PROVE  Inv'
<1> DEFINE h == CreateOp(PlanForCreate(cfg[r]))
<1>1. /\ op[r].pc = "idle" /\ tf[r] = NoState /\ cfg[r] # Null
      /\ op' = [op EXCEPT ![r] = h]
      /\ disturbed' = disturbed \ {r}
      /\ UNCHANGED <<garage, left, cfg, tf, known, consent>>
  BY DEF PlanCreate, Continue
<1>2. PlanForCreate(cfg[r]) \in Plans
  BY <1>1, BlockFacts, PlanTypes
<1>3. h \in Handlers /\ h.pc = "createBucket"
  <2>1. PlanForCreate(cfg[r]).aliases \in AliasSets
    BY <1>2 DEF Plans
  <2> QED
    BY <1>2, <2>1, IdleType DEF CreateOp, Handlers
<1> HIDE DEF h
<1>4. GarageTypeOK' /\ live' = live
  BY <1>1, GarageSame
<1>5. /\ left' \in [Kinds -> Nat]
      /\ cfg' \in [Resources -> ConfigSpace \cup {Null}]
      /\ disturbed' \in SUBSET Resources
      /\ consent' \in SUBSET BucketIds
      /\ known' \in SUBSET BucketIds
      /\ known' = known
      /\ known' \subseteq live'
      /\ NoState \in States \cup {NoState}
      /\ tf' = [tf EXCEPT ![r] = NoState]
  BY <1>1, <1>4 DEF Inv, TypeOK
<1>6. op'[r] = h /\ tf'[r] = tf[r]
  BY <1>1 DEF Inv, TypeOK
<1>7. Shape(r)'
  BY <1>1, <1>3, <1>6 DEF Shape, CreatePcs, UpdatePcs, DeletePcs
<1>8. \A b : ~Holds(r, b)
  BY <1>1 DEF Holds, CreatedBy, CreatePcs
<1>9. \A b : ~Holds(r, b)'
  BY <1>1, <1>3, <1>6 DEF Holds, CreatedBy, CreatePcs
<1> QED
  BY <1>1, <1>3, <1>4, <1>5, <1>7, <1>8, <1>9, BlockStep

\* An imported bucket was nobody's, and is now the block's.
LEMMA ImportInv ==
    ASSUME Inv, NEW r \in Resources, NEW b \in BucketIds, Import(r, b)
    PROVE  Inv'
<1> DEFINE state == ApplyBucketInfo(BucketInfo(b), [force |-> FALSE])
<1>0. b \in known
  BY DEF Import
<1>1. /\ op[r].pc = "idle" /\ tf[r] = NoState
      /\ tf' = [tf EXCEPT ![r] = state]
      /\ known' = known \ {b}
      /\ consent' = consent \ {b}
      /\ UNCHANGED <<garage, left, cfg, op, disturbed>>
  BY DEF Import
<1>2. state \in States /\ state.id = b
  <2> DEFINE model == [force |-> FALSE]
  <2>1. model.force \in BOOLEAN
    OBVIOUS
  <2>2. state = ApplyBucketInfo(BucketInfo(b), model)
    OBVIOUS
  <2> HIDE DEF model, state
  <2> QED
    BY <2>1, <2>2, BlockFacts, ApplyType
<1> HIDE DEF state
<1>3. GarageTypeOK' /\ live' = live
  BY <1>1, GarageSame
<1>4. /\ left' \in [Kinds -> Nat]
      /\ cfg' \in [Resources -> ConfigSpace \cup {Null}]
      /\ disturbed' \in SUBSET Resources
      /\ consent' \in SUBSET BucketIds
      /\ known' \in SUBSET BucketIds
      /\ known' \subseteq live'
      /\ op[r] \in Handlers
      /\ op' = [op EXCEPT ![r] = op[r]]
  BY <1>1, <1>3 DEF Inv, TypeOK
<1>5. op'[r] = op[r] /\ tf'[r] = state /\ state # NoState
  BY <1>1, <1>2, NoStateAssumption DEF Inv, TypeOK
<1>6. Shape(r)'
  BY <1>1, <1>5 DEF Shape, CreatePcs, UpdatePcs, DeletePcs
<1>7. \A c : ~Holds(r, c)
  BY <1>1 DEF Holds, CreatedBy, CreatePcs
<1>8. Holds(r, b)'
  BY <1>2, <1>5 DEF Holds
<1>9. \A c : c \in known => c \in known' \/ Holds(r, c)'
  BY <1>1, <1>8
<1>10. \A c : Holds(r, c)' => c = b
  BY <1>1, <1>2, <1>5 DEF Holds, CreatedBy, CreatePcs
<1>11. \A s \in Resources : ~Holds(s, b)
  BY <1>0 DEF Inv, Apart
<1>12. b \notin known'
  BY <1>1
<1> QED
  BY <1>1, <1>2, <1>3, <1>4, <1>6, <1>7, <1>9, <1>10, <1>11, <1>12, BlockStep

----
(* Create *)

\* Create goes on with one of its own calls.
LEMMA CreatePcType ==
    ASSUME NEW adds, NEW plan
    PROVE  CreatePc(adds, plan) \in CreatePcs
BY DEF CreatePc, CreatePcs

\* CreateBucket's new bucket is the handler's, or is reported.
LEMMA CreateCallInv ==
    ASSUME Inv, NEW r \in Resources, CreateCall(r)
    PROVE  Inv'
<1>1. op[r].pc = "createBucket" /\ tf[r] = NoState /\ UNCHANGED <<cfg, tf, disturbed>>
  BY BlockFacts DEF CreateCall, Shape
<1>2. PICK b \in FreshIds, err \in ErrorClasses :
        /\ CreateBucket(b, op[r].cancelled, err)
        /\ \/ /\ err = "ok"
              /\ Continue(r, [op[r] EXCEPT !.id = b,
                                           !.pc = CreatePc(op[r].adds, op[r].plan)])
              /\ Account({})
           \/ /\ err # "ok"
              /\ Continue(r, Idle)
              /\ Account({b})
  BY DEF CreateCall
<1>3. /\ b \in BucketIds
      /\ \A s \in Resources : ~Holds(s, b)
      /\ b \notin known
  BY DEF FreshIds, Managed, InCreate, Holds, Inv
<1>4. /\ GarageTypeOK' /\ left' \in [Kinds -> Nat]
      /\ live' \in {live, live \cup {b}}
      /\ err = "ok" => live' = live \cup {b}
  BY <1>2, <1>3, BlockFacts, CreateBucketFacts
<1>5. /\ cfg' \in [Resources -> ConfigSpace \cup {Null}]
      /\ disturbed' \in SUBSET Resources
      /\ NoState \in States \cup {NoState}
      /\ tf' = [tf EXCEPT ![r] = NoState] /\ tf'[r] = NoState
  BY <1>1 DEF Inv, TypeOK
<1>6. /\ consent' \in SUBSET BucketIds /\ known' \in SUBSET BucketIds
      /\ known' \subseteq live'
      /\ known \subseteq known'
      /\ \A c \in known' : c \in known \/ c = b
  BY <1>2, <1>3, <1>4 DEF Account, Inv, TypeOK
<1>7. \A c : ~Holds(r, c)
  BY <1>1 DEF Holds, CreatedBy, CreatePcs
<1>8. CASE /\ err = "ok"
           /\ Continue(r, [op[r] EXCEPT !.id = b, !.pc = CreatePc(op[r].adds, op[r].plan)])
  <2> DEFINE h == [op[r] EXCEPT !.id = b, !.pc = CreatePc(op[r].adds, op[r].plan)]
  <2>1. h \in Handlers /\ h.pc \in CreatePcs /\ h.id = b
    BY <1>3, BlockFacts, CreatePcType DEF Handlers
  <2>2. op' = [op EXCEPT ![r] = h]
    BY <1>8 DEF Continue
  <2> HIDE DEF h
  <2>3. op'[r] = h
    BY <2>2 DEF Inv, TypeOK
  <2>4. Shape(r)'
    BY <1>3, <1>5, <2>1, <2>3 DEF Shape, CreatePcs, UpdatePcs, DeletePcs
  <2>5. Holds(r, b)'
    BY <2>1, <2>3 DEF Holds, CreatedBy
  <2>6. \A c \in live' : c \notin live => c \in known' \/ Holds(r, c)'
    BY <1>4, <2>5
  <2>7. \A c : Holds(r, c)' => c = b
    BY <1>5, <2>1, <2>3 DEF Holds, CreatedBy
  <2>8. b \notin known'
    BY <1>2, <1>3, <1>8 DEF Account
  <2>9. \A c \in BucketIds : Holds(r, c)' =>
           c \notin known' /\ (Holds(r, c) \/ \A s \in Resources : ~Holds(s, c))
    BY <1>3, <2>7, <2>8
  <2>10. \A c \in known' : c \in known \/ Holds(r, c) \/ \A s \in Resources : ~Holds(s, c)
    BY <1>3, <1>6
  <2>11. \A c \in live' : c \in known \/ Holds(r, c) => c \in known' \/ Holds(r, c)'
    BY <1>6, <1>7
  <2> QED
    BY <1>4, <1>5, <1>6, <2>1, <2>2, <2>4, <2>6, <2>9, <2>10, <2>11, BlockStep
<1>9. CASE Continue(r, Idle) /\ Account({b})
  <2>1. op' = [op EXCEPT ![r] = Idle] /\ op'[r] = Idle /\ Idle.pc = "idle"
    BY <1>9 DEF Continue, Inv, TypeOK, Idle
  <2>2. Shape(r)'
    BY <1>5, <2>1 DEF Shape, CreatePcs, UpdatePcs, DeletePcs
  <2>3. \A c \in live' : c \notin live => c \in known'
    BY <1>4, <1>9 DEF Account
  <2>4. \A c : ~Holds(r, c)'
    BY <1>5, <2>1, PcsDisjoint DEF Holds, CreatedBy
  <2> QED
    BY <1>3, <1>4, <1>5, <1>6, <1>7, <2>1, <2>2, <2>3, <2>4, IdleType, BlockStep
<1> QED
  BY <1>2, <1>8, <1>9

\* Every failure of a running Create keeps its bucket in hand.
LEMMA FailCreateFacts ==
    ASSUME Inv, NEW r \in Resources, op[r].pc \in CreatePcs, FailCreate(r)
    PROVE  \E h \in Handlers :
              Continue(r, h) /\ h.pc \in CreatePcs /\ h.id = op[r].id
BY BlockFacts DEF FailCreate, Handlers, CreatePcs

\* Adding an alias keeps the new bucket in hand, failed or not.
LEMMA CreateAddAliasInv ==
    ASSUME Inv, NEW r \in Resources, CreateAddAlias(r)
    PROVE  Inv'
<1>1. op[r].pc = "addAlias" /\ op[r].pc \in CreatePcs /\ UNCHANGED <<cfg, tf, history>>
  BY DEF CreateAddAlias, CreatePcs
<1>2. PICK a \in op[r].adds, err \in ErrorClasses :
        /\ AddBucketAlias(op[r].id, a, op[r].cancelled, err)
        /\ \/ /\ err = "ok"
              /\ Continue(r, [op[r] EXCEPT !.adds = @ \ {a},
                                           !.pc = CreatePc(op[r].adds \ {a}, op[r].plan)])
           \/ /\ err # "ok"
              /\ FailCreate(r)
  BY DEF CreateAddAlias
<1>3. op[r].id \in BucketIds /\ tf[r] = NoState /\ a \in Aliases
  BY <1>1, BlockFacts DEF Shape, Handlers, AliasSets
<1>4. GarageTypeOK' /\ left' \in [Kinds -> Nat] /\ live' = live
  BY <1>2, <1>3, BlockFacts, AddBucketAliasFacts
<1>5. PICK h \in Handlers : Continue(r, h) /\ h.pc \in CreatePcs /\ h.id = op[r].id
  <2>1. CASE FailCreate(r)
    BY <1>1, <2>1, FailCreateFacts
  <2>2. CASE Continue(r, [op[r] EXCEPT !.adds = @ \ {a},
                                       !.pc = CreatePc(op[r].adds \ {a}, op[r].plan)])
    <3> DEFINE adds == op[r].adds \ {a}
               h == [op[r] EXCEPT !.adds = adds, !.pc = CreatePc(adds, op[r].plan)]
    <3>1. op[r] \in Handlers /\ op[r].adds \in AliasSets
      BY BlockFacts DEF Handlers
    <3>2. adds \in AliasSets
      BY <3>1 DEF AliasSets
    <3>3. CreatePc(adds, op[r].plan) \in CreatePcs
      BY CreatePcType
    <3>4. Continue(r, h)
      BY <2>2
    <3> HIDE DEF adds
    <3>5. h \in Handlers /\ h.pc \in CreatePcs /\ h.id = op[r].id
      BY <3>1, <3>2, <3>3 DEF Handlers
    <3> QED
      BY <3>4, <3>5
  <2> QED
    BY <1>2, <2>1, <2>2
<1> QED
  BY <1>1, <1>3, <1>4, <1>5, HandlerStep DEF CreatePcs, UpdatePcs, DeletePcs

\* So does setting the quotas.
LEMMA CreateSetQuotaInv ==
    ASSUME Inv, NEW r \in Resources, CreateSetQuota(r)
    PROVE  Inv'
<1>1. op[r].pc = "setQuota" /\ op[r].pc \in CreatePcs /\ UNCHANGED <<cfg, tf, history>>
  BY DEF CreateSetQuota, CreatePcs
<1>2. PICK err \in ErrorClasses :
        /\ UpdateBucket(op[r].id, ModelToQuotas(op[r].plan.quota), op[r].cancelled, err)
        /\ IF err = "ok" THEN Continue(r, [op[r] EXCEPT !.pc = "createGet"]) ELSE FailCreate(r)
  BY DEF CreateSetQuota
<1>3. op[r].id \in BucketIds /\ tf[r] = NoState /\ op[r].plan.quota \in QuotaAttrs
  BY <1>1, BlockFacts DEF Shape, Handlers, Plans
<1>4. GarageTypeOK' /\ left' \in [Kinds -> Nat] /\ live' = live
  BY <1>2, <1>3, BlockFacts, QuotaRoundTrip, UpdateBucketFacts
<1>5. PICK h \in Handlers : Continue(r, h) /\ h.pc \in CreatePcs /\ h.id = op[r].id
  <2>1. CASE FailCreate(r)
    BY <1>1, <2>1, FailCreateFacts
  <2>2. CASE Continue(r, [op[r] EXCEPT !.pc = "createGet"])
    BY <2>2, BlockFacts DEF Handlers, CreatePcs
  <2> QED
    BY <1>2, <2>1, <2>2
<1> QED
  BY <1>1, <1>3, <1>4, <1>5, HandlerStep DEF CreatePcs, UpdatePcs, DeletePcs

\* The final read moves the bucket from the handler to the state, or keeps
\* it in hand for the rollback.
LEMMA CreateGetInv ==
    ASSUME Inv, NEW r \in Resources, CreateGet(r)
    PROVE  Inv'
<1>1. op[r].pc = "createGet" /\ op[r].pc \in CreatePcs /\ UNCHANGED <<cfg, disturbed, known>>
  BY DEF CreateGet, CreatePcs
<1>2. op[r].id \in BucketIds /\ tf[r] = NoState /\ op[r].plan.force \in BOOLEAN
  BY <1>1, BlockFacts DEF Shape, Handlers, Plans
<1>3. PICK err \in ErrorClasses :
        /\ GetBucket(op[r].id, op[r].cancelled, err)
        /\ \/ /\ err = "ok"
              /\ tf' = [tf EXCEPT ![r] = ApplyBucketInfo(BucketInfo(op[r].id), op[r].plan)]
              /\ Continue(r, Idle)
              /\ consent' = IF op[r].plan.force THEN consent \cup {op[r].id} ELSE consent \ {op[r].id}
           \/ /\ err # "ok"
              /\ FailCreate(r)
              /\ UNCHANGED <<tf, consent>>
  BY DEF CreateGet
<1>4. UNCHANGED garage /\ left' \in [Kinds -> Nat]
  BY <1>2, <1>3, BlockFacts, GetBucketFacts
<1>5. GarageTypeOK' /\ live' = live
  BY <1>4, GarageSame
<1>6. CASE FailCreate(r) /\ UNCHANGED <<tf, consent>>
  <2>1. PICK h \in Handlers : Continue(r, h) /\ h.pc \in CreatePcs /\ h.id = op[r].id
    BY <1>1, <1>6, FailCreateFacts
  <2>2. UNCHANGED <<cfg, tf, history>>
    BY <1>1, <1>6 DEF history
  <2> QED
    BY <1>1, <1>2, <1>4, <1>5, <2>1, <2>2, HandlerStep DEF CreatePcs, UpdatePcs, DeletePcs
<1>7. CASE /\ tf' = [tf EXCEPT ![r] = ApplyBucketInfo(BucketInfo(op[r].id), op[r].plan)]
           /\ Continue(r, Idle)
           /\ consent' = IF op[r].plan.force THEN consent \cup {op[r].id} ELSE consent \ {op[r].id}
  <2> DEFINE state == ApplyBucketInfo(BucketInfo(op[r].id), op[r].plan)
  <2>1. state \in States /\ state.id = op[r].id
    BY <1>2, BlockFacts, ApplyType
  <2>2. tf' = [tf EXCEPT ![r] = state]
    BY <1>7
  <2> HIDE DEF state
  <2>3. op' = [op EXCEPT ![r] = Idle] /\ op'[r] = Idle /\ Idle.pc = "idle" /\ tf'[r] = state
    BY <1>7, <2>2 DEF Continue, Inv, TypeOK, Idle
  <2>4. /\ cfg' \in [Resources -> ConfigSpace \cup {Null}]
        /\ disturbed' \in SUBSET Resources
        /\ consent' \in SUBSET BucketIds
        /\ known' \in SUBSET BucketIds
        /\ known' = known
        /\ known' \subseteq live'
    BY <1>1, <1>2, <1>5, <1>7 DEF Inv, TypeOK
  <2>5. Shape(r)'
    BY <2>3 DEF Shape, CreatePcs, UpdatePcs, DeletePcs
  <2>6. state # NoState
    BY <2>1, NoStateAssumption
  <2>7. \A b : b = op[r].id => Holds(r, b)'
    BY <2>1, <2>3, <2>6 DEF Holds
  <2>8. \A b : Holds(r, b) => b = op[r].id
    BY <1>1, <1>2 DEF Holds, CreatedBy
  <2>9. \A b : Holds(r, b)' => b = op[r].id
    BY <2>1, <2>3, PcsDisjoint DEF Holds, CreatedBy
  <2>10. op[r].id \notin known /\ Holds(r, op[r].id)
    <3>1. Holds(r, op[r].id)
      BY <1>1, <1>2 DEF Holds, CreatedBy
    <3> QED
      BY <1>2, <3>1, BlockFacts
  <2>11. \A b \in BucketIds : Holds(r, b)' =>
            b \notin known' /\ (Holds(r, b) \/ \A s \in Resources : ~Holds(s, b))
    BY <2>4, <2>9, <2>10
  <2>12. \A b \in known' : b \in known
    BY <2>4
  <2>13. \A b \in live' : b \in live /\ (b \in known \/ Holds(r, b) => b \in known' \/ Holds(r, b)')
    BY <1>5, <2>4, <2>7, <2>8
  <2> QED
    BY <1>4, <1>5, <2>1, <2>2, <2>3, <2>4, <2>5, <2>11, <2>12, <2>13, IdleType, BlockStep
<1> QED
  BY <1>3, <1>6, <1>7

\* The rollback deletes its own bucket, or reports it.
LEMMA RollbackInv ==
    ASSUME Inv, NEW r \in Resources, Rollback(r)
    PROVE  Inv'
<1>1. /\ op[r].pc = "rollback" /\ op[r].pc \in CreatePcs
      /\ Continue(r, Idle)
      /\ UNCHANGED <<cfg, tf, disturbed>>
  BY DEF Rollback, CreatePcs
<1>2. op[r].id \in BucketIds /\ tf[r] = NoState
  BY <1>1, BlockFacts DEF Shape
<1>3. PICK err \in ErrorClasses :
        /\ DeleteBucket(op[r].id, op[r].cancelled, err)
        /\ Account(IF err = "ok" THEN {} ELSE {op[r].id})
  BY DEF Rollback
<1>4. /\ GarageTypeOK' /\ left' \in [Kinds -> Nat]
      /\ live' \in {live, live \ {op[r].id}}
      /\ err = "ok" => live' = live \ {op[r].id}
  BY <1>2, <1>3, BlockFacts, DeleteBucketFacts
<1>5. op' = [op EXCEPT ![r] = Idle] /\ op'[r] = Idle /\ Idle.pc = "idle"
  BY <1>1 DEF Continue, Inv, TypeOK, Idle
<1>6. /\ cfg' \in [Resources -> ConfigSpace \cup {Null}]
      /\ disturbed' \in SUBSET Resources
      /\ NoState \in States \cup {NoState}
      /\ tf' = [tf EXCEPT ![r] = NoState]
  BY <1>1, <1>2 DEF Inv, TypeOK
<1>7. /\ known' = (known \cup (IF err = "ok" THEN {} ELSE {op[r].id})) \cap live'
      /\ consent' = consent \cap live'
  BY <1>3 DEF Account
<1>8. /\ consent' \in SUBSET BucketIds /\ known' \in SUBSET BucketIds
      /\ known' \subseteq live'
  BY <1>2, <1>7 DEF Inv, TypeOK
<1>9. Shape(r)'
  BY <1>5 DEF Shape, CreatePcs, UpdatePcs, DeletePcs
<1>10. \A b : Holds(r, b) => b = op[r].id
  BY <1>1, <1>2 DEF Holds, CreatedBy
<1>11. \A b \in live' : b \in known \/ Holds(r, b) => b \in known'
  BY <1>4, <1>7, <1>10
<1>12. \A b \in live' : b \in live
  BY <1>4
<1>13. \A b : ~Holds(r, b)'
  BY <1>1, <1>2, <1>5, PcsDisjoint DEF Holds, CreatedBy
<1>14. \A b : b = op[r].id => Holds(r, b)
  BY <1>1 DEF Holds, CreatedBy
<1>15. \A b \in known' : b \in known \/ Holds(r, b)
  BY <1>7, <1>14
<1> QED
  BY <1>4, <1>5, <1>6, <1>8, <1>9, <1>11, <1>12, <1>13, <1>15, IdleType, BlockStep

----
(* Update *)

\* Update goes on with one of its own calls.
LEMMA UpdatePcType ==
    ASSUME NEW adds, NEW drops, NEW plan, NEW state
    PROVE  UpdatePc(adds, drops, plan, state) \in UpdatePcs
BY DEF UpdatePc, UpdatePcs

\* An Update or Delete that goes on, or ends, without touching the state.
LEMMA BoundStep ==
    ASSUME Inv, NEW r \in Resources, op[r].pc \in UpdatePcs \cup DeletePcs,
           NEW h \in Handlers, Continue(r, h), UNCHANGED <<cfg, tf, history>>,
           GarageTypeOK', left' \in [Kinds -> Nat], live' = live,
           \/ h = Idle
           \/ h.pc \in UpdatePcs \cup DeletePcs /\ h.id = op[r].id,
           h.pc \in {"list", "purge"} => h.alias \in Aliases
    PROVE  Inv'
<1>1. tf[r] # NoState /\ op[r].id = tf[r].id /\ op[r].pc \notin CreatePcs
  BY BlockFacts, PcsDisjoint DEF Shape
<1>2. h.pc \notin {"createBucket"} \cup CreatePcs
  BY PcsDisjoint
<1>3. h.pc \in UpdatePcs \cup DeletePcs => h.id = tf[r].id
  BY <1>1, PcsDisjoint
<1> QED
  BY <1>1, <1>2, <1>3, HandlerStep

\* Update's alias adds leave the state entry alone.
LEMMA UpdateAddAliasInv ==
    ASSUME Inv, NEW r \in Resources, UpdateAddAlias(r)
    PROVE  Inv'
<1>1. op[r].pc \in UpdatePcs /\ UNCHANGED <<cfg, tf, history>>
  BY DEF UpdateAddAlias, UpdatePcs
<1>2. PICK a \in op[r].adds, err \in ErrorClasses :
        /\ AddBucketAlias(op[r].id, a, op[r].cancelled, err)
        /\ Continue(r, IF err = "ok"
                       THEN [op[r] EXCEPT !.adds = @ \ {a},
                                          !.pc = UpdatePc(op[r].adds \ {a}, op[r].drops, op[r].plan, tf[r])]
                       ELSE Idle)
  BY DEF UpdateAddAlias
<1>3. op[r].id \in BucketIds /\ a \in Aliases
  BY <1>1, BlockFacts DEF Shape, Handlers, AliasSets
<1>4. GarageTypeOK' /\ left' \in [Kinds -> Nat] /\ live' = live
  BY <1>2, <1>3, BlockFacts, AddBucketAliasFacts
<1> DEFINE adds == op[r].adds \ {a}
           pc == UpdatePc(adds, op[r].drops, op[r].plan, tf[r])
           h == [op[r] EXCEPT !.adds = adds, !.pc = pc]
<1>5. h \in Handlers /\ h.pc \in UpdatePcs /\ h.id = op[r].id
  <2>1. op[r] \in Handlers /\ op[r].adds \in AliasSets
    BY BlockFacts DEF Handlers
  <2>2. adds \in AliasSets
    BY <2>1 DEF AliasSets
  <2>3. pc \in UpdatePcs
    BY UpdatePcType
  <2> HIDE DEF adds, pc
  <2> QED
    BY <2>1, <2>2, <2>3 DEF Handlers
<1>6. Continue(r, h) \/ Continue(r, Idle)
  BY <1>2
<1> HIDE DEF h
<1> QED
  BY <1>1, <1>4, <1>5, <1>6, IdleType, PcsDisjoint, BoundStep

\* So do its removes.
LEMMA UpdateRemoveAliasInv ==
    ASSUME Inv, NEW r \in Resources, UpdateRemoveAlias(r)
    PROVE  Inv'
<1>1. op[r].pc \in UpdatePcs /\ UNCHANGED <<cfg, tf, history>>
  BY DEF UpdateRemoveAlias, UpdatePcs
<1>2. PICK a \in op[r].drops, err \in ErrorClasses :
        /\ RemoveBucketAlias(op[r].id, a, op[r].cancelled, err)
        /\ Continue(r, IF err = "ok"
                       THEN [op[r] EXCEPT !.drops = @ \ {a},
                                          !.pc = UpdatePc(op[r].adds, op[r].drops \ {a}, op[r].plan, tf[r])]
                       ELSE Idle)
  BY DEF UpdateRemoveAlias
<1>3. op[r].id \in BucketIds /\ a \in Aliases
  BY <1>1, BlockFacts DEF Shape, Handlers, AliasSets
<1>4. GarageTypeOK' /\ left' \in [Kinds -> Nat] /\ live' = live
  BY <1>2, <1>3, BlockFacts, RemoveBucketAliasFacts
<1> DEFINE drops == op[r].drops \ {a}
           pc == UpdatePc(op[r].adds, drops, op[r].plan, tf[r])
           h == [op[r] EXCEPT !.drops = drops, !.pc = pc]
<1>5. h \in Handlers /\ h.pc \in UpdatePcs /\ h.id = op[r].id
  <2>1. op[r] \in Handlers /\ op[r].drops \in AliasSets
    BY BlockFacts DEF Handlers
  <2>2. drops \in AliasSets
    BY <2>1 DEF AliasSets
  <2>3. pc \in UpdatePcs
    BY UpdatePcType
  <2> HIDE DEF drops, pc
  <2> QED
    BY <2>1, <2>2, <2>3 DEF Handlers
<1>6. Continue(r, h) \/ Continue(r, Idle)
  BY <1>2
<1> HIDE DEF h
<1> QED
  BY <1>1, <1>4, <1>5, <1>6, IdleType, PcsDisjoint, BoundStep

\* And its quota call.
LEMMA UpdateSetQuotaInv ==
    ASSUME Inv, NEW r \in Resources, UpdateSetQuota(r)
    PROVE  Inv'
<1>1. op[r].pc \in UpdatePcs /\ UNCHANGED <<cfg, tf, history>>
  BY DEF UpdateSetQuota, UpdatePcs
<1>2. PICK err \in ErrorClasses :
        /\ UpdateBucket(op[r].id, ModelToQuotas(op[r].plan.quota), op[r].cancelled, err)
        /\ Continue(r, IF err = "ok" THEN [op[r] EXCEPT !.pc = "updateGet"] ELSE Idle)
  BY DEF UpdateSetQuota
<1>3. op[r].id \in BucketIds /\ op[r].plan.quota \in QuotaAttrs
  BY <1>1, BlockFacts DEF Shape, Handlers, Plans
<1>4. GarageTypeOK' /\ left' \in [Kinds -> Nat] /\ live' = live
  BY <1>2, <1>3, BlockFacts, QuotaRoundTrip, UpdateBucketFacts
<1> DEFINE h == [op[r] EXCEPT !.pc = "updateGet"]
<1>5. h \in Handlers /\ h.pc \in UpdatePcs /\ h.id = op[r].id
  BY BlockFacts DEF Handlers, UpdatePcs
<1>6. Continue(r, h) \/ Continue(r, Idle)
  BY <1>2
<1> HIDE DEF h
<1> QED
  BY <1>1, <1>4, <1>5, <1>6, IdleType, PcsDisjoint, BoundStep

\* Update's final read renews the entry of the same bucket.
LEMMA UpdateGetInv ==
    ASSUME Inv, NEW r \in Resources, UpdateGet(r)
    PROVE  Inv'
<1>1. /\ op[r].pc = "updateGet" /\ op[r].pc \in UpdatePcs
      /\ Continue(r, Idle)
      /\ UNCHANGED <<cfg, disturbed, known>>
  BY DEF UpdateGet, UpdatePcs
<1>2. /\ op[r].id \in BucketIds /\ op[r].plan.force \in BOOLEAN
      /\ tf[r] # NoState /\ op[r].id = tf[r].id
  BY <1>1, BlockFacts DEF Shape, Handlers, Plans
<1>3. PICK err \in ErrorClasses :
        /\ GetBucket(op[r].id, op[r].cancelled, err)
        /\ \/ /\ err = "ok"
              /\ tf' = [tf EXCEPT ![r] = ApplyBucketInfo(BucketInfo(op[r].id), op[r].plan)]
              /\ consent' = IF op[r].plan.force THEN consent \cup {op[r].id} ELSE consent \ {op[r].id}
           \/ /\ err # "ok"
              /\ UNCHANGED <<tf, consent>>
  BY DEF UpdateGet
<1>4. UNCHANGED garage /\ left' \in [Kinds -> Nat]
  BY <1>2, <1>3, BlockFacts, GetBucketFacts
<1>5. GarageTypeOK' /\ live' = live
  BY <1>4, GarageSame
<1>6. CASE UNCHANGED <<tf, consent>>
  <2>1. UNCHANGED <<cfg, tf, history>>
    BY <1>1, <1>6 DEF history
  <2> QED
    BY <1>1, <1>4, <1>5, <2>1, IdleType, PcsDisjoint, BoundStep
<1>7. CASE /\ tf' = [tf EXCEPT ![r] = ApplyBucketInfo(BucketInfo(op[r].id), op[r].plan)]
           /\ consent' = IF op[r].plan.force THEN consent \cup {op[r].id} ELSE consent \ {op[r].id}
  <2> DEFINE state == ApplyBucketInfo(BucketInfo(op[r].id), op[r].plan)
  <2>1. state \in States /\ state.id = op[r].id
    BY <1>2, BlockFacts, ApplyType
  <2>2. tf' = [tf EXCEPT ![r] = state]
    BY <1>7
  <2> HIDE DEF state
  <2>3. op' = [op EXCEPT ![r] = Idle] /\ op'[r] = Idle /\ tf'[r] = state
    BY <1>1, <2>2 DEF Continue, Inv, TypeOK
  <2>4. /\ cfg' \in [Resources -> ConfigSpace \cup {Null}]
        /\ disturbed' \in SUBSET Resources
        /\ consent' \in SUBSET BucketIds
        /\ known' \in SUBSET BucketIds
        /\ known' = known
        /\ known' \subseteq live'
    BY <1>1, <1>2, <1>5, <1>7 DEF Inv, TypeOK
  <2>5. Shape(r)'
    BY <2>3, PcsDisjoint DEF Shape
  <2>6. state # NoState
    BY <2>1, NoStateAssumption
  <2>7. \A b : b = op[r].id => Holds(r, b)'
    BY <2>1, <2>3, <2>6 DEF Holds
  <2>8. \A b : Holds(r, b) => b = op[r].id
    BY <1>1, <1>2, PcsDisjoint DEF Holds, CreatedBy
  <2>9. \A b : Holds(r, b)' => b = op[r].id
    BY <2>1, <2>3, PcsDisjoint DEF Holds, CreatedBy
  <2>10. op[r].id \notin known /\ Holds(r, op[r].id)
    <3>1. Holds(r, op[r].id)
      BY <1>1, <1>2 DEF Holds, CreatedBy
    <3> QED
      BY <1>2, <3>1, BlockFacts
  <2> QED
    BY <1>4, <1>5, <2>1, <2>2, <2>3, <2>4, <2>5, <2>7, <2>8, <2>9, <2>10, IdleType, BlockStep
<1> QED
  BY <1>3, <1>6, <1>7

----
(* Delete *)

\* A Delete that ends without an error forgets a bucket that is gone.
LEMMA ForgetStep ==
    ASSUME Inv, NEW r \in Resources, op[r].pc \in DeletePcs,
           Forget(r), Continue(r, Idle), UNCHANGED <<cfg, disturbed>>,
           GarageTypeOK', left' \in [Kinds -> Nat],
           live' \subseteq live, op[r].id \notin live',
           known' = known \cap live', consent' \in SUBSET BucketIds
    PROVE  Inv'
<1>1. tf[r] # NoState /\ op[r].id = tf[r].id
  BY BlockFacts DEF Shape
<1>2. /\ op' = [op EXCEPT ![r] = Idle] /\ op'[r] = Idle
      /\ tf' = [tf EXCEPT ![r] = NoState] /\ tf'[r] = NoState
      /\ NoState \in States \cup {NoState}
  BY DEF Continue, Forget, Inv, TypeOK
<1>3. /\ cfg' \in [Resources -> ConfigSpace \cup {Null}]
      /\ disturbed' \in SUBSET Resources
      /\ known' \in SUBSET BucketIds
      /\ known' \subseteq live'
  BY DEF Inv, TypeOK
<1>4. Shape(r)'
  BY <1>2, PcsDisjoint DEF Shape
<1>5. \A b : Holds(r, b) => b = op[r].id
  BY <1>1, PcsDisjoint DEF Holds, CreatedBy
<1>6. \A b \in live' : b \in live /\ (b \in known \/ Holds(r, b) => b \in known')
  BY <1>5
<1>7. \A b : ~Holds(r, b)'
  BY <1>2, PcsDisjoint DEF Holds, CreatedBy
<1> QED
  BY <1>2, <1>3, <1>4, <1>6, <1>7, IdleType, BlockStep

\* Delete's read forgets the bucket on 404 alone.
LEMMA DeleteGetInv ==
    ASSUME Inv, NEW r \in Resources, DeleteGet(r)
    PROVE  Inv'
<1>1. /\ op[r].pc = "deleteGet" /\ op[r].pc \in DeletePcs
      /\ UNCHANGED <<cfg, history>>
  BY DEF DeleteGet, DeletePcs
<1>2. op[r].id \in BucketIds
  BY <1>1, BlockFacts DEF Shape
<1> DEFINE info == BucketInfo(op[r].id)
           target(a) == [op[r] EXCEPT !.pc = "list", !.alias = a]
           last == [op[r] EXCEPT !.pc = "deleteBucket"]
<1>3. PICK err \in ErrorClasses :
        /\ GetBucket(op[r].id, op[r].cancelled, err)
        /\ \/ /\ Gone(err)
              /\ Forget(r)
              /\ Continue(r, Idle)
           \/ Continue(r, last) /\ UNCHANGED tf
           \/ (\E a \in EmptyTargets(info) : Continue(r, target(a))) /\ UNCHANGED tf
           \/ Continue(r, Idle) /\ UNCHANGED tf
  BY DEF DeleteGet
<1>4. /\ UNCHANGED garage /\ left' \in [Kinds -> Nat]
      /\ err = "notFound" => op[r].id \notin live
  BY <1>2, <1>3, BlockFacts, GetBucketFacts
<1>5. GarageTypeOK' /\ live' = live
  BY <1>4, GarageSame
<1>6. CASE Gone(err) /\ Forget(r) /\ Continue(r, Idle)
  <2>1. op[r].id \notin live'
    BY <1>4, <1>5, <1>6 DEF Gone
  <2>2. /\ UNCHANGED <<cfg, disturbed>>
        /\ known' = known \cap live' /\ consent' \in SUBSET BucketIds
    BY <1>1, <1>5 DEF history, Inv, TypeOK
  <2>3. live' \subseteq live
    BY <1>5
  <2> QED
    BY <1>1, <1>4, <1>5, <1>6, <2>1, <2>2, <2>3, ForgetStep
<1>7. CASE UNCHANGED tf /\ \E h \in Handlers :
             /\ Continue(r, h)
             /\ h = Idle \/ (h.pc \in UpdatePcs \cup DeletePcs /\ h.id = op[r].id)
             /\ h.pc \in {"list", "purge"} => h.alias \in Aliases
  <2>1. UNCHANGED <<cfg, tf, history>>
    BY <1>1, <1>7
  <2> QED
    BY <1>1, <1>4, <1>5, <1>7, <2>1, PcsDisjoint, BoundStep
<1>8. last \in Handlers /\ last.pc = "deleteBucket" /\ last.pc \in DeletePcs /\ last.id = op[r].id
  BY BlockFacts DEF Handlers, DeletePcs
<1>9. \A a \in EmptyTargets(info) :
        /\ target(a) \in Handlers /\ target(a).pc \in DeletePcs
        /\ target(a).id = op[r].id /\ target(a).alias \in Aliases
  <2>1. \A a \in EmptyTargets(info) : a \in Aliases
    BY DEF EmptyTargets, BucketInfo, AliasesOf
  <2> QED
    BY <2>1, BlockFacts DEF Handlers, DeletePcs
<1> HIDE DEF last, target, info
<1>10. Idle.pc \notin {"list", "purge"}
  BY DEF Idle
<1>11. \/ Gone(err) /\ Forget(r) /\ Continue(r, Idle)
       \/ UNCHANGED tf /\ \E h \in Handlers :
             /\ Continue(r, h)
             /\ h = Idle \/ (h.pc \in UpdatePcs \cup DeletePcs /\ h.id = op[r].id)
             /\ h.pc \in {"list", "purge"} => h.alias \in Aliases
  BY <1>3, <1>8, <1>9, <1>10, IdleType
<1> QED
  BY <1>6, <1>7, <1>11

\* Listing goes on with the same bucket.
LEMMA EmptyListInv ==
    ASSUME Inv, NEW r \in Resources, EmptyList(r)
    PROVE  Inv'
<1>1. /\ op[r].pc \in DeletePcs /\ op[r].alias \in Aliases
      /\ UNCHANGED <<cfg, tf, history>>
  BY BlockFacts DEF EmptyList, DeletePcs, Shape
<1> DEFINE page == objects[owner[op[r].alias]]
           pc == IF page = {} THEN "deleteBucket" ELSE "purge"
           h == [op[r] EXCEPT !.page = page, !.pc = pc]
<1>2. PICK err \in ErrorClasses :
        /\ ListObjects(op[r].alias, op[r].cancelled, err)
        /\ Continue(r, IF err # "ok" THEN Idle ELSE h)
  BY DEF EmptyList
<1>3. GarageTypeOK' /\ left' \in [Kinds -> Nat] /\ live' = live
  BY <1>1, <1>2, BlockFacts, S3Facts
<1>4. err = "ok" => owner[op[r].alias] # NoBucket
  <2>1. S3Status(op[r].alias) = 404 <=> owner[op[r].alias] = NoBucket
    BY DEF S3Status
  <2> QED
    BY <1>2, <2>1, Statuses, FailuresSay DEF ListObjects, Request
<1>5. err = "ok" => page \in SUBSET Keys
  BY <1>1, <1>4, BlockFacts DEF GarageTypeOK
<1>6. pc \in DeletePcs
  BY DEF DeletePcs
<1> HIDE DEF page, pc
<1>7. err = "ok" => h \in Handlers /\ h.pc \in DeletePcs /\ h.id = op[r].id /\ h.alias \in Aliases
  BY <1>1, <1>5, <1>6, BlockFacts DEF Handlers
<1> HIDE DEF h
<1> QED
  BY <1>1, <1>2, <1>3, <1>7, IdleType, PcsDisjoint, BoundStep

\* So does deleting the listed keys.
LEMMA EmptyPurgeInv ==
    ASSUME Inv, NEW r \in Resources, EmptyPurge(r)
    PROVE  Inv'
<1>1. /\ op[r].pc \in DeletePcs /\ op[r].alias \in Aliases
      /\ UNCHANGED <<cfg, tf, history>>
  BY BlockFacts DEF EmptyPurge, DeletePcs, Shape
<1> DEFINE h == [op[r] EXCEPT !.pc = "deleteBucket"]
<1>2. PICK err \in ErrorClasses :
        /\ DeleteObjects(op[r].alias, op[r].page, op[r].cancelled, err)
        /\ Continue(r, IF err = "ok" THEN h ELSE Idle)
  BY DEF EmptyPurge
<1>3. op[r].page \in SUBSET Keys
  BY BlockFacts DEF Handlers
<1>4. GarageTypeOK' /\ left' \in [Kinds -> Nat] /\ live' = live
  BY <1>1, <1>2, <1>3, BlockFacts, S3Facts
<1>5. h \in Handlers /\ h.pc \in DeletePcs /\ h.id = op[r].id /\ h.alias \in Aliases
  BY <1>1, BlockFacts DEF Handlers, DeletePcs
<1> HIDE DEF h
<1> QED
  BY <1>1, <1>2, <1>4, <1>5, IdleType, PcsDisjoint, BoundStep

\* Delete forgets the bucket when Garage says that it is deleted.
LEMMA DeleteCallInv ==
    ASSUME Inv, NEW r \in Resources, DeleteCall(r)
    PROVE  Inv'
<1>1. /\ op[r].pc \in DeletePcs
      /\ Continue(r, Idle) /\ Account({})
      /\ UNCHANGED <<cfg, disturbed>>
  BY DEF DeleteCall, DeletePcs
<1>2. op[r].id \in BucketIds /\ tf[r] # NoState /\ op[r].id = tf[r].id
  BY <1>1, BlockFacts DEF Shape
<1>3. PICK err \in ErrorClasses :
        /\ DeleteBucket(op[r].id, op[r].cancelled, err)
        /\ IF err = "ok" THEN Forget(r) ELSE UNCHANGED tf
  BY DEF DeleteCall
<1>4. /\ GarageTypeOK' /\ left' \in [Kinds -> Nat]
      /\ live' \in {live, live \ {op[r].id}}
      /\ err = "ok" => live' = live \ {op[r].id}
  BY <1>2, <1>3, BlockFacts, DeleteBucketFacts
<1>5. known' = known \cap live' /\ consent' = consent \cap live'
  BY <1>1 DEF Account
<1>6. CASE err = "ok"
  <2>1. live' \subseteq live /\ op[r].id \notin live' /\ consent' \in SUBSET BucketIds
    BY <1>4, <1>5, <1>6 DEF Inv, TypeOK
  <2> QED
    BY <1>1, <1>3, <1>4, <1>5, <1>6, <2>1, ForgetStep
<1>7. CASE err # "ok"
  <2>1. /\ op' = [op EXCEPT ![r] = Idle] /\ op'[r] = Idle
        /\ tf' = [tf EXCEPT ![r] = tf[r]] /\ tf'[r] = tf[r]
    BY <1>1, <1>3, <1>7 DEF Continue, Inv, TypeOK
  <2>2. /\ cfg' \in [Resources -> ConfigSpace \cup {Null}]
        /\ disturbed' \in SUBSET Resources
        /\ known' \in SUBSET BucketIds /\ consent' \in SUBSET BucketIds
        /\ known' \subseteq live'
    BY <1>1, <1>5 DEF Inv, TypeOK
  <2>3. Shape(r)'
    BY <2>1, PcsDisjoint DEF Shape
  <2>4. CreatedBy(r) = {}
    BY <1>1, PcsDisjoint DEF CreatedBy
  <2>5. \A b \in live' : b \in live /\ (b \in known \/ Holds(r, b) => b \in known' \/ Holds(r, b)')
    BY <1>2, <1>4, <1>5, <2>1, <2>4 DEF Holds
  <2>6. \A b : Holds(r, b)' <=> Holds(r, b)
    BY <2>1, <2>4, PcsDisjoint DEF Holds, CreatedBy
  <2> QED
    BY <1>4, <1>5, <2>1, <2>2, <2>3, <2>5, <2>6, BlockFacts, IdleType, BlockStep
<1> QED
  BY <1>6, <1>7

----
(* Disturbances *)

\* A step that touches neither the state nor a handler, and makes no bucket.
LEMMA OutsideStep ==
    ASSUME Inv, UNCHANGED <<tf, op>>,
           GarageTypeOK', left' \in [Kinds -> Nat], live' \subseteq live,
           cfg' \in [Resources -> ConfigSpace \cup {Null}],
           disturbed' \in SUBSET Resources,
           known' = known \cap live', consent' \in SUBSET BucketIds
    PROVE  Inv'
<1>1. TypeOK'
  BY DEF Inv, TypeOK
<1>2. HandlerShape' /\ known' \subseteq live'
  BY DEF Inv, HandlerShape
<1>3. \A r \in Resources : \A b : Holds(r, b)' <=> Holds(r, b)
  BY DEF Holds, CreatedBy
<1>4. live \subseteq BucketIds /\ live' \subseteq BucketIds
  BY DEF Inv, TypeOK, GarageTypeOK
<1>5. \A b \in live : b \in known \/ \E r \in Resources : Holds(r, b)
  BY <1>4, OrphanByBlock DEF Inv
<1>6. \A b \in live' : b \in known' \/ \E r \in Resources : Holds(r, b)'
  BY <1>3, <1>5
<1>7. NoSilentOrphan'
  BY <1>4, <1>6, OrphanByBlockNext
<1>8. Apart'
  BY <1>3 DEF Inv, Apart
<1> QED
  BY <1>1, <1>2, <1>7, <1>8 DEF Inv

\* An interrupt changes nothing but the handler's context.
LEMMA CancelInv ==
    ASSUME Inv, NEW r \in Resources, Cancel(r)
    PROVE  Inv'
<1> DEFINE h == [op[r] EXCEPT !.cancelled = TRUE]
<1>1. Continue(r, h) /\ UNCHANGED <<garage, cfg, tf, history>> /\ Spend("cancel")
  BY DEF Cancel
<1>2. GarageTypeOK' /\ live' = live
  BY <1>1, GarageSame
<1>3. left' \in [Kinds -> Nat]
  <2>1. "cancel" \in Kinds
    BY DEF Kinds
  <2> QED
    BY <1>1, <2>1, SpendType DEF Inv, TypeOK
<1>4. h \in Handlers /\ h.pc = op[r].pc /\ h.id = op[r].id /\ h.alias = op[r].alias
  BY BlockFacts DEF Handlers
<1> HIDE DEF h
<1>5. UNCHANGED <<cfg, tf, history>>
  BY <1>1
<1> QED
  BY <1>1, <1>2, <1>3, <1>4, <1>5, BlockFacts, HandlerStep DEF Shape

\* A killed Create's bucket is accounted for.
LEMMA CrashInv ==
    ASSUME Inv, NEW r \in Resources, Crash(r)
    PROVE  Inv'
<1>1. /\ Continue(r, Idle) /\ Spend("crash")
      /\ known' = known \cup (CreatedBy(r) \cap live)
      /\ UNCHANGED <<garage, cfg, tf, disturbed, consent>>
  BY DEF Crash
<1>2. GarageTypeOK' /\ live' = live
  BY <1>1, GarageSame
<1>3. left' \in [Kinds -> Nat]
  <2>1. "crash" \in Kinds
    BY DEF Kinds
  <2> QED
    BY <1>1, <2>1, SpendType DEF Inv, TypeOK
<1>4. /\ op' = [op EXCEPT ![r] = Idle] /\ op'[r] = Idle
      /\ tf' = [tf EXCEPT ![r] = tf[r]] /\ tf'[r] = tf[r]
  BY <1>1 DEF Continue, Inv, TypeOK
<1>5. /\ cfg' \in [Resources -> ConfigSpace \cup {Null}]
      /\ disturbed' \in SUBSET Resources
      /\ consent' \in SUBSET BucketIds
      /\ known' \in SUBSET BucketIds
      /\ known' \subseteq live'
  BY <1>1, <1>2 DEF Inv, TypeOK, GarageTypeOK
<1>6. Shape(r)'
  BY <1>4, PcsDisjoint DEF Shape
<1>7. \A b \in live' : b \in known \/ Holds(r, b) => b \in known' \/ Holds(r, b)'
  BY <1>1, <1>2, <1>4 DEF Holds
<1>8. CreatedBy(r)' = {}
  BY <1>4, PcsDisjoint DEF CreatedBy
<1>9. \A b : Holds(r, b)' => Holds(r, b) /\ b \notin CreatedBy(r)
  BY <1>4, <1>8, BlockFacts, PcsDisjoint DEF Holds, CreatedBy, Shape
<1>10. \A b \in BucketIds : Holds(r, b)' => b \notin known'
  BY <1>1, <1>9, BlockFacts
<1>11. \A b \in known' : b \in known \/ Holds(r, b)
  BY <1>1 DEF Holds
<1> QED
  BY <1>2, <1>3, <1>4, <1>5, <1>6, <1>7, <1>9, <1>10, <1>11, BlockFacts, IdleType, BlockStep

\* An edit changes no bucket and no state.
LEMMA EditInv ==
    ASSUME Inv, NEW r \in Resources, Edit(r)
    PROVE  Inv'
<1>1. /\ Spend("edit")
      /\ UNCHANGED <<garage, tf, op, history>>
      /\ \E c \in (Configs[r] \cup {Null}) \ {cfg[r]} : cfg' = [cfg EXCEPT ![r] = c]
  BY DEF Edit
<1>2. GarageTypeOK' /\ live' = live
  BY <1>1, GarageSame
<1>3. left' \in [Kinds -> Nat]
  <2>1. "edit" \in Kinds
    BY DEF Kinds
  <2> QED
    BY <1>1, <2>1, SpendType DEF Inv, TypeOK
<1>4. cfg' \in [Resources -> ConfigSpace \cup {Null}]
  <2>1. Configs[r] \subseteq ConfigSpace
    BY ConfigsAssumption
  <2> QED
    BY <1>1, <2>1 DEF Inv, TypeOK
<1>5. disturbed' \in SUBSET Resources /\ consent' \in SUBSET BucketIds /\ known' = known \cap live'
  BY <1>1, <1>2 DEF history, Inv, TypeOK
<1>6. UNCHANGED <<tf, op>> /\ live' \subseteq live
  BY <1>1, <1>2
<1> QED
  BY <1>2, <1>3, <1>4, <1>5, <1>6, OutsideStep

\* An alias moved behind Terraform's back changes no bucket's owner block.
LEMMA MoveAliasInv ==
    ASSUME Inv, NEW a \in Aliases, NEW b \in BucketIds \cup {NoBucket}, MoveAlias(a, b)
    PROVE  Inv'
<1>1. /\ Spend("aliasDrift")
      /\ owner' = [owner EXCEPT ![a] = b]
      /\ disturbed' = Resources
      /\ UNCHANGED <<live, quota, objects, cfg, tf, op, known, consent>>
  BY DEF MoveAlias
<1>2. GarageTypeOK'
  BY <1>1 DEF Inv, TypeOK, GarageTypeOK
<1>3. left' \in [Kinds -> Nat]
  <2>1. "aliasDrift" \in Kinds
    BY DEF Kinds
  <2> QED
    BY <1>1, <2>1, SpendType DEF Inv, TypeOK
<1>4. /\ cfg' \in [Resources -> ConfigSpace \cup {Null}]
      /\ disturbed' \in SUBSET Resources /\ consent' \in SUBSET BucketIds
      /\ known' = known \cap live' /\ live' \subseteq live /\ UNCHANGED <<tf, op>>
  BY <1>1 DEF Inv, TypeOK
<1> QED
  BY <1>2, <1>3, <1>4, OutsideStep

\* Neither does a quota changed there.
LEMMA ChangeQuotaInv ==
    ASSUME Inv, NEW b \in BucketIds, NEW wire \in WireQuotas, ChangeQuota(b, wire)
    PROVE  Inv'
<1>1. /\ Spend("quotaDrift")
      /\ UpdateBucketEffect(b, wire)
      /\ disturbed' = Resources
      /\ UNCHANGED <<cfg, tf, op, known, consent>>
  BY DEF ChangeQuota
<1>2. GarageTypeOK' /\ live' = live
  BY <1>1 DEF Inv, TypeOK, GarageTypeOK, UpdateBucketEffect
<1>3. left' \in [Kinds -> Nat]
  <2>1. "quotaDrift" \in Kinds
    BY DEF Kinds
  <2> QED
    BY <1>1, <2>1, SpendType DEF Inv, TypeOK
<1>4. /\ cfg' \in [Resources -> ConfigSpace \cup {Null}]
      /\ disturbed' \in SUBSET Resources /\ consent' \in SUBSET BucketIds
      /\ known' = known \cap live' /\ live' \subseteq live /\ UNCHANGED <<tf, op>>
  BY <1>1, <1>2 DEF Inv, TypeOK
<1> QED
  BY <1>2, <1>3, <1>4, OutsideStep

\* A bucket deleted there leaves nothing to account for.
LEMMA DropBucketInv ==
    ASSUME Inv, NEW b \in BucketIds, DropBucket(b)
    PROVE  Inv'
<1>1. /\ Spend("bucketDrift")
      /\ DeleteBucketEffect(b)
      /\ Account({})
      /\ disturbed' = Resources
      /\ UNCHANGED <<cfg, tf, op>>
  BY DEF DropBucket
<1>2. GarageTypeOK' /\ live' = live \ {b}
  BY <1>1, DeleteEffectFacts DEF Inv, TypeOK
<1>3. left' \in [Kinds -> Nat]
  <2>1. "bucketDrift" \in Kinds /\ left \in [Kinds -> Nat]
    BY DEF Kinds, Inv, TypeOK
  <2> QED
    BY <1>1, <2>1, SpendType
<1>4. /\ cfg' \in [Resources -> ConfigSpace \cup {Null}]
      /\ disturbed' \in SUBSET Resources /\ consent' \in SUBSET BucketIds
      /\ known' = known \cap live' /\ live' \subseteq live /\ UNCHANGED <<tf, op>>
  BY <1>1, <1>2 DEF Inv, TypeOK, Account
<1> QED
  BY <1>2, <1>3, <1>4, OutsideStep

\* An upload makes no bucket.
LEMMA UploadInv ==
    ASSUME Inv, NEW a \in Aliases, NEW k \in Keys, Upload(a, k)
    PROVE  Inv'
<1>1. /\ owner[a] # NoBucket
      /\ objects' = [objects EXCEPT ![owner[a]] = @ \cup {k}]
      /\ UNCHANGED <<live, owner, quota>>
      /\ Spend("put")
      /\ UNCHANGED <<cfg, tf, op, history>>
  BY DEF Upload, PutObject
<1>2. GarageTypeOK'
  BY <1>1 DEF Inv, TypeOK, GarageTypeOK
<1>3. left' \in [Kinds -> Nat]
  <2>1. "put" \in Kinds /\ left \in [Kinds -> Nat]
    BY DEF Kinds, Inv, TypeOK
  <2> QED
    BY <1>1, <2>1, SpendType
<1>4. /\ cfg' \in [Resources -> ConfigSpace \cup {Null}]
      /\ disturbed' \in SUBSET Resources /\ consent' \in SUBSET BucketIds
      /\ known' = known \cap live' /\ live' \subseteq live /\ UNCHANGED <<tf, op>>
  BY <1>1 DEF Inv, TypeOK, history
<1> QED
  BY <1>2, <1>3, <1>4, OutsideStep

----
(* The theorems *)

\* The invariant holds at the start.
LEMMA InitInv == Init => Inv
<1> SUFFICES ASSUME Init PROVE Inv
  OBVIOUS
<1>1. GarageTypeOK
  <2>1. quota \in [BucketIds -> WireQuotas]
    BY NoQuotaType DEF Init, GarageInit
  <2> QED
    BY <2>1 DEF Init, GarageInit, GarageTypeOK
<1>2. left \in [Kinds -> Nat]
  BY BudgetAssumption DEF Init
<1>3. cfg \in [Resources -> ConfigSpace \cup {Null}]
  BY ConfigsAssumption DEF Init
<1>4. TypeOK
  BY <1>1, <1>2, <1>3, IdleType DEF Init, TypeOK
<1>5. HandlerShape
  BY PcsDisjoint DEF Init, HandlerShape
<1>6. known \subseteq live /\ NoSilentOrphan
  BY DEF Init, GarageInit, NoSilentOrphan
<1>7. Apart
  BY PcsDisjoint DEF Init, Apart, Holds, CreatedBy
<1> QED
  BY <1>4, <1>5, <1>6, <1>7 DEF Inv

\* Every step keeps the invariant.
LEMMA NextInv == Inv /\ [Next]_vars => Inv'
<1> SUFFICES ASSUME Inv, [Next]_vars PROVE Inv'
  OBVIOUS
<1>1. ASSUME NEW r \in Resources, Run(r) PROVE Inv'
  BY <1>1, ReadInv, PlanCreateInv, CreateCallInv, CreateAddAliasInv, CreateSetQuotaInv,
     CreateGetInv, RollbackInv, UpdateAddAliasInv, UpdateRemoveAliasInv, UpdateSetQuotaInv,
     UpdateGetInv, DeleteGetInv, EmptyListInv, EmptyPurgeInv, DeleteCallInv DEF Run
<1>2. ASSUME NEW r \in Resources, NEW b \in BucketIds, Import(r, b) PROVE Inv'
  BY <1>2, ImportInv
<1>3. ASSUME Disturbance PROVE Inv'
  BY <1>3, CancelInv, CrashInv, EditInv, MoveAliasInv, ChangeQuotaInv, DropBucketInv, UploadInv
     DEF Disturbance
<1>4. CASE UNCHANGED vars
  BY <1>4 DEF vars, garage, Inv, TypeOK, GarageTypeOK, HandlerShape,
     NoSilentOrphan, Apart, Holds, Managed, InCreate, CreatedBy
<1> QED
  BY <1>1, <1>2, <1>3, <1>4 DEF Next

\* The inductive invariant, from which the theorems below follow.
THEOREM Invariance == Spec => []Inv
BY InitInv, NextInv, PTL DEF Spec

\* The state is always well typed.
THEOREM TypeCorrect == Spec => []TypeOK
<1>1. Inv => TypeOK
  BY DEF Inv
<1> QED
  BY <1>1, Invariance, PTL

\* A handler always works on its own block's bucket.
THEOREM HandlersBound == Spec => []HandlerShape
<1>1. Inv => HandlerShape
  BY DEF Inv
<1> QED
  BY <1>1, Invariance, PTL

\* No bucket is ever orphaned silently (NoSilentOrphan), however many blocks,
\* buckets, aliases and disturbances there are.
THEOREM NothingLostSilently == Spec => []NoSilentOrphan
<1>1. Inv => NoSilentOrphan
  BY DEF Inv
<1> QED
  BY <1>1, Invariance, PTL

\* A bucket is in one place only (Exclusive): no two blocks ever hold, create
\* or roll back the same bucket.
THEOREM OneOwner == Spec => []Exclusive
<1>1. Inv => Exclusive
  <2> SUFFICES ASSUME Inv PROVE Exclusive
    OBVIOUS
  <2>1. \A r \in Resources : /\ tf[r] # NoState => tf[r].id \in BucketIds
                             /\ \A b \in CreatedBy(r) : b \in BucketIds
    BY BlockFacts DEF CreatedBy, Shape
  <2>2. ASSUME NEW r \in Resources, NEW s \in Resources
        PROVE  /\ tf[r] # NoState => tf[r].id \notin CreatedBy(s)
               /\ r # s =>
                   /\ tf[r] # NoState /\ tf[s] # NoState => tf[r].id # tf[s].id
                   /\ CreatedBy(r) \cap CreatedBy(s) = {}
    <3>1. r = s /\ tf[r] # NoState => CreatedBy(s) = {}
      BY BlockFacts DEF CreatedBy, Shape
    <3>2. r # s => \A b \in BucketIds : ~(Holds(r, b) /\ Holds(s, b))
      BY DEF Inv, Apart
    <3> QED
      BY <2>1, <3>1, <3>2 DEF Holds
  <2>3. known \cap (Managed \cup InCreate) = {}
    <3>1. \A r \in Resources, b \in BucketIds : Holds(r, b) => b \notin known
      BY DEF Inv, Apart
    <3>2. \A b \in Managed \cup InCreate : b \in BucketIds /\ \E r \in Resources : Holds(r, b)
      BY <2>1 DEF Managed, InCreate, Holds
    <3> QED
      BY <3>1, <3>2
  <2> QED
    BY <2>2, <2>3 DEF Exclusive
<1> QED
  BY <1>1, Invariance, PTL
====
